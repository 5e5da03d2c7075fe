---------------------------- MODULE BorderProofs ----------------------------
(***************************************************************************)
(* Proofs about what stands between the motes of practicas 5 and 6 and     *)
(* whoever asks for them: the serial bridge, which carries the packets of  *)
(* the border router (scripts/connect-router-hw.sh), for any number of     *)
(* sessions and chunks, and the CoAP server with its client, for any number*)
(* of requests and any temperatures.                                       *)
(***************************************************************************)
EXTENDS BorderNetwork, SerialBridge, SequenceTheorems, TLAPS

-----------------------------------------------------------------------------
(* The serial bridge: types.                                               *)

\* A thread that holds a chunk has read one, and sends it on a connection;
\* before the first client nothing runs.
Holding(i) == thread[i] \in {"fetch", "send"}

BridgeTypes ==
  /\ TypeOK
  /\ conn = 0 => pc = "accept"
  /\ \A i \in Sessions :
       /\ Holding(i) => chunk[i] # 0
       /\ thread[i] = "send" => target[i] # 0
       /\ conn = 0 => thread[i] = "none"

\* One more than a session that is not the last is a session.
LEMMA NextSession == ASSUME conn \in 0 .. MaxSessions, conn < MaxSessions
                     PROVE  conn + 1 \in Sessions /\ conn + 1 \in 0 .. MaxSessions /\ conn + 1 # 0
BY ParametersAssumption DEF Sessions

LEMMA MainTypes == ASSUME BridgeTypes, Main PROVE BridgeTypes'
<1> USE DEF mainVars, threadVars, clientVars
<1>1. CASE Accept
  <2>1. conn' = conn + 1 /\ conn' \in 0 .. MaxSessions /\ conn' # 0
    BY <1>1, NextSession DEF Accept, BridgeTypes, TypeOK
  <2>2. socket' \in [Sessions -> {"none", "open", "closed"}] /\ pc' = "newStop"
    BY <1>1 DEF Accept, BridgeTypes, TypeOK
  <2>3. UNCHANGED <<stop, isSet, threadVars, port, next, clientVars, outlasted>>
    BY <1>1 DEF Accept
  <2>4. QED
    BY <2>1, <2>2, <2>3 DEF BridgeTypes, TypeOK, Holding
<1>2. CASE NewStop
  BY <1>2 DEF NewStop, BridgeTypes, TypeOK, Holding
<1>3. CASE Start
  BY <1>3 DEF Start, BridgeTypes, TypeOK, Holding
<1>4. CASE Check
  BY <1>4 DEF Check, BridgeTypes, TypeOK, Holding
<1>5. CASE Recv
  <2>1. inbox' \in [Sessions -> 0 .. MaxData]
    <3>1. inbox \in [Sessions -> 0 .. MaxData] /\ conn \in Sessions
      BY <1>5 DEF Recv, BridgeTypes, TypeOK, Sessions
    <3>2. CASE inbox[conn] > 0 /\ inbox' = [inbox EXCEPT ![conn] = @ - 1]
      BY <3>1, <3>2, ParametersAssumption
    <3>3. CASE UNCHANGED inbox
      BY <3>1, <3>3
    <3>4. QED
      BY <1>5, <3>2, <3>3, Zenon DEF Recv
  <2>2. pc' \in {"write", "finish"}
    BY <1>5 DEF Recv
  <2>3. UNCHANGED <<conn, stop, socket, isSet, threadVars, port, next, client, got, outlasted>>
    BY <1>5 DEF Recv
  <2>4. QED
    BY <1>5, <2>1, <2>2, <2>3 DEF Recv, BridgeTypes, TypeOK, Holding
<1>6. CASE Write
  BY <1>6 DEF Write, BridgeTypes, TypeOK, Holding
<1>7. CASE Finish
  BY <1>7 DEF Finish, BridgeTypes, TypeOK, Holding
<1>8. CASE Close
  BY <1>8 DEF Close, BridgeTypes, TypeOK, Holding
<1>9. CASE Join
  BY <1>9 DEF Join, BridgeTypes, TypeOK, Holding
<1>10. QED
  BY <1>1, <1>2, <1>3, <1>4, <1>5, <1>6, <1>7, <1>8, <1>9 DEF Main

LEMMA ThreadTypes ==
  ASSUME BridgeTypes, NEW i \in Sessions, Thread(i) PROVE BridgeTypes'
<1> USE DEF mainVars, threadVars, clientVars, Goto
<1>1. CASE ThreadCheck(i)
  BY <1>1 DEF ThreadCheck, BridgeTypes, TypeOK, Holding
<1>2. CASE ThreadRead(i)
  <2>1. CASE next <= MaxChunks /\ chunk' = [chunk EXCEPT ![i] = next] /\ next' = next + 1
    <3>1. next \in 1 .. MaxChunks /\ next' \in 1 .. MaxChunks + 1
      BY <2>1, ParametersAssumption DEF BridgeTypes, TypeOK
    <3>2. QED
      BY <1>2, <2>1, <3>1, ParametersAssumption DEF ThreadRead, BridgeTypes, TypeOK, Holding
  <2>2. CASE UNCHANGED <<chunk, next>> /\ \E label \in {"check", "leave"} : Goto(i, label)
    BY <1>2, <2>2 DEF ThreadRead, BridgeTypes, TypeOK, Holding
  <2>3. QED
    BY <1>2, <2>1, <2>2 DEF ThreadRead
<1>3. CASE ThreadFetch(i)
  BY <1>3 DEF ThreadFetch, BridgeTypes, TypeOK, Holding
<1>4. CASE ThreadSend(i)
  <2>1. got' \in [Sessions -> Stretches]
    <3>1. chunk[i] \in 1 .. MaxChunks
      BY <1>4 DEF ThreadSend, BridgeTypes, TypeOK, Holding
    <3>2. \A s \in Stretches : Append(s, chunk[i]) \in Stretches
      BY <3>1, AppendProperties DEF Stretches
    <3>3. got \in [Sessions -> Stretches] /\ target[i] \in Sessions
      BY <1>4 DEF ThreadSend, Sessions, BridgeTypes, TypeOK
    <3>4. got' = got \/ got' = [got EXCEPT ![target[i]] = Append(@, chunk[i])]
      BY <1>4 DEF ThreadSend
    <3>5. QED
      BY <3>2, <3>3, <3>4
  <2>2. \E label \in {"check", "leave"} : thread' = [thread EXCEPT ![i] = label]
    BY <1>4 DEF ThreadSend
  <2>3. UNCHANGED <<mainVars, isSet, chunk, target, port, next, client, inbox, outlasted>>
    BY <1>4 DEF ThreadSend
  <2>4. QED
    BY <1>4, <2>1, <2>2, <2>3 DEF ThreadSend, BridgeTypes, TypeOK, Holding
<1>5. CASE ThreadLeave(i)
  BY <1>5 DEF ThreadLeave, BridgeTypes, TypeOK, Holding
<1>6. QED
  BY <1>1, <1>2, <1>3, <1>4, <1>5 DEF Thread

LEMMA OutsideTypes ==
  ASSUME BridgeTypes, NEW i \in Sessions,
         ClientConnects(i) \/ ClientSends(i) \/ ClientLeaves(i) \/ PortFails
  PROVE  BridgeTypes'
<1> USE ParametersAssumption DEF BridgeTypes, TypeOK, Holding, mainVars, threadVars,
        clientVars
<1>1. CASE ClientConnects(i) BY <1>1 DEF ClientConnects
<1>2. CASE ClientSends(i) BY <1>2 DEF ClientSends
<1>3. CASE ClientLeaves(i) BY <1>3 DEF ClientLeaves
<1>4. CASE PortFails BY <1>4 DEF PortFails
<1>5. QED
  BY <1>1, <1>2, <1>3, <1>4

LEMMA BridgeTypesStep == BridgeTypes /\ [Next]_vars => BridgeTypes'
<1> SUFFICES ASSUME BridgeTypes, [Next]_vars PROVE BridgeTypes'
  OBVIOUS
<1>1. CASE Main
  BY <1>1, MainTypes
<1>2. CASE \E i \in Sessions : Thread(i)
  BY <1>2, ThreadTypes
<1>3. CASE \E i \in Sessions : ClientConnects(i) \/ ClientSends(i) \/ ClientLeaves(i)
  BY <1>3, OutsideTypes
<1>4. CASE PortFails
  <2>1. 1 \in Sessions
    BY ParametersAssumption DEF Sessions
  <2>2. QED
    BY <1>4, <2>1, OutsideTypes
<1>5. CASE UNCHANGED vars
  BY <1>5 DEF BridgeTypes, TypeOK, Holding, vars, mainVars, threadVars, clientVars
<1>6. QED
  BY <1>1, <1>2, <1>3, <1>4, <1>5 DEF Next

LEMMA BridgeTypesInit == Init => BridgeTypes
BY ParametersAssumption DEF Init, BridgeTypes, TypeOK, Holding, Stretches

\* Every variable keeps its type, also when a sendall outlasts its join.
THEOREM BridgeTypeCorrect == Spec => []TypeOK
<1>1. BridgeTypes => TypeOK
  BY DEF BridgeTypes
<1>2. QED
  BY <1>1, BridgeTypesInit, BridgeTypesStep, PTL DEF Spec

-----------------------------------------------------------------------------
(* The serial bridge: one session at a time, as long as no sendall has     *)
(* outlasted its join.                                                     *)

\* main's variables name the session in hand, and no other has a thread.
CurrentInv ==
  /\ pc \notin {"accept", "newStop"} => stop = conn
  /\ pc = "accept" /\ conn # 0 => thread[conn] = "ended"
  /\ pc \in {"newStop", "start"} => thread[conn] = "none"
  /\ \A i \in Sessions :
       /\ i < conn => thread[i] = "ended"
       /\ i > conn => thread[i] = "none" /\ ~isSet[i] /\ got[i] = <<>>
       /\ thread[i] = "send" => target[i] = i
       /\ i <= conn => client[i] # "away"

\* A thread that runs is that of the session that main's variables name.
LEMMA Running ==
  ASSUME BridgeTypes, CurrentInv, NEW i \in Sessions, thread[i] \notin {"none", "ended"}
  PROVE  i = conn /\ stop = conn /\ pc \notin {"accept", "newStop", "start"}
<1>1. i \in Nat /\ conn \in Nat
  BY ParametersAssumption DEF Sessions, BridgeTypes, TypeOK
<1>2. i = conn
  BY <1>1 DEF CurrentInv
<1>3. conn # 0
  BY <1>1, <1>2 DEF Sessions
<1>4. QED
  BY <1>2, <1>3 DEF CurrentInv

LEMMA MainCurrent ==
  ASSUME BridgeTypes, CurrentInv, Main, outlasted' = 0 PROVE CurrentInv'
<1> USE DEF mainVars, threadVars, clientVars
<1>1. CASE Accept
  <2>1. conn' = conn + 1 /\ pc' = "newStop" /\ pc = "accept" /\ client[conn + 1] = "here"
    BY <1>1 DEF Accept
  <2>2. UNCHANGED <<thread, isSet, got, target, client>>
    BY <1>1 DEF Accept
  <2>3. conn \in Nat /\ conn + 1 \in Sessions /\ Sessions \subseteq Nat
    BY <1>1, NextSession, ParametersAssumption DEF Accept, BridgeTypes, TypeOK, Sessions
  <2>4. thread[conn + 1] = "none"
    BY <2>3 DEF CurrentInv
  <2>5. ASSUME NEW i \in Sessions
        PROVE  /\ i < conn + 1 => thread[i] = "ended"
               /\ i > conn + 1 => thread[i] = "none" /\ ~isSet[i] /\ got[i] = <<>>
               /\ thread[i] = "send" => target[i] = i
               /\ i <= conn + 1 => client[i] # "away"
    <3>1. CASE i = conn + 1
      BY <2>1, <2>3, <3>1 DEF CurrentInv
    <3>2. CASE i = conn
      BY <2>1, <2>3, <3>2 DEF CurrentInv, Sessions
    <3>3. CASE i # conn /\ i # conn + 1
      BY <2>3, <3>3 DEF CurrentInv
    <3>4. QED
      BY <3>1, <3>2, <3>3
  <2>6. QED
    BY <2>1, <2>2, <2>4, <2>5 DEF CurrentInv
<1>2. CASE NewStop
  BY <1>2 DEF NewStop, CurrentInv
<1>3. CASE Start
  <2>1. \A i \in Sessions : i # conn => thread'[i] = thread[i]
    BY <1>3 DEF Start, BridgeTypes, TypeOK
  <2>2. conn \in Sessions => thread'[conn] = "check"
    BY <1>3 DEF Start, BridgeTypes, TypeOK
  <2>3. conn \in Nat /\ Sessions \subseteq Nat
    BY ParametersAssumption DEF BridgeTypes, TypeOK, Sessions
  <2>4. QED
    BY <1>3, <2>1, <2>2, <2>3 DEF Start, CurrentInv
<1>4. CASE Check
  BY <1>4 DEF Check, CurrentInv
<1>5. CASE Recv
  BY <1>5 DEF Recv, CurrentInv
<1>6. CASE Write
  BY <1>6 DEF Write, CurrentInv
<1>7. CASE Finish
  <2>1. stop = conn /\ pc' = "close"
    BY <1>7 DEF Finish, CurrentInv
  <2>2. \A i \in Sessions : i # conn => isSet'[i] = isSet[i]
    BY <1>7, <2>1 DEF Finish, BridgeTypes, TypeOK
  <2>3. conn \in Nat /\ Sessions \subseteq Nat
    BY ParametersAssumption DEF BridgeTypes, TypeOK, Sessions
  <2>4. QED
    BY <1>7, <2>1, <2>2, <2>3 DEF Finish, CurrentInv
<1>8. CASE Close
  BY <1>8 DEF Close, CurrentInv
<1>9. CASE Join
  <2>1. conn # 0
    BY <1>9 DEF Join, BridgeTypes
  <2>2. thread[conn] = "ended"
    BY <1>9, <2>1 DEF Join
  <2>3. QED
    BY <1>9, <2>2 DEF Join, CurrentInv
<1>10. QED
  BY <1>1, <1>2, <1>3, <1>4, <1>5, <1>6, <1>7, <1>8, <1>9 DEF Main

LEMMA ThreadCurrent ==
  ASSUME BridgeTypes, CurrentInv, NEW i \in Sessions, Thread(i) PROVE CurrentInv'
<1> USE DEF mainVars, threadVars, clientVars, Goto
<1>1. thread[i] \notin {"none", "ended"}
  BY DEF Thread, ThreadCheck, ThreadRead, ThreadFetch, ThreadSend, ThreadLeave
<1>2. i = conn /\ stop = conn /\ pc \notin {"accept", "newStop", "start"}
  BY <1>1, Running
<1>3. conn \in Nat /\ Sessions \subseteq Nat
  BY ParametersAssumption DEF BridgeTypes, TypeOK, Sessions
<1>4. UNCHANGED <<mainVars, client>>
  BY DEF Thread, ThreadCheck, ThreadRead, ThreadFetch, ThreadSend, ThreadLeave
<1>5. ASSUME NEW j \in Sessions, j # i PROVE thread'[j] = thread[j] /\ target'[j] = target[j]
  BY <1>5 DEF Thread, ThreadCheck, ThreadRead, ThreadFetch, ThreadSend, ThreadLeave,
              BridgeTypes, TypeOK
<1>6. ASSUME NEW j \in Sessions, j # i PROVE isSet'[j] = isSet[j]
  BY <1>2, <1>6 DEF Thread, ThreadCheck, ThreadRead, ThreadFetch, ThreadSend, ThreadLeave,
                    BridgeTypes, TypeOK
<1>7. ASSUME NEW j \in Sessions, j # i PROVE got'[j] = got[j]
  BY <1>1, <1>2, <1>7
     DEF Thread, ThreadCheck, ThreadRead, ThreadFetch, ThreadSend, ThreadLeave,
         CurrentInv, BridgeTypes, TypeOK
<1>8. thread'[i] = "send" => target'[i] = i
  BY <1>2 DEF Thread, ThreadCheck, ThreadRead, ThreadFetch, ThreadSend, ThreadLeave,
              CurrentInv, BridgeTypes, TypeOK
<1>9. QED
  BY <1>2, <1>3, <1>4, <1>5, <1>6, <1>7, <1>8 DEF CurrentInv

LEMMA OutsideCurrent ==
  ASSUME BridgeTypes, CurrentInv, NEW i \in Sessions,
         ClientConnects(i) \/ ClientSends(i) \/ ClientLeaves(i) \/ PortFails
  PROVE  CurrentInv'
<1>1. \A j \in Sessions : client[j] # "away" => client'[j] # "away"
  BY DEF ClientConnects, ClientSends, ClientLeaves, PortFails, clientVars, BridgeTypes, TypeOK
<1>2. UNCHANGED <<mainVars, isSet, threadVars, got>>
  BY DEF ClientConnects, ClientSends, ClientLeaves, PortFails, clientVars
<1>3. QED
  BY <1>1, <1>2 DEF CurrentInv, mainVars, threadVars

-----------------------------------------------------------------------------
(* The serial bridge: why a session ends.                                  *)

Over(i) == client[i] = "gone" \/ ~port

\* Nothing ends the session in hand, its thread or its connection before its
\* client has gone or the port has failed.
ReasonInv ==
  conn # 0 =>
    /\ isSet[conn] \/ thread[conn] = "leave" => Over(conn)
    /\ pc \in {"finish", "close", "join"} => Over(conn)
    /\ socket[conn] = "open" \/ pc \in {"join", "accept"}

LEMMA MainReason ==
  ASSUME BridgeTypes, CurrentInv, ReasonInv, Main PROVE ReasonInv'
<1> USE DEF mainVars, threadVars, clientVars
<1>1. CASE Accept
  <2>1. conn' = conn + 1 /\ conn + 1 \in Sessions /\ conn + 1 > conn
    BY <1>1, NextSession, ParametersAssumption DEF Accept, BridgeTypes, TypeOK
  <2>2. ~isSet[conn + 1] /\ thread[conn + 1] = "none"
    BY <2>1 DEF CurrentInv
  <2>3. socket'[conn + 1] = "open" /\ pc' = "newStop" /\ UNCHANGED <<isSet, thread>>
    BY <1>1, <2>1 DEF Accept, BridgeTypes, TypeOK
  <2>4. QED
    BY <2>1, <2>2, <2>3 DEF ReasonInv
<1>2. CASE NewStop
  BY <1>2 DEF NewStop, ReasonInv, Over
<1>3. CASE Start
  BY <1>3 DEF Start, ReasonInv, Over, BridgeTypes, TypeOK
<1>4. CASE Check
  BY <1>4 DEF Check, ReasonInv, CurrentInv, Over
<1>5. CASE Recv
  BY <1>5 DEF Recv, ReasonInv, Over
<1>6. CASE Write
  BY <1>6 DEF Write, ReasonInv, Over
<1>7. CASE Finish
  BY <1>7 DEF Finish, ReasonInv, Over
<1>8. CASE Close
  BY <1>8 DEF Close, ReasonInv, Over
<1>9. CASE Join
  BY <1>9 DEF Join, ReasonInv, Over
<1>10. QED
  BY <1>1, <1>2, <1>3, <1>4, <1>5, <1>6, <1>7, <1>8, <1>9 DEF Main

LEMMA ThreadReason ==
  ASSUME BridgeTypes, CurrentInv, ReasonInv, NEW i \in Sessions, Thread(i) PROVE ReasonInv'
<1> USE DEF mainVars, threadVars, clientVars, Goto
<1>1. thread[i] \notin {"none", "ended"}
  BY DEF Thread, ThreadCheck, ThreadRead, ThreadFetch, ThreadSend, ThreadLeave
<1>2. i = conn /\ stop = conn /\ pc # "accept"
  BY <1>1, Running
<1>3. UNCHANGED <<mainVars, client, port>>
  BY DEF Thread, ThreadCheck, ThreadRead, ThreadFetch, ThreadSend, ThreadLeave
<1>4. client[i] # "away"
  BY <1>2, ParametersAssumption DEF CurrentInv, Sessions, BridgeTypes, TypeOK
<1>5. thread'[i] = "leave" => Over(i)
  <2>1. CASE ThreadCheck(i)
    BY <1>2, <2>1 DEF ThreadCheck, ReasonInv, BridgeTypes, TypeOK, Sessions
  <2>2. CASE ThreadRead(i)
    BY <2>2 DEF ThreadRead, Over, BridgeTypes, TypeOK
  <2>3. CASE ThreadFetch(i)
    BY <2>3 DEF ThreadFetch, BridgeTypes, TypeOK
  <2>4. CASE ThreadSend(i)
    <3>1. target[i] = i /\ conn # 0
      BY <1>2, <2>4 DEF ThreadSend, CurrentInv, Sessions
    <3>2. CASE client[i] = "here" /\ socket[i] = "open"
      BY <2>4, <3>1, <3>2 DEF ThreadSend, BridgeTypes, TypeOK
    <3>3. CASE client[i] # "here"
      BY <1>4, <3>3 DEF Over, BridgeTypes, TypeOK
    <3>4. CASE socket[i] # "open"
      BY <1>2, <3>1, <3>4 DEF ReasonInv
    <3>5. QED
      BY <3>2, <3>3, <3>4
  <2>5. CASE ThreadLeave(i)
    BY <2>5 DEF ThreadLeave, BridgeTypes, TypeOK
  <2>6. QED
    BY <2>1, <2>2, <2>3, <2>4, <2>5 DEF Thread
<1>6. isSet'[i] => Over(i)
  <2>1. isSet[i] \/ thread[i] = "leave" => Over(i)
    BY <1>2 DEF ReasonInv, Sessions
  <2>2. isSet'[i] => isSet[i] \/ thread[i] = "leave"
    BY DEF Thread, ThreadCheck, ThreadRead, ThreadFetch, ThreadSend, ThreadLeave
  <2>3. QED
    BY <2>1, <2>2
<1>7. QED
  BY <1>2, <1>3, <1>5, <1>6 DEF ReasonInv, Over

LEMMA OutsideReason ==
  ASSUME BridgeTypes, CurrentInv, ReasonInv, NEW i \in Sessions,
         ClientConnects(i) \/ ClientSends(i) \/ ClientLeaves(i) \/ PortFails
  PROVE  ReasonInv'
<1>1. \A j \in Sessions : client[j] = "gone" => client'[j] = "gone"
  BY DEF ClientConnects, ClientSends, ClientLeaves, PortFails, clientVars, BridgeTypes, TypeOK
<1>2. UNCHANGED <<mainVars, isSet, threadVars>> /\ (~port => ~port')
  BY DEF ClientConnects, ClientSends, ClientLeaves, PortFails, clientVars
<1>3. conn # 0 => conn \in Sessions
  BY DEF Sessions, BridgeTypes, TypeOK
<1>4. QED
  BY <1>1, <1>2, <1>3 DEF ReasonInv, Over, mainVars, threadVars

-----------------------------------------------------------------------------
(* The serial bridge: the order of the chunks.                             *)

Ordered == \A i \in Sessions : Contiguous(got[i])

\* The last chunk that client i got.
Latest(i) == got[i][Len(got[i])]

\* A chunk in a thread's hands is the last one the port delivered; a client
\* that can still be sent to has got every chunk up to it.
ChunksInv ==
  /\ \A i \in Sessions : Holding(i) => chunk[i] = next - 1
  /\ conn # 0 /\ got[conn] # <<>> /\ client[conn] = "here" /\ socket[conn] = "open"
       => Latest(conn) = IF Holding(conn) THEN next - 2 ELSE next - 1

LEMMA MainChunks ==
  ASSUME BridgeTypes, CurrentInv, ChunksInv, Main PROVE ChunksInv' /\ UNCHANGED got
<1> USE DEF mainVars, threadVars, clientVars
<1>1. UNCHANGED <<chunk, next, client, got>>
  BY DEF Main, Accept, NewStop, Start, Check, Recv, Write, Finish, Close, Join
<1>2. \A i \in Sessions : (Holding(i))' <=> Holding(i)
  BY DEF Main, Accept, NewStop, Start, Check, Recv, Write, Finish, Close, Join, Holding,
         CurrentInv, BridgeTypes, TypeOK
<1>3. CASE Accept
  <2>1. conn' = conn + 1 /\ conn + 1 \in Sessions /\ conn + 1 > conn
    BY <1>3, NextSession, ParametersAssumption DEF Accept, BridgeTypes, TypeOK
  <2>2. got[conn + 1] = <<>>
    BY <2>1 DEF CurrentInv
  <2>3. QED
    BY <1>1, <1>2, <2>1, <2>2 DEF ChunksInv
<1>4. CASE ~Accept
  <2>1. conn' = conn
    BY <1>4 DEF Main, NewStop, Start, Check, Recv, Write, Finish, Close, Join
  <2>2. conn # 0 => conn \in Sessions
    BY DEF Sessions, BridgeTypes, TypeOK
  <2>3. conn # 0 /\ socket'[conn] = "open" => socket[conn] = "open"
    BY <1>4, <2>2
       DEF Main, NewStop, Start, Check, Recv, Write, Finish, Close, Join, BridgeTypes, TypeOK
  <2>4. QED
    BY <1>1, <1>2, <2>1, <2>2, <2>3 DEF ChunksInv, Latest
<1>5. QED
  BY <1>1, <1>3, <1>4

LEMMA OutsideChunks ==
  ASSUME BridgeTypes, CurrentInv, ChunksInv, NEW i \in Sessions,
         ClientConnects(i) \/ ClientSends(i) \/ ClientLeaves(i) \/ PortFails
  PROVE  ChunksInv' /\ UNCHANGED got
<1>1. UNCHANGED <<mainVars, threadVars, next, got>>
  BY DEF ClientConnects, ClientSends, ClientLeaves, PortFails, clientVars
<1>2. \A j \in Sessions : client'[j] = "here" /\ client[j] # "away" => client[j] = "here"
  BY DEF ClientConnects, ClientSends, ClientLeaves, PortFails, clientVars, BridgeTypes, TypeOK
<1>3. conn # 0 => conn \in Sessions /\ client[conn] # "away"
  BY DEF CurrentInv, Sessions, BridgeTypes, TypeOK
<1>4. QED
  BY <1>1, <1>2, <1>3 DEF ChunksInv, Latest, Holding, mainVars, threadVars

\* What is appended continues what is there.
LEMMA Continues ==
  ASSUME NEW s \in Stretches, NEW c \in 1 .. MaxChunks,
         Contiguous(s), s # <<>> => c = s[Len(s)] + 1
  PROVE  /\ Contiguous(Append(s, c))
         /\ Append(s, c)[Len(Append(s, c))] = c
<1>1. s \in Seq(1 .. MaxChunks) /\ Len(s) \in Nat
  BY DEF Stretches
<1>2. /\ Len(Append(s, c)) = Len(s) + 1
      /\ \A j \in 1 .. Len(s) : Append(s, c)[j] = s[j]
      /\ Append(s, c)[Len(s) + 1] = c
  BY <1>1, AppendProperties
<1>3. ASSUME NEW j \in 1 .. Len(s) PROVE Append(s, c)[j + 1] = Append(s, c)[j] + 1
  <2>1. CASE j = Len(s)
    BY <1>1, <1>2, <2>1
  <2>2. CASE j # Len(s)
    <3>1. j \in 1 .. Len(s) - 1 /\ j + 1 \in 1 .. Len(s)
      BY <1>1, <2>2
    <3>2. QED
      BY <1>2, <3>1 DEF Contiguous
  <2>3. QED
    BY <2>1, <2>2
<1>4. QED
  BY <1>1, <1>2, <1>3 DEF Contiguous

LEMMA ThreadChunks ==
  ASSUME BridgeTypes, CurrentInv, ChunksInv, Ordered, NEW i \in Sessions, Thread(i)
  PROVE  ChunksInv' /\ Ordered'
<1> USE DEF mainVars, threadVars, clientVars, Goto
<1>1. thread[i] \notin {"none", "ended"}
  BY DEF Thread, ThreadCheck, ThreadRead, ThreadFetch, ThreadSend, ThreadLeave
<1>2. i = conn /\ conn # 0
  BY <1>1, Running DEF Sessions
<1>3. ASSUME NEW j \in Sessions, j # i PROVE ~Holding(j)
  <2>1. thread[j] \in {"none", "ended"}
    BY <1>2, <1>3, Running
  <2>2. QED
    BY <2>1 DEF Holding
<1>4. \A j \in Sessions : j # i => thread'[j] = thread[j]
  BY DEF Thread, ThreadCheck, ThreadRead, ThreadFetch, ThreadSend, ThreadLeave,
         BridgeTypes, TypeOK
<1>5. \A j \in Sessions : j # i => ~(Holding(j))'
  BY <1>3, <1>4 DEF Holding
<1>6. next \in Nat /\ next >= 1
  BY ParametersAssumption DEF BridgeTypes, TypeOK
<1>7. CASE ThreadCheck(i) \/ ThreadLeave(i)
  <2>1. ~(Holding(i))' /\ ~Holding(i)
    BY <1>7 DEF ThreadCheck, ThreadLeave, Holding, BridgeTypes, TypeOK
  <2>2. UNCHANGED <<mainVars, clientVars, chunk, next>>
    BY <1>7 DEF ThreadCheck, ThreadLeave
  <2>3. QED
    BY <1>2, <1>5, <2>1, <2>2 DEF ChunksInv, Ordered, Latest
<1>8. CASE ThreadRead(i)
  <2>1. CASE chunk' = [chunk EXCEPT ![i] = next] /\ next' = next + 1 /\ Goto(i, "fetch")
    <3>1. chunk'[i] = next /\ (Holding(i))' /\ ~Holding(i)
      BY <1>8, <2>1 DEF ThreadRead, Holding, BridgeTypes, TypeOK
    <3>2. UNCHANGED <<mainVars, clientVars>>
      BY <1>8 DEF ThreadRead
    <3>3. Ordered'
      BY <3>2 DEF Ordered
    <3>4. Latest(conn)' = Latest(conn)
      BY <3>2 DEF Latest
    <3>5. QED
      BY <1>2, <1>5, <1>6, <2>1, <3>1, <3>2, <3>3, <3>4 DEF ChunksInv
  <2>2. CASE UNCHANGED <<chunk, next>> /\ \E label \in {"check", "leave"} : Goto(i, label)
    <3>1. ~(Holding(i))' /\ ~Holding(i)
      BY <1>8, <2>2 DEF ThreadRead, Holding, BridgeTypes, TypeOK
    <3>2. UNCHANGED <<mainVars, clientVars>>
      BY <1>8 DEF ThreadRead
    <3>3. QED
      BY <1>2, <1>5, <2>2, <3>1, <3>2 DEF ChunksInv, Ordered, Latest
  <2>3. QED
    BY <1>8, <2>1, <2>2 DEF ThreadRead
<1>9. CASE ThreadFetch(i)
  BY <1>2, <1>5, <1>9
     DEF ThreadFetch, ChunksInv, Ordered, Holding, Latest, BridgeTypes, TypeOK
<1>10. CASE ThreadSend(i)
  <2>1. target[i] = i /\ Holding(i) /\ chunk[i] = next - 1
    BY <1>10 DEF ThreadSend, CurrentInv, Holding, ChunksInv
  <2>2. chunk[i] \in 1 .. MaxChunks /\ got \in [Sessions -> Stretches]
    BY <2>1 DEF BridgeTypes, TypeOK
  <2>3. ~(Holding(i))' /\ UNCHANGED <<mainVars, chunk, next, client>>
    BY <1>10 DEF ThreadSend, Holding, BridgeTypes, TypeOK
  <2>4. CASE client[i] = "here" /\ socket[i] = "open"
    <3>1. got' = [got EXCEPT ![i] = Append(@, chunk[i])]
      BY <1>10, <2>1, <2>4 DEF ThreadSend
    <3>2. got[i] # <<>> => chunk[i] = got[i][Len(got[i])] + 1
      BY <1>2, <1>6, <2>1, <2>4 DEF ChunksInv, Latest
    <3>3. Contiguous(got[i])
      BY DEF Ordered
    <3>4. got[i] \in Stretches
      BY <2>2
    <3>5. /\ Contiguous(Append(got[i], chunk[i]))
          /\ Append(got[i], chunk[i])[Len(Append(got[i], chunk[i]))] = chunk[i]
      BY <2>2, <3>2, <3>3, <3>4, Continues
    <3>6. got'[i] = Append(got[i], chunk[i]) /\ \A j \in Sessions : j # i => got'[j] = got[j]
      BY <2>2, <3>1
    <3>7. Ordered'
      <4>1. ASSUME NEW j \in Sessions PROVE Contiguous(got'[j])
        BY <3>5, <3>6 DEF Ordered
      <4>2. QED
        BY <4>1 DEF Ordered, Contiguous
    <3>8. Latest(conn)' = next - 1
      BY <1>2, <2>1, <2>3, <3>5, <3>6 DEF Latest
    <3>9. QED
      BY <1>2, <1>5, <2>3, <3>7, <3>8 DEF ChunksInv
  <2>5. CASE ~(client[i] = "here" /\ socket[i] = "open")
    <3>1. UNCHANGED got
      BY <1>10, <2>1, <2>5 DEF ThreadSend
    <3>2. QED
      BY <1>2, <1>5, <2>3, <2>5, <3>1 DEF ChunksInv, Ordered
  <2>6. QED
    BY <2>4, <2>5
<1>11. QED
  BY <1>7, <1>8, <1>9, <1>10 DEF Thread

-----------------------------------------------------------------------------
(* The serial bridge: what a sendall that outlasts its join leaves.        *)

\* Main has closed the connections of the sessions it is done with; those up
\* to the one that was outlasted are among them.
ClosedInv ==
  /\ \A i \in Sessions :
       i < conn \/ (i = conn /\ pc \in {"join", "accept"}) => socket[i] = "closed"
  /\ outlasted # 0 => outlasted < conn \/ (outlasted = conn /\ pc = "accept")

LEMMA ClosedStep == ASSUME BridgeTypes, ClosedInv, [Next]_vars PROVE ClosedInv'
<1> USE DEF mainVars, threadVars, clientVars
<1>1. conn \in Nat /\ outlasted \in Nat /\ Sessions \subseteq Nat
  BY ParametersAssumption DEF BridgeTypes, TypeOK, Sessions
<1>2. CASE Accept
  <2>1. conn' = conn + 1 /\ pc = "accept" /\ pc' = "newStop" /\ UNCHANGED outlasted
    BY <1>2 DEF Accept
  <2>2. \A i \in Sessions : i # conn + 1 => socket'[i] = socket[i]
    BY <1>2 DEF Accept, BridgeTypes, TypeOK
  <2>3. QED
    BY <1>1, <2>1, <2>2 DEF ClosedInv
<1>3. CASE Close
  <2>1. /\ pc' = "join" /\ UNCHANGED <<conn, outlasted>> /\ pc = "close"
        /\ \A i \in Sessions : socket'[i] = IF i = conn THEN "closed" ELSE socket[i]
    BY <1>3 DEF Close, BridgeTypes, TypeOK
  <2>2. QED
    BY <1>1, <2>1 DEF ClosedInv
<1>4. CASE Join
  BY <1>1, <1>4 DEF Join, ClosedInv, BridgeTypes
<1>5. CASE NewStop \/ Start \/ Check \/ Recv \/ Write \/ Finish
  <2>1. UNCHANGED <<conn, socket, outlasted>> /\ pc # "accept" /\ pc' \notin {"join", "accept"}
    BY <1>5 DEF NewStop, Start, Check, Recv, Write, Finish
  <2>2. QED
    BY <2>1 DEF ClosedInv
<1>6. CASE UNCHANGED <<mainVars, outlasted>>
  BY <1>6 DEF ClosedInv
<1>7. CASE ~Main
  <2>1. UNCHANGED <<mainVars, outlasted>>
    BY <1>7 DEF Next, vars, Thread, ThreadCheck, ThreadRead, ThreadFetch, ThreadSend,
                ThreadLeave, ClientConnects, ClientSends, ClientLeaves, PortFails
  <2>2. QED
    BY <1>6, <2>1
<1>8. QED
  BY <1>2, <1>3, <1>4, <1>5, <1>7 DEF Main

\* Only the thread that sends appends, and only to an open connection.
LEMMA GotStep ==
  ASSUME BridgeTypes, [Next]_vars
  PROVE  \/ UNCHANGED got
         \/ \E i \in Sessions :
              /\ ThreadSend(i)
              /\ socket[target[i]] = "open"
              /\ got' = [got EXCEPT ![target[i]] = Append(@, chunk[i])]
<1> USE DEF mainVars, threadVars, clientVars
<1>1. CASE \E i \in Sessions : ThreadSend(i)
  BY <1>1 DEF ThreadSend
<1>2. CASE Main
  BY <1>2 DEF Main, Accept, NewStop, Start, Check, Recv, Write, Finish, Close, Join
<1>3. CASE ~Main /\ ~(\E i \in Sessions : ThreadSend(i))
  BY <1>3 DEF Next, vars, Thread, ThreadCheck, ThreadRead, ThreadFetch, ThreadLeave,
              ClientConnects, ClientSends, ClientLeaves, PortFails
<1>4. QED
  BY <1>1, <1>2, <1>3

\* A session that is over up to the outlasted one gets nothing more.
LEMMA OutlastedOrder ==
  ASSUME BridgeTypes, ClosedInv, BytesInOrder, [Next]_vars, outlasted # 0
  PROVE  BytesInOrder'
<1>1. UNCHANGED outlasted
  BY DEF Next, vars, Main, Accept, NewStop, Start, Check, Recv, Write, Finish, Close, Join,
         Thread, ThreadCheck, ThreadRead, ThreadFetch, ThreadSend, ThreadLeave,
         ClientConnects, ClientSends, ClientLeaves, PortFails
<1>2. ASSUME NEW i \in Sessions, i <= outlasted PROVE got'[i] = got[i]
  <2>1. socket[i] = "closed"
    BY <1>2, ParametersAssumption DEF ClosedInv, BridgeTypes, TypeOK, Sessions
  <2>2. got \in [Sessions -> Stretches]
    BY DEF BridgeTypes, TypeOK
  <2>3. QED
    BY <2>1, <2>2, GotStep
<1>3. QED
  BY <1>1, <1>2 DEF BytesInOrder, Contiguous

-----------------------------------------------------------------------------
(* The serial bridge: no chunk twice, however many threads read the port.  *)

\* The chunks in the hands of the threads and those the clients got were all
\* delivered by the port, and each is in one place.
OnceInv ==
  /\ NoneTwice
  /\ \A i \in Sessions : \A m \in 1 .. Len(got[i]) : got[i][m] < next
  /\ \A i \in Sessions : Holding(i) => chunk[i] < next
  /\ \A i, j \in Sessions : Holding(i) /\ Holding(j) /\ i # j => chunk[i] # chunk[j]
  /\ \A i, j \in Sessions : \A m \in 1 .. Len(got[i]) : Holding(j) => got[i][m] # chunk[j]

\* A step that takes no chunk and gives none away keeps OnceInv.
LEMMA OnceKept ==
  ASSUME OnceInv, UNCHANGED <<chunk, next, got>>,
         \A i \in Sessions : (Holding(i))' => Holding(i)
  PROVE  OnceInv'
BY DEF OnceInv, NoneTwice

LEMMA OnceRead ==
  ASSUME BridgeTypes, OnceInv, NEW i \in Sessions, thread[i] = "read", UNCHANGED got,
         chunk' = [chunk EXCEPT ![i] = next], next' = next + 1, Goto(i, "fetch")
  PROVE  OnceInv'
<1>1. next \in Nat /\ chunk \in [Sessions -> Nat]
  BY ParametersAssumption DEF BridgeTypes, TypeOK
<1>2. \A j \in Sessions : chunk'[j] = IF j = i THEN next ELSE chunk[j]
  BY DEF BridgeTypes, TypeOK
<1>3. \A j \in Sessions : (Holding(j))' => j = i \/ Holding(j)
  BY DEF Goto, Holding, BridgeTypes, TypeOK
<1>4. \A j \in Sessions : \A m \in 1 .. Len(got[j]) : got[j][m] \in Nat
  <2>1. ASSUME NEW j \in Sessions, NEW m \in 1 .. Len(got[j]) PROVE got[j][m] \in Nat
    <3>1. got[j] \in Seq(1 .. MaxChunks)
      BY DEF BridgeTypes, TypeOK, Stretches
    <3>2. got[j][m] \in 1 .. MaxChunks
      BY <3>1, ElementOfSeq
    <3>3. QED
      BY <3>2, ParametersAssumption
  <2>2. QED
    BY <2>1
<1>5. NoneTwice'
  BY DEF OnceInv, NoneTwice
<1>6. \A j \in Sessions : \A m \in 1 .. Len(got'[j]) : got'[j][m] < next'
  BY <1>1, <1>4 DEF OnceInv
<1>7. \A j \in Sessions : (Holding(j))' => chunk'[j] < next'
  BY <1>1, <1>2, <1>3 DEF OnceInv
<1>8. ASSUME NEW j \in Sessions, NEW k \in Sessions, (Holding(j))', (Holding(k))', j # k
      PROVE  chunk'[j] # chunk'[k]
  BY <1>1, <1>2, <1>3, <1>8 DEF OnceInv
<1>9. ASSUME NEW j \in Sessions, NEW k \in Sessions, NEW m \in 1 .. Len(got'[j]), (Holding(k))'
      PROVE  got'[j][m] # chunk'[k]
  <2>1. got'[j][m] < next /\ got'[j][m] \in Nat
    BY <1>4, <1>9 DEF OnceInv
  <2>2. CASE k = i
    BY <1>1, <1>2, <2>1, <2>2
  <2>3. CASE k # i
    BY <1>2, <1>3, <1>9, <2>3 DEF OnceInv
  <2>4. QED
    BY <2>2, <2>3
<1>10. QED
  BY <1>5, <1>6, <1>7, <1>8, <1>9 DEF OnceInv

\* The chunk that is sent goes from the thread's hands to one client.
LEMMA OnceSend ==
  ASSUME BridgeTypes, OnceInv, NEW i \in Sessions, ThreadSend(i),
         got' = [got EXCEPT ![target[i]] = Append(@, chunk[i])]
  PROVE  OnceInv'
<1> DEFINE t == target[i]
           c == chunk[i]
<1>1. t \in Sessions /\ Holding(i) /\ c \in 1 .. MaxChunks
  <2>1. thread[i] = "send" /\ Holding(i)
    BY DEF ThreadSend, Holding
  <2>2. c # 0 /\ t # 0
    BY <2>1 DEF BridgeTypes
  <2>3. c \in 0 .. MaxChunks /\ t \in 0 .. MaxSessions
    BY DEF BridgeTypes, TypeOK
  <2>4. QED
    BY <2>1, <2>2, <2>3, ParametersAssumption DEF Sessions
<1>2. UNCHANGED <<chunk, next>>
  BY DEF ThreadSend
<1>3. ~(Holding(i))' /\ \A j \in Sessions : (Holding(j))' => Holding(j) /\ j # i
  BY DEF ThreadSend, Goto, Holding, BridgeTypes, TypeOK
<1>4. got[t] \in Seq(1 .. MaxChunks)
  BY <1>1 DEF BridgeTypes, TypeOK, Stretches
<1>5. got'[t] = Append(got[t], c) /\ \A j \in Sessions : j # t => got'[j] = got[j]
  BY <1>1 DEF BridgeTypes, TypeOK
<1>6. /\ Len(got'[t]) = Len(got[t]) + 1 /\ Len(got[t]) \in Nat
      /\ \A m \in 1 .. Len(got[t]) : got'[t][m] = got[t][m]
      /\ got'[t][Len(got[t]) + 1] = c
  BY <1>1, <1>4, <1>5, AppendProperties
\* What a client has now it had before, or it is the chunk just sent.
<1>7. ASSUME NEW j \in Sessions, NEW m \in 1 .. Len(got'[j])
      PROVE  \/ m \in 1 .. Len(got[j]) /\ got'[j][m] = got[j][m]
             \/ j = t /\ m = Len(got[t]) + 1 /\ got'[j][m] = c
  BY <1>5, <1>6
<1>8. \A j \in Sessions : \A m \in 1 .. Len(got[j]) : got[j][m] # c
  BY <1>1 DEF OnceInv
<1>9. NoneTwice'
  <2>1. ASSUME NEW j \in Sessions, NEW k \in Sessions,
               NEW m \in 1 .. Len(got'[j]), NEW n \in 1 .. Len(got'[k]),
               got'[j][m] = got'[k][n]
        PROVE  j = k /\ m = n
    <3>1. CASE m \in 1 .. Len(got[j]) /\ got'[j][m] = got[j][m]
      <4>1. got'[k][n] # c
        BY <1>8, <2>1, <3>1
      <4>2. n \in 1 .. Len(got[k]) /\ got'[k][n] = got[k][n]
        BY <1>7, <2>1, <4>1
      <4>3. NoneTwice /\ got[j][m] = got[k][n]
        BY <2>1, <3>1, <4>2 DEF OnceInv
      <4>4. QED
        BY <3>1, <4>2, <4>3 DEF NoneTwice
    <3>2. CASE j = t /\ m = Len(got[t]) + 1 /\ got'[j][m] = c
      <4>1. ~(n \in 1 .. Len(got[k]) /\ got'[k][n] = got[k][n])
        BY <1>8, <2>1, <3>2
      <4>2. k = t /\ n = Len(got[t]) + 1
        BY <1>7, <2>1, <4>1
      <4>3. QED
        BY <3>2, <4>2
    <3>3. QED
      BY <1>7, <2>1, <3>1, <3>2
  <2>2. QED
    BY <2>1 DEF NoneTwice
<1>10. \A j \in Sessions : \A m \in 1 .. Len(got'[j]) : got'[j][m] < next'
  BY <1>1, <1>2, <1>7 DEF OnceInv
<1>11. ASSUME NEW j \in Sessions, NEW k \in Sessions, NEW m \in 1 .. Len(got'[j]), (Holding(k))'
       PROVE  got'[j][m] # chunk'[k]
  BY <1>1, <1>2, <1>3, <1>7, <1>11 DEF OnceInv
<1>12. QED
  BY <1>2, <1>3, <1>9, <1>10, <1>11 DEF OnceInv

LEMMA OnceStep == ASSUME BridgeTypes, OnceInv, [Next]_vars PROVE OnceInv'
<1> USE DEF mainVars, threadVars, clientVars, Goto
<1>1. CASE Main
  <2>1. UNCHANGED <<chunk, next, got>>
    BY <1>1 DEF Main, Accept, NewStop, Start, Check, Recv, Write, Finish, Close, Join
  <2>2. \A i \in Sessions : (Holding(i))' => Holding(i)
    BY <1>1 DEF Main, Accept, NewStop, Start, Check, Recv, Write, Finish, Close, Join,
                Holding, BridgeTypes, TypeOK
  <2>3. QED
    BY <2>1, <2>2, OnceKept
<1>2. ASSUME NEW i \in Sessions, ThreadCheck(i) \/ ThreadLeave(i) \/ ThreadFetch(i)
      PROVE  OnceInv'
  <2>1. UNCHANGED <<chunk, next, got>>
    BY <1>2 DEF ThreadCheck, ThreadLeave, ThreadFetch
  <2>2. \A j \in Sessions : (Holding(j))' => Holding(j)
    BY <1>2 DEF ThreadCheck, ThreadLeave, ThreadFetch, Holding, BridgeTypes, TypeOK
  <2>3. QED
    BY <2>1, <2>2, OnceKept
<1>3. ASSUME NEW i \in Sessions, ThreadRead(i) PROVE OnceInv'
  <2>1. CASE chunk' = [chunk EXCEPT ![i] = next] /\ next' = next + 1 /\ Goto(i, "fetch")
    BY <1>3, <2>1, OnceRead DEF ThreadRead
  <2>2. CASE UNCHANGED <<chunk, next>> /\ \E label \in {"check", "leave"} : Goto(i, label)
    <3>1. \A j \in Sessions : (Holding(j))' => Holding(j)
      BY <2>2 DEF Holding, BridgeTypes, TypeOK
    <3>2. UNCHANGED got
      BY <1>3 DEF ThreadRead
    <3>3. QED
      BY <2>2, <3>1, <3>2, OnceKept
  <2>3. QED
    BY <1>3, <2>1, <2>2 DEF ThreadRead
<1>4. ASSUME NEW i \in Sessions, ThreadSend(i) PROVE OnceInv'
  <2>1. CASE UNCHANGED got
    <3>1. UNCHANGED <<chunk, next>>
      BY <1>4 DEF ThreadSend
    <3>2. \A j \in Sessions : (Holding(j))' => Holding(j)
      BY <1>4 DEF ThreadSend, Holding, BridgeTypes, TypeOK
    <3>3. QED
      BY <2>1, <3>1, <3>2, OnceKept
  <2>2. CASE got' = [got EXCEPT ![target[i]] = Append(@, chunk[i])]
    BY <1>4, <2>2, OnceSend
  <2>3. QED
    BY <1>4, <2>1, <2>2 DEF ThreadSend
<1>5. ASSUME \/ \E i \in Sessions : ClientConnects(i) \/ ClientSends(i) \/ ClientLeaves(i)
             \/ PortFails \/ UNCHANGED vars
      PROVE  OnceInv'
  <2>1. UNCHANGED <<thread, chunk, next, got>>
    BY <1>5 DEF ClientConnects, ClientSends, ClientLeaves, PortFails, vars
  <2>2. QED
    BY <2>1, OnceKept DEF Holding
<1>6. QED
  BY <1>1, <1>2, <1>3, <1>4, <1>5 DEF Next, Thread

-----------------------------------------------------------------------------
(* The serial bridge: results.                                             *)

\* One session at a time until a join gives up; whatever was promised to the
\* sessions up to then is kept after it.
BridgeInv ==
  /\ BridgeTypes
  /\ ClosedInv
  /\ BytesInOrder
  /\ OnceInv
  /\ outlasted = 0 => CurrentInv /\ ReasonInv /\ ChunksInv

LEMMA AllInOrder == outlasted = 0 => (BytesInOrder <=> Ordered)
BY DEF BytesInOrder, Ordered

LEMMA InitBridge == Init => BridgeInv
<1> SUFFICES ASSUME Init PROVE BridgeInv
  OBVIOUS
<1>1. BridgeTypes
  BY BridgeTypesInit
<1>2. CurrentInv
  BY DEF Init, CurrentInv, Sessions
<1>3. ReasonInv /\ ChunksInv
  BY DEF Init, ReasonInv, ChunksInv, Holding
<1>4. BytesInOrder /\ OnceInv
  BY DEF Init, BytesInOrder, Contiguous, OnceInv, NoneTwice, Holding
<1>5. ClosedInv
  BY DEF Init, ClosedInv, Sessions
<1>6. QED
  BY <1>1, <1>2, <1>3, <1>4, <1>5 DEF BridgeInv

\* A step after which no join has given up yet.
LEMMA AloneStep ==
  ASSUME BridgeInv, [Next]_vars, outlasted = 0, outlasted' = 0
  PROVE  CurrentInv' /\ ReasonInv' /\ ChunksInv' /\ Ordered'
<1> USE DEF BridgeInv
<1>1. Ordered
  BY AllInOrder
<1>2. CASE Main
  <2>1. Ordered'
    BY <1>1, <1>2, MainChunks DEF Ordered, Contiguous
  <2>2. QED
    BY <1>2, <2>1, MainCurrent, MainReason, MainChunks
<1>3. CASE \E i \in Sessions : Thread(i)
  BY <1>1, <1>3, ThreadCurrent, ThreadReason, ThreadChunks
<1>4. ASSUME NEW i \in Sessions,
             ClientConnects(i) \/ ClientSends(i) \/ ClientLeaves(i) \/ PortFails
      PROVE  CurrentInv' /\ ReasonInv' /\ ChunksInv' /\ Ordered'
  <2>1. Ordered'
    BY <1>1, <1>4, OutsideChunks DEF Ordered, Contiguous
  <2>2. QED
    BY <1>4, <2>1, OutsideCurrent, OutsideReason, OutsideChunks
<1>5. CASE UNCHANGED vars
  <2>1. CurrentInv' /\ ReasonInv'
    BY <1>5 DEF CurrentInv, ReasonInv, Over, vars, mainVars, threadVars, clientVars
  <2>2. ChunksInv' /\ Ordered'
    BY <1>1, <1>5
       DEF ChunksInv, Holding, Latest, Ordered, Contiguous, vars, mainVars, threadVars, clientVars
  <2>3. QED
    BY <2>1, <2>2
<1>6. 1 \in Sessions
  BY ParametersAssumption DEF Sessions
<1>7. QED
  BY <1>2, <1>3, <1>4, <1>5, <1>6 DEF Next

\* The step in which the first join gives up: nobody gets anything.
LEMMA OutlastingStep ==
  ASSUME BridgeInv, [Next]_vars, outlasted = 0, outlasted' # 0
  PROVE  BytesInOrder'
<1>1. Join
  BY DEF Next, vars, Main, Accept, NewStop, Start, Check, Recv, Write, Finish, Close,
         Thread, ThreadCheck, ThreadRead, ThreadFetch, ThreadSend, ThreadLeave,
         ClientConnects, ClientSends, ClientLeaves, PortFails
<1>2. UNCHANGED got
  BY <1>1 DEF Join, clientVars
<1>3. QED
  BY <1>2, AllInOrder DEF BridgeInv, BytesInOrder, Ordered, Contiguous

LEMMA BridgeStep == BridgeInv /\ [Next]_vars => BridgeInv'
<1> SUFFICES ASSUME BridgeInv, [Next]_vars PROVE BridgeInv'
  OBVIOUS
<1>1. BridgeTypes' /\ ClosedInv' /\ OnceInv'
  BY BridgeTypesStep, ClosedStep, OnceStep DEF BridgeInv
<1>2. CASE outlasted = 0 /\ outlasted' = 0
  <2>1. CurrentInv' /\ ReasonInv' /\ ChunksInv' /\ Ordered'
    BY <1>2, AloneStep
  <2>2. BytesInOrder'
    BY <2>1 DEF BytesInOrder, Ordered, Contiguous
  <2>3. QED
    BY <1>1, <2>1, <2>2 DEF BridgeInv
<1>3. CASE outlasted = 0 /\ outlasted' # 0
  BY <1>1, <1>3, OutlastingStep DEF BridgeInv
<1>4. CASE outlasted # 0
  <2>1. outlasted' # 0
    BY <1>4 DEF Next, vars, Main, Accept, NewStop, Start, Check, Recv, Write, Finish, Close,
         Join, Thread, ThreadCheck, ThreadRead, ThreadFetch, ThreadSend, ThreadLeave,
         ClientConnects, ClientSends, ClientLeaves, PortFails
  <2>2. BytesInOrder'
    BY <1>4, OutlastedOrder DEF BridgeInv
  <2>3. QED
    BY <1>1, <2>1, <2>2 DEF BridgeInv
<1>5. QED
  BY <1>2, <1>3, <1>4

LEMMA BridgeAlways == Spec => []BridgeInv
BY InitBridge, BridgeStep, PTL DEF Spec

\* What a client receives is a contiguous stretch of what the port delivered,
\* for every client up to the one whose sendall outlasted its join.
THEOREM Transparent == Spec => []BytesInOrder
BY BridgeAlways, PTL DEF BridgeInv

\* No session is ended by another before a sendall has outlasted its join.
THEOREM NotEndedByOthers == Spec => []EndsForAReasonAlone
<1>1. BridgeInv => EndsForAReasonAlone
  BY DEF BridgeInv, BridgeTypes, ReasonInv, Over, EndsForAReason, EndsForAReasonAlone
<1>2. QED
  BY <1>1, BridgeAlways, PTL

\* No chunk reaches two clients or one of them twice, also when threads that
\* outlasted their sessions read the port beside the session in hand.
THEOREM EachChunkOnce == Spec => []NoneTwice
<1>1. BridgeInv => NoneTwice
  BY DEF BridgeInv, OnceInv
<1>2. QED
  BY <1>1, BridgeAlways, PTL

-----------------------------------------------------------------------------
(* The CoAP server: temperatures as text.                                  *)

\* Whatever the temperature, its text is either a number, and that of the
\* temperature, or of one below zero that is not whole.
LEMMA TextReadsBack ==
  ASSUME NEW t \in Int
  PROVE  IF IsNumber(Text(t)) THEN Value(Text(t)) = t ELSE t < 0 /\ t % 10 # 0
<1> DEFINE q == Quotient(t, 10)
           r == Remainder(t, 10)
<1>1. Text(t).whole = q /\ Text(t).tenth = r
  BY DEF Text
<1>2. CASE t >= 0
  <2>1. q = t \div 10 /\ r = t - 10 * q
    BY <1>2 DEF Quotient, Remainder
  <2>2. q \in Nat /\ r \in 0 .. 9
    BY <1>2, <2>1
  <2>3. QED
    BY <1>1, <2>1, <2>2 DEF IsNumber, Value
<1>3. CASE t < 0
  <2> DEFINE u == -t
             p == u \div 10
  <2>1. u \in Nat /\ p \in Nat /\ u - 10 * p \in 0 .. 9
    BY <1>3
  <2>2. q = -p /\ r = t + 10 * p
    BY <1>3 DEF Quotient, Remainder
  <2>3. CASE r >= 0
    <3>1. r = 0 /\ t = 10 * q
      BY <2>1, <2>2, <2>3
    <3>2. -r = 0
      BY <3>1
    <3>3. QED
      BY <1>1, <2>1, <2>2, <3>1, <3>2 DEF IsNumber, Value
  <2>4. CASE ~(r >= 0)
    <3>1. t % 10 # 0
      BY <2>1, <2>2, <2>4
    <3>2. QED
      BY <1>1, <1>3, <2>4, <3>1 DEF IsNumber
  <2>5. QED
    BY <2>3, <2>4
<1>4. QED
  BY <1>2, <1>3

-----------------------------------------------------------------------------
(* The CoAP server: types.                                                 *)

Commands == {"led=on", "led=off"}

Refusals == {[code |-> "2.04"], [code |-> "4.00"]}
LedAnswers == {[code |-> "2.05", led |-> l] : l \in {0, 1}}
TempAnswers == {[code |-> "2.05", text |-> Text(t), of |-> t] : t \in Temps}
Answers == {None} \cup Refusals \cup LedAnswers \cup TempAnswers

CoapTypes ==
  /\ CoapTypeOK
  /\ response \in Answers
  /\ read \in [num : Nat, led : {0, 1}]
  /\ read.num <= Len(ops)

\* Which answers have which fields.
LEMMA OnlyLedAnswers ==
  ASSUME NEW r \in Answers, "led" \in DOMAIN r
  PROVE  r.led \in {0, 1} /\ r.code = "2.05"
<1>1. CASE r \in LedAnswers
  BY <1>1 DEF LedAnswers
<1>2. CASE r \in TempAnswers
  BY <1>2 DEF TempAnswers
<1>3. CASE r = None \/ r \in Refusals
  <2>1. PICK c : r = [code |-> c]
    BY <1>3 DEF None, Refusals
  <2>2. DOMAIN r = {"code"}
    BY <2>1
  <2>3. QED
    BY <2>2
<1>4. QED
  BY <1>1, <1>2, <1>3 DEF Answers

LEMMA OnlyTempAnswers ==
  ASSUME NEW r \in Answers, "text" \in DOMAIN r
  PROVE  \E t \in Temps : r.text = Text(t) /\ r.of = t
<1>1. CASE r \in LedAnswers
  BY <1>1 DEF LedAnswers
<1>2. CASE r \in TempAnswers
  BY <1>2 DEF TempAnswers
<1>3. CASE r = None \/ r \in Refusals
  <2>1. PICK c : r = [code |-> c]
    BY <1>3 DEF None, Refusals
  <2>2. DOMAIN r = {"code"}
    BY <2>1
  <2>3. QED
    BY <2>2
<1>4. QED
  BY <1>1, <1>2, <1>3 DEF Answers

\* A copy of a request is answered or not, the last request's alone.
LEMMA Responds ==
  ASSUME NEW m, NEW answer, Respond(m, answer)
  PROVE  \/ response' = response
         \/ response' = answer /\ waiting /\ m.num = Len(ops)
BY DEF Respond

LEMMA LenOps == ASSUME CoapTypeOK PROVE Len(ops) \in Nat /\ Numbers \subseteq Nat /\ Numbers = 1 .. Len(ops)
BY LenProperties DEF CoapTypeOK, Numbers

LEMMA ArriveTypes ==
  ASSUME CoapTypes, Arrive
  PROVE  CoapTypes'
<1> USE DEF server, order, coapClient
<1>1. PICK m \in requests :
        /\ requests' \in {requests, requests \ {m}}
        /\ res_put_handler(m) \/ res_led_get_handler(m) \/ res_temp_get_handler(m)
        /\ UNCHANGED coapClient
  BY DEF Arrive
<1>2. UNCHANGED <<ops, waiting, acked, read>> /\ requests' \subseteq requests
  BY <1>1
<1>3. m.num \in Numbers /\ m.op = ops[m.num]
  BY DEF CoapTypes, CoapTypeOK
<1>4. CASE res_put_handler(m)
  <2>1. /\ led_state' \in {0, 1} /\ leds' \in BOOLEAN /\ overtaken' \in BOOLEAN
        /\ newest' \in Numbers \cup {0}
        /\ temp' = temp
    BY <1>3, <1>4 DEF res_put_handler, CoapTypes, CoapTypeOK
  <2>2. response' \in Answers
    BY <1>4, Responds DEF res_put_handler, CoapTypes, Answers, Refusals
  <2>3. QED
    BY <1>2, <2>1, <2>2 DEF CoapTypes, CoapTypeOK, Numbers
<1>5. CASE res_led_get_handler(m)
  <2>1. response' \in Answers
    BY <1>5, Responds DEF res_led_get_handler, CoapTypes, CoapTypeOK, Answers, LedAnswers
  <2>2. QED
    BY <1>2, <1>5, <2>1 DEF res_led_get_handler, CoapTypes, CoapTypeOK, Numbers
<1>6. CASE res_temp_get_handler(m)
  <2>1. temp' \in Temps
    BY <1>6 DEF res_temp_get_handler, read_temperature
  <2>2. response' \in Answers
    BY <1>6, <2>1, Responds DEF res_temp_get_handler, CoapTypes, Answers, TempAnswers
  <2>3. QED
    BY <1>2, <1>6, <2>1, <2>2 DEF res_temp_get_handler, CoapTypes, CoapTypeOK, Numbers
<1>7. QED
  BY <1>1, <1>4, <1>5, <1>6

LEMMA AppendOps ==
  ASSUME CoapTypeOK, NEW op \in Puts \cup Gets, ops' = Append(ops, op)
  PROVE  /\ ops' \in Seq(Puts \cup Gets) /\ Len(ops') = Len(ops) + 1
         /\ \A k \in Numbers : ops'[k] = ops[k]
         /\ ops'[Len(ops) + 1] = op
         /\ Numbers' = Numbers \cup {Len(ops) + 1}
<1>1. ops \in Seq(Puts \cup Gets)
  BY DEF CoapTypeOK
<1>2. /\ ops' \in Seq(Puts \cup Gets) /\ Len(ops') = Len(ops) + 1
      /\ \A k \in 1 .. Len(ops) : ops'[k] = ops[k]
      /\ ops'[Len(ops) + 1] = op
  BY <1>1, AppendProperties
<1>3. QED
  BY <1>2, LenOps DEF Numbers

LEMMA ClientTypes ==
  ASSUME CoapTypes, waiting => ops # <<>>, Client
  PROVE  CoapTypes'
<1> USE DEF server, order, coapClient
<1>1. CoapTypeOK
  BY DEF CoapTypes
<1>2. ASSUME NEW op \in Puts \cup Gets, Request(op) PROVE CoapTypes'
  <2>1. ops' = Append(ops, op)
    BY <1>2 DEF Request
  <2>2. /\ ops' \in Seq(Puts \cup Gets) /\ Len(ops') = Len(ops) + 1
        /\ \A k \in Numbers : ops'[k] = ops[k]
        /\ ops'[Len(ops) + 1] = op
        /\ Numbers' = Numbers \cup {Len(ops) + 1}
    BY <1>1, <2>1, AppendOps
  <2>3. ASSUME NEW m \in requests' PROVE m.num \in Numbers' /\ m.op = ops'[m.num]
    <3>1. CASE m \in requests
      BY <2>2, <3>1 DEF CoapTypes, CoapTypeOK
    <3>2. CASE m = [num |-> Len(ops) + 1, op |-> op]
      BY <2>2, <3>2
    <3>3. QED
      BY <1>2, <3>1, <3>2 DEF Request
  <2>4. UNCHANGED <<server, acked, read, order>> /\ response' = None /\ waiting' = TRUE
    BY <1>2 DEF Request
  <2>5. response' \in Answers
    BY <2>4 DEF Answers
  <2>6. read'.num <= Len(ops')
    BY <1>1, <2>2, <2>4, LenOps DEF CoapTypes
  <2>7. QED
    BY <2>2, <2>3, <2>4, <2>5, <2>6 DEF CoapTypes, CoapTypeOK
<1>3. CASE Retransmit
  <2>1. Len(ops) \in Numbers
    BY <1>1, <1>3, LenOps, EmptySeq DEF Retransmit, CoapTypeOK
  <2>2. ASSUME NEW m \in requests' PROVE m.num \in Numbers /\ m.op = ops[m.num]
    BY <1>1, <1>3, <2>1 DEF Retransmit, CoapTypeOK
  <2>3. UNCHANGED <<server, response, coapClient, order>>
    BY <1>3 DEF Retransmit
  <2>4. QED
    BY <2>2, <2>3 DEF CoapTypes, CoapTypeOK, Numbers
<1>4. CASE GiveUp
  BY <1>4 DEF GiveUp, CoapTypes, CoapTypeOK, Numbers, Answers
<1>5. CASE Answered
  <2>1. response # None /\ waiting' = FALSE /\ response' = None /\ UNCHANGED <<server, requests, ops, order>>
    BY <1>5 DEF Answered
  <2>2. acked' \in Numbers \cup {0}
    <3>1. Len(ops) \in Numbers \cup {0}
      BY <1>1, LenOps
    <3>2. QED
      BY <1>1, <1>5, <3>1 DEF Answered, CoapTypeOK
  <2>3. read' \in [num : Nat, led : {0, 1}] /\ read'.num <= Len(ops)
    <3>1. CASE "led" \in DOMAIN response
      <4>1. response.led \in {0, 1}
        BY <3>1, OnlyLedAnswers DEF CoapTypes
      <4>2. read' = [num |-> Len(ops), led |-> response.led]
        BY <1>5, <3>1 DEF Answered
      <4>3. QED
        BY <1>1, <4>1, <4>2, LenOps
    <3>2. CASE "led" \notin DOMAIN response
      BY <1>5, <3>2 DEF Answered, CoapTypes
    <3>3. QED
      BY <3>1, <3>2
  <2>4. QED
    BY <2>1, <2>2, <2>3 DEF CoapTypes, CoapTypeOK, Numbers, Answers
<1>6. QED
  BY <1>2, <1>3, <1>4, <1>5 DEF Client

-----------------------------------------------------------------------------
(* The CoAP server: the order of commands.                                 *)

OrderInv ==
  /\ waiting => ops # <<>>
  /\ response # None => waiting
  /\ newest # 0 => ops[newest] \in Commands
  /\ acked <= newest
  /\ response.code = "2.04" => newest = Len(ops)

\* What command k asks for; at first the LED is off.
Asked(k) == IF k # 0 /\ ops[k] = "led=on" THEN 1 ELSE 0

\* An answer on its way and one that was taken showed what the LED might be.
LedInv ==
  /\ leds = (led_state = 1)
  /\ ~overtaken =>
       /\ led_state = Asked(newest)
       /\ "led" \in DOMAIN response => response.led \in Possible(Len(ops))
       /\ read.num > acked => read.led \in Possible(read.num)

CoapInv == CoapTypes /\ OrderInv /\ LedInv

\* What the newest command asks for is possible for every later request.
LEMMA NewestPossible ==
  ASSUME CoapTypes, OrderInv, NEW n \in Nat, newest < n
  PROVE  Asked(newest) \in Possible(n)
<1>1. newest \in Nat /\ acked \in Nat /\ acked <= newest
  BY LenOps DEF CoapTypes, CoapTypeOK, OrderInv
<1>2. CASE newest = 0
  <2>1. acked = 0
    BY <1>1, <1>2
  <2>2. QED
    BY <1>2, <2>1 DEF Asked, Possible
<1>3. CASE newest # 0
  <2>1. newest \in 1 .. n - 1 /\ newest >= acked /\ ops[newest] \in {"led=on", "led=off"}
    BY <1>1, <1>3 DEF OrderInv, Commands
  <2>2. Asked(newest) = IF ops[newest] = "led=on" THEN 1 ELSE 0
    BY <1>3 DEF Asked
  <2>3. QED
    BY <2>1, <2>2 DEF Possible
<1>4. QED
  BY <1>2, <1>3

\* What is possible for a request that was made does not change.
LEMMA PossibleKept ==
  ASSUME CoapTypeOK, UNCHANGED acked, \A k \in Numbers : ops'[k] = ops[k]
  PROVE  \A n \in 0 .. Len(ops) + 1 : Possible(n)' = Possible(n)
<1> SUFFICES ASSUME NEW n \in 0 .. Len(ops) + 1 PROVE Possible(n)' = Possible(n)
  OBVIOUS
<1>1. \A k \in 1 .. n - 1 : ops'[k] = ops[k]
  BY LenOps
<1>2. QED
  BY <1>1 DEF Possible

LEMMA NoLed ==
  ASSUME NEW r \in Refusals \cup TempAnswers \cup {None}
  PROVE  "led" \notin DOMAIN r
<1>1. CASE r \in Refusals \cup {None}
  <2>1. PICK c : r = [code |-> c]
    BY <1>1 DEF None, Refusals
  <2>2. DOMAIN r = {"code"}
    BY <2>1
  <2>3. QED
    BY <2>2
<1>2. CASE r \in TempAnswers
  BY <1>2 DEF TempAnswers
<1>3. QED
  BY <1>1, <1>2

\* The handlers.
LEMMA PutInv ==
  ASSUME CoapInv, NEW m \in requests, res_put_handler(m), UNCHANGED coapClient
  PROVE  OrderInv' /\ LedInv'
<1> USE DEF server, order, coapClient
<1>1. /\ m.num \in Numbers /\ m.op = ops[m.num]
      /\ newest \in Numbers \cup {0} /\ acked \in Nat
      /\ Len(ops) \in Nat /\ Numbers = 1 .. Len(ops)
  BY LenOps DEF CoapInv, CoapTypes, CoapTypeOK
<1>2. UNCHANGED <<ops, waiting, acked, read>>
  OBVIOUS
<1>3. \A n \in 0 .. Len(ops) + 1 : Possible(n)' = Possible(n)
  BY <1>2, PossibleKept DEF CoapInv, CoapTypes
<1>4. read.num \in 0 .. Len(ops) + 1 /\ Len(ops) \in 0 .. Len(ops) + 1
  BY <1>1 DEF CoapInv, CoapTypes
<1>5. \/ response' = response
      \/ /\ response' \in Refusals /\ waiting /\ m.num = Len(ops)
         /\ response'.code = "2.04" => m.op # "other"
  BY Responds DEF res_put_handler, Refusals
<1>6. CASE m.op = "other"
  <2>1. UNCHANGED <<led_state, leds, order>>
    BY <1>6 DEF res_put_handler
  <2>2. OrderInv'
    BY <1>2, <1>5, <1>6, <2>1 DEF CoapInv, OrderInv, Commands
  <2>3. LedInv'
    BY <1>2, <1>3, <1>4, <1>5, <2>1, NoLed DEF CoapInv, LedInv, Asked
  <2>4. QED
    BY <2>2, <2>3
<1>7. CASE m.op # "other"
  <2>1. /\ m.op \in Commands
        /\ led_state' = IF m.op = "led=on" THEN 1 ELSE 0
        /\ leds' = (m.op = "led=on")
        /\ newest' = IF m.num > newest THEN m.num ELSE newest
        /\ overtaken' = (overtaken \/ m.num < newest)
    BY <1>7 DEF res_put_handler, Puts, Commands
  <2>2. newest' \in Numbers /\ newest' >= newest /\ newest' >= m.num
    BY <1>1, <2>1
  <2>3. OrderInv'
    <3>1. ops'[newest'] \in Commands
      BY <1>1, <1>2, <2>1 DEF CoapInv, OrderInv
    <3>2. response'.code = "2.04" => newest' = Len(ops')
      BY <1>1, <1>2, <1>5, <2>2 DEF CoapInv, OrderInv
    <3>3. acked' <= newest'
      BY <1>1, <1>2, <2>2 DEF CoapInv, OrderInv
    <3>4. QED
      BY <1>2, <1>5, <3>1, <3>2, <3>3 DEF CoapInv, OrderInv
  <2>4. LedInv'
    <3>1. leds' = (led_state' = 1)
      BY <2>1
    <3>2. ASSUME ~overtaken' PROVE led_state' = Asked(newest)'
      <4>1. m.num \in Nat /\ newest \in Nat /\ m.num # 0
        BY <1>1
      <4>2. ~(m.num < newest)
        BY <2>1, <3>2 DEF CoapInv, CoapTypes, CoapTypeOK
      <4>3. newest' = m.num
        BY <2>1, <4>1, <4>2
      <4>4. ops'[m.num] = m.op
        BY <1>1, <1>2
      <4>5. QED
        BY <2>1, <4>1, <4>3, <4>4 DEF Asked
    <3>3. ASSUME ~overtaken', "led" \in DOMAIN response'
          PROVE  response'.led \in Possible(Len(ops))'
      BY <1>2, <1>3, <1>4, <1>5, <2>1, <3>3, NoLed DEF CoapInv, CoapTypes, CoapTypeOK, LedInv
    <3>4. ASSUME ~overtaken', read'.num > acked' PROVE read'.led \in Possible(read.num)'
      BY <1>2, <1>3, <1>4, <2>1, <3>4 DEF CoapInv, CoapTypes, CoapTypeOK, LedInv
    <3>5. QED
      BY <3>1, <3>2, <3>3, <3>4 DEF LedInv
  <2>5. QED
    BY <2>3, <2>4
<1>8. QED
  BY <1>6, <1>7

LEMMA GetInv ==
  ASSUME CoapInv, NEW m \in requests, UNCHANGED coapClient,
         res_led_get_handler(m) \/ res_temp_get_handler(m), temp' \in Temps
  PROVE  OrderInv' /\ LedInv'
<1> USE DEF server, order, coapClient
<1>1. /\ m.num \in Numbers /\ m.op = ops[m.num]
      /\ newest \in Numbers \cup {0}
      /\ Len(ops) \in Nat /\ Numbers = 1 .. Len(ops)
  BY LenOps DEF CoapInv, CoapTypes, CoapTypeOK
<1>2. UNCHANGED <<ops, waiting, acked, read, led_state, leds, order>>
  BY DEF res_led_get_handler, res_temp_get_handler
<1>3. \A n \in 0 .. Len(ops) + 1 : Possible(n)' = Possible(n)
  BY <1>2, PossibleKept DEF CoapInv, CoapTypes
<1>4. read.num \in 0 .. Len(ops) + 1 /\ Len(ops) \in 0 .. Len(ops) + 1
  BY <1>1 DEF CoapInv, CoapTypes
<1>5. \/ response' = response
      \/ response' \in TempAnswers /\ waiting
      \/ /\ response' = [code |-> "2.05", led |-> led_state] /\ waiting
         /\ m.num = Len(ops) /\ m.op = "actuators/led"
  BY Responds DEF res_led_get_handler, res_temp_get_handler, TempAnswers
<1>6. response' = response \/ (response'.code = "2.05" /\ waiting)
  <2>1. CASE response' \in TempAnswers /\ waiting
    <3>1. PICK t \in Temps : response' = [code |-> "2.05", text |-> Text(t), of |-> t]
      BY <2>1 DEF TempAnswers
    <3>2. QED
      BY <2>1, <3>1
  <2>2. CASE response' = [code |-> "2.05", led |-> led_state] /\ waiting
    BY <2>2
  <2>3. QED
    BY <1>5, <2>1, <2>2
<1>7. OrderInv'
  BY <1>2, <1>6 DEF CoapInv, OrderInv
<1>8. ASSUME ~overtaken, "led" \in DOMAIN response'
      PROVE  response'.led \in Possible(Len(ops))
  <2>1. CASE response' = response
    BY <1>8, <2>1 DEF CoapInv, LedInv
  <2>2. CASE response' \in TempAnswers
    BY <1>8, <2>2, NoLed
  <2>3. CASE response' = [code |-> "2.05", led |-> led_state] /\ m.num = Len(ops)
             /\ m.op = "actuators/led"
    <3>1. newest < Len(ops)
      BY <1>1, <2>3 DEF CoapInv, OrderInv, Commands
    <3>2. Asked(newest) \in Possible(Len(ops))
      BY <1>1, <3>1, NewestPossible DEF CoapInv
    <3>3. QED
      BY <1>8, <2>3, <3>2 DEF CoapInv, LedInv
  <2>4. QED
    BY <1>5, <2>1, <2>2, <2>3
<1>9. LedInv'
  BY <1>2, <1>3, <1>4, <1>8 DEF CoapInv, LedInv, Asked
<1>10. QED
  BY <1>7, <1>9

\* The client.
LEMMA ClientInv ==
  ASSUME CoapInv, Client
  PROVE  OrderInv' /\ LedInv'
<1> USE DEF server, order, coapClient
<1>1. /\ newest \in Numbers \cup {0} /\ acked \in Nat
      /\ Len(ops) \in Nat /\ Numbers = 1 .. Len(ops)
  BY LenOps DEF CoapInv, CoapTypes, CoapTypeOK
<1>2. read.num \in 0 .. Len(ops) + 1 /\ Len(ops) \in 0 .. Len(ops) + 1
  BY <1>1 DEF CoapInv, CoapTypes
<1>3. None.code = "" /\ "led" \notin DOMAIN None
  BY NoLed DEF None
<1>4. ASSUME NEW op \in Puts \cup Gets, Request(op) PROVE OrderInv' /\ LedInv'
  <2>1. /\ ops' \in Seq(Puts \cup Gets) /\ Len(ops') = Len(ops) + 1
        /\ \A k \in Numbers : ops'[k] = ops[k]
    BY <1>4, AppendOps DEF Request, CoapInv, CoapTypes
  <2>2. UNCHANGED <<server, acked, read, order>> /\ response' = None
    BY <1>4 DEF Request
  <2>3. \A n \in 0 .. Len(ops) + 1 : Possible(n)' = Possible(n)
    BY <2>1, <2>2, PossibleKept DEF CoapInv, CoapTypes
  <2>4. ops' # <<>>
    BY <1>1, <2>1, EmptySeq
  <2>5. OrderInv'
    BY <1>1, <1>3, <2>1, <2>2, <2>4 DEF CoapInv, OrderInv
  <2>6. Asked(newest)' = Asked(newest)
    BY <1>1, <2>1, <2>2 DEF Asked
  <2>7. QED
    BY <1>2, <1>3, <2>2, <2>3, <2>5, <2>6 DEF CoapInv, LedInv
<1>5. CASE Retransmit
  <2>1. UNCHANGED <<server, response, coapClient, order>>
    BY <1>5 DEF Retransmit
  <2>2. QED
    BY <2>1 DEF CoapInv, OrderInv, LedInv, Asked, Possible
<1>6. CASE GiveUp
  <2>1. UNCHANGED <<server, ops, acked, read, order>> /\ ~waiting' /\ response' = None
    BY <1>6 DEF GiveUp
  <2>2. QED
    BY <1>3, <2>1 DEF CoapInv, OrderInv, LedInv, Asked, Possible
<1>7. CASE Answered
  <2>1. /\ UNCHANGED <<server, ops, order>> /\ ~waiting' /\ response' = None
        /\ acked' = IF response.code = "2.04" THEN Len(ops) ELSE acked
        /\ read' = IF "led" \in DOMAIN response
                   THEN [num |-> Len(ops), led |-> response.led] ELSE read
    BY <1>7 DEF Answered
  <2>2. OrderInv'
    <3>1. acked' <= newest'
      <4>1. CASE response.code = "2.04"
        BY <1>1, <2>1, <4>1 DEF CoapInv, OrderInv
      <4>2. CASE response.code # "2.04"
        BY <2>1, <4>2 DEF CoapInv, OrderInv
      <4>3. QED
        BY <4>1, <4>2
    <3>2. newest' # 0 => ops'[newest'] \in Commands
      BY <2>1 DEF CoapInv, OrderInv
    <3>3. response'.code # "2.04"
      BY <1>3, <2>1
    <3>4. QED
      BY <2>1, <3>1, <3>2, <3>3 DEF OrderInv
  <2>3. CASE response.code = "2.04"
    <3>1. acked' = Len(ops) /\ read'.num <= Len(ops)
      BY <1>1, <2>1, <2>3 DEF CoapInv, CoapTypes
    <3>2. read'.num \in Nat
      BY <1>1, <2>1 DEF CoapInv, CoapTypes
    <3>3. ~(read'.num > acked')
      BY <1>1, <3>1, <3>2
    <3>4. QED
      BY <1>3, <2>1, <2>2, <3>3 DEF CoapInv, LedInv, Asked
  <2>4. CASE response.code # "2.04"
    <3>1. UNCHANGED <<ops, acked>>
      BY <2>1, <2>4
    <3>2. \A n \in 0 .. Len(ops) + 1 : Possible(n)' = Possible(n)
      BY <3>1, PossibleKept DEF CoapInv, CoapTypes
    <3>3. ASSUME ~overtaken, read'.num > acked PROVE read'.led \in Possible(read'.num)
      BY <2>1, <3>3 DEF CoapInv, LedInv
    <3>4. read'.num \in 0 .. Len(ops) + 1
      BY <1>2, <2>1
    <3>5. QED
      BY <1>3, <2>1, <2>2, <3>1, <3>2, <3>3, <3>4 DEF CoapInv, LedInv, Asked
  <2>5. QED
    BY <2>3, <2>4
<1>8. QED
  BY <1>4, <1>5, <1>6, <1>7 DEF Client

-----------------------------------------------------------------------------
(* The CoAP server: results.                                               *)

LEMMA CoapInvInit == CoapInit => CoapInv
<1> SUFFICES ASSUME CoapInit PROVE CoapInv
  OBVIOUS
<1>1. Numbers = {} /\ Len(ops) = 0 /\ ops \in Seq(Puts \cup Gets)
  BY EmptySeq DEF CoapInit, Numbers
<1>2. StartTemp \in Temps
  BY CoapAssumption DEF Temps
<1>3. CoapTypes
  <2>1. CoapTypeOK
    BY <1>1, <1>2 DEF CoapInit, CoapTypeOK
  <2>2. response \in Answers
    BY DEF CoapInit, Answers
  <2>3. read \in [num : Nat, led : {0, 1}] /\ read.num <= Len(ops)
    BY <1>1 DEF CoapInit
  <2>4. QED
    BY <2>1, <2>2, <2>3 DEF CoapTypes
<1>4. "led" \notin DOMAIN response /\ response.code = ""
  BY NoLed DEF CoapInit, None
<1>5. OrderInv
  <2>1. ~waiting /\ response = None /\ newest = 0 /\ acked <= newest
    BY DEF CoapInit
  <2>2. response.code # "2.04"
    BY <1>4
  <2>3. QED
    BY <2>1, <2>2 DEF OrderInv
<1>6. LedInv
  <2>1. ~(read.num > acked)
    BY DEF CoapInit
  <2>2. leds = (led_state = 1) /\ led_state = Asked(newest)
    <3>1. leds = FALSE /\ led_state = 0 /\ newest = 0
      BY DEF CoapInit
    <3>2. Asked(newest) = 0
      BY <3>1 DEF Asked
    <3>3. ~(led_state = 1)
      BY <3>1
    <3>4. leds = (led_state = 1)
      BY <3>1, <3>3, Zenon
    <3>5. QED
      BY <3>1, <3>2, <3>4
  <2>3. QED
    BY <1>4, <2>1, <2>2 DEF LedInv
<1>7. QED
  BY <1>3, <1>5, <1>6 DEF CoapInv

LEMMA CoapInvStep == CoapInv /\ [BorderNext]_borderVars => CoapInv'
<1> SUFFICES ASSUME CoapInv, [BorderNext]_borderVars PROVE CoapInv'
  OBVIOUS
<1>1. CASE Arrive
  <2>1. CoapTypes'
    BY <1>1, ArriveTypes DEF CoapInv
  <2>2. temp' \in Temps
    BY <2>1 DEF CoapTypes, CoapTypeOK
  <2>3. QED
    BY <1>1, <2>1, <2>2, PutInv, GetInv DEF Arrive, CoapInv
<1>2. CASE Client
  <2>1. CoapTypes'
    BY <1>2, ClientTypes DEF CoapInv, OrderInv
  <2>2. QED
    BY <1>2, <2>1, ClientInv DEF CoapInv
<1>3. CASE UNCHANGED coapVars
  <2>1. UNCHANGED <<led_state, leds, temp, requests, response, ops, waiting, acked, read,
                    newest, overtaken>>
    BY <1>3 DEF coapVars, server, coapClient, order
  <2>2. CoapTypes'
    BY <2>1 DEF CoapInv, CoapTypes, CoapTypeOK, Numbers
  <2>3. OrderInv' /\ LedInv'
    BY <2>1 DEF CoapInv, OrderInv, LedInv, Asked, Possible
  <2>4. QED
    BY <2>2, <2>3 DEF CoapInv
<1>4. QED
  BY <1>1, <1>2, <1>3 DEF BorderNext, CoapNext, borderVars

LEMMA CoapAlways == BorderSpec => []CoapInv
<1>1. BorderInit => CoapInv
  BY CoapInvInit DEF BorderInit
<1>2. QED
  BY <1>1, CoapInvStep, PTL DEF BorderSpec

LEMMA SensorTypesStep == SensorTypeOK /\ [BorderNext]_borderVars => SensorTypeOK'
BY DEF BorderNext, borderVars, sensorVars, SensorNext, TimerExpires, RouteChanges,
       AddressChanges, PeriodicTimer, SensorTypeOK

\* Every variable of the motes and of the client keeps its type; the requests
\* that may still arrive are copies of requests made.
THEOREM BorderTypeCorrect == BorderSpec => [](CoapTypeOK /\ SensorTypeOK)
<1>1. CoapInv => CoapTypeOK
  BY DEF CoapInv, CoapTypes
<1>2. BorderInit => SensorTypeOK
  BY DEF BorderInit, SensorInit, SensorTypeOK
<1>3. QED
  BY <1>1, <1>2, SensorTypesStep, CoapAlways, PTL DEF BorderSpec

\* As long as no command is overtaken by a later one, the LED is what the
\* client last saw acknowledged or gave up on since, and a read shows that.
THEOREM OwnWritesRead == BorderSpec => []ReadsOwnWrites
<1>1. CoapInv => ReadsOwnWrites
  <2> SUFFICES ASSUME CoapInv, ~overtaken PROVE ReadsOwnWrites
    BY DEF ReadsOwnWrites
  <2>1. Len(ops) + 1 \in Nat /\ newest < Len(ops) + 1
    BY LenOps DEF CoapInv, CoapTypes, CoapTypeOK
  <2>2. Asked(newest) \in Possible(Len(ops) + 1)
    BY <2>1, NewestPossible DEF CoapInv
  <2>3. QED
    BY <2>2 DEF CoapInv, LedInv, ReadsOwnWrites
<1>2. QED
  BY <1>1, CoapAlways, PTL

\* Of whatever temperature, the text answered is a number that reads back as
\* it, unless the temperature is below zero and not a whole degree.
THEOREM TextsReadBack == BorderSpec => []TemperatureReadsBack
<1>1. CoapInv => TemperatureReadsBack
  <2> SUFFICES ASSUME CoapInv, "text" \in DOMAIN response
               PROVE  IF IsNumber(response.text)
                      THEN Value(response.text) = response.of
                      ELSE response.of < 0 /\ response.of % 10 # 0
    BY DEF TemperatureReadsBack
  <2>1. PICK t \in Temps : response.text = Text(t) /\ response.of = t
    BY OnlyTempAnswers DEF CoapInv, CoapTypes
  <2>2. t \in Int
    BY CoapAssumption DEF Temps
  <2>3. QED
    BY <2>1, <2>2, TextReadsBack
<1>2. QED
  BY <1>1, CoapAlways, PTL
=============================================================================
