---------------------------- MODULE SerialBridge ----------------------------
(***************************************************************************)
(* scripts/serial-tcp-bridge.py: a serial port offered to one TCP client   *)
(* at a time.                                                              *)
(*                                                                         *)
(* The main thread accepts a client, starts a thread that copies from the  *)
(* port to the client (serial_to_tcp), and itself copies from the client   *)
(* to the port.  serial_to_tcp is a closure: it has no conn and no stop of *)
(* its own, it reads the variables of main, which main binds again for the *)
(* next client.  A session is a client with its event and its thread; all  *)
(* three carry the session's number.  `outlasted' is a history variable:   *)
(* the first session whose thread was still sending when main gave up      *)
(* waiting for it.                                                         *)
(***************************************************************************)
EXTENDS Integers, Sequences

CONSTANTS
  MaxSessions,    \* bound: clients that connect
  MaxChunks,      \* bound: chunks the serial port delivers
  MaxData         \* bound: messages a client sends

ASSUME ParametersAssumption ==
  /\ MaxSessions \in Nat \ {0}
  /\ MaxChunks \in Nat
  /\ MaxData \in Nat

Sessions == 1 .. MaxSessions
Stretches == Seq(1 .. MaxChunks)

VARIABLES
  pc,         \* where the main thread is
  conn,       \* main's variable conn: a session, 0 before the first
  stop,       \* main's variable stop: a session's event
  isSet,      \* isSet[i]: session i's event is set
  socket,     \* socket[i]: the server's side, "none", "open" or "closed"
  thread,     \* thread[i]: where session i's serial_to_tcp is
  chunk,      \* chunk[i]: what that thread read last
  target,     \* target[i]: the connection it is sending on
  port,       \* the serial port works
  next,       \* number of the next chunk the port delivers
  client,     \* client[i]: "away", "here" or "gone"
  inbox,      \* inbox[i]: messages of client i main has not received
  got,        \* got[i]: the chunks client i received
  outlasted   \* the first session whose join gave up, 0 before any did

mainVars == <<pc, conn, stop, socket>>
threadVars == <<thread, chunk, target>>
clientVars == <<client, inbox, got>>
vars == <<mainVars, isSet, threadVars, port, next, clientVars, outlasted>>

TypeOK ==
  /\ pc \in {"accept", "newStop", "start", "check", "recv", "write", "finish",
             "close", "join"}
  /\ conn \in 0 .. MaxSessions
  /\ stop \in 0 .. MaxSessions
  /\ isSet \in [Sessions -> BOOLEAN]
  /\ socket \in [Sessions -> {"none", "open", "closed"}]
  /\ thread \in [Sessions -> {"none", "check", "read", "fetch", "send", "leave", "ended"}]
  /\ chunk \in [Sessions -> 0 .. MaxChunks]
  /\ target \in [Sessions -> 0 .. MaxSessions]
  /\ port \in BOOLEAN
  /\ next \in 1 .. MaxChunks + 1
  /\ client \in [Sessions -> {"away", "here", "gone"}]
  /\ inbox \in [Sessions -> 0 .. MaxData]
  /\ got \in [Sessions -> Stretches]
  /\ outlasted \in 0 .. MaxSessions

Init ==
  /\ pc = "accept"
  /\ conn = 0
  /\ stop = 0
  /\ isSet = [i \in Sessions |-> FALSE]
  /\ socket = [i \in Sessions |-> "none"]
  /\ thread = [i \in Sessions |-> "none"]
  /\ chunk = [i \in Sessions |-> 0]
  /\ target = [i \in Sessions |-> 0]
  /\ port = TRUE
  /\ next = 1
  /\ client = [i \in Sessions |-> "away"]
  /\ inbox = [i \in Sessions |-> 0]
  /\ got = [i \in Sessions |-> <<>>]
  /\ outlasted = 0

-----------------------------------------------------------------------------
(* The main thread.                                                        *)

\* conn, addr = srv.accept(): binds conn while stop is still the last one.
Accept ==
  /\ pc = "accept"
  /\ conn < MaxSessions
  /\ client[conn + 1] = "here"
  /\ conn' = conn + 1
  /\ socket' = [socket EXCEPT ![conn + 1] = "open"]
  /\ pc' = "newStop"
  /\ UNCHANGED <<stop, isSet, threadVars, port, next, clientVars, outlasted>>

\* A plausible slip: one event made before the loop serves every session.
NewStopOnce ==
  /\ pc = "newStop"
  /\ stop' = 1
  /\ pc' = "start"
  /\ UNCHANGED <<conn, socket, isSet, threadVars, port, next, clientVars, outlasted>>

\* stop = threading.Event()
NewStop ==
  /\ pc = "newStop"
  /\ stop' = conn
  /\ pc' = "start"
  /\ UNCHANGED <<conn, socket, isSet, threadVars, port, next, clientVars, outlasted>>

\* t = threading.Thread(target=serial_to_tcp); t.start()
Start ==
  /\ pc = "start"
  /\ thread' = [thread EXCEPT ![conn] = "check"]
  /\ pc' = "check"
  /\ UNCHANGED <<conn, stop, socket, isSet, chunk, target, port, next, clientVars, outlasted>>

\* while not stop.is_set()
Check ==
  /\ pc = "check"
  /\ pc' = IF isSet[stop] THEN "finish" ELSE "recv"
  /\ UNCHANGED <<conn, stop, socket, isSet, threadVars, port, next, clientVars, outlasted>>

\* A plausible slip: the end of the stream is not told from a message.
RecvIgnoresEnd ==
  /\ pc = "recv"
  /\ \/ /\ inbox[conn] > 0
        /\ inbox' = [inbox EXCEPT ![conn] = @ - 1]
        /\ pc' = "write"
     \/ /\ client[conn] = "gone"
        /\ pc' = "write"
        /\ UNCHANGED inbox
  /\ UNCHANGED <<conn, stop, socket, isSet, threadVars, port, next, client, got, outlasted>>

\* data = conn.recv(4096), which blocks: a message, the end of the stream, or
\* an OSError from a connection that was reset.
Recv ==
  /\ pc = "recv"
  /\ \/ /\ inbox[conn] > 0
        /\ inbox' = [inbox EXCEPT ![conn] = @ - 1]
        /\ pc' = "write"
     \/ /\ client[conn] = "gone"
        /\ pc' = "finish"
        /\ UNCHANGED inbox
  /\ UNCHANGED <<conn, stop, socket, isSet, threadVars, port, next, client, got, outlasted>>

\* ser.write(data), whose failure is an OSError, too.
Write ==
  /\ pc = "write"
  /\ pc' = IF port THEN "check" ELSE "finish"
  /\ UNCHANGED <<conn, stop, socket, isSet, threadVars, port, next, clientVars, outlasted>>

\* stop.set()
Finish ==
  /\ pc = "finish"
  /\ isSet' = [isSet EXCEPT ![stop] = TRUE]
  /\ pc' = "close"
  /\ UNCHANGED <<conn, stop, socket, threadVars, port, next, clientVars, outlasted>>

Close ==
  /\ pc = "close"
  /\ socket' = [socket EXCEPT ![conn] = "closed"]
  /\ pc' = "join"
  /\ UNCHANGED <<conn, stop, isSet, threadVars, port, next, clientVars, outlasted>>

\* A plausible slip: nobody waits for the thread.
JoinNothing ==
  /\ pc = "join"
  /\ pc' = "accept"
  /\ UNCHANGED <<conn, stop, socket, isSet, threadVars, port, next, clientVars, outlasted>>

\* t.join(1).  The one call of the thread that may last longer than that is
\* sendall, to a client that has stopped reading.
Join ==
  /\ pc = "join"
  /\ \/ thread[conn] = "ended" /\ UNCHANGED outlasted
     \/ /\ thread[conn] = "send"
        /\ outlasted' = IF outlasted = 0 THEN conn ELSE outlasted
  /\ pc' = "accept"
  /\ UNCHANGED <<conn, stop, socket, isSet, threadVars, port, next, clientVars>>

Main == Accept \/ NewStop \/ Start \/ Check \/ Recv \/ Write \/ Finish \/ Close \/ Join

-----------------------------------------------------------------------------
(* serial_to_tcp, the thread of session i.                                 *)

Goto(i, label) == thread' = [thread EXCEPT ![i] = label]

\* while not stop.is_set(): the event is the one main's variable names now.
ThreadCheck(i) ==
  /\ thread[i] = "check"
  /\ Goto(i, IF isSet[stop] THEN "leave" ELSE "read")
  /\ UNCHANGED <<mainVars, isSet, chunk, target, port, next, clientVars, outlasted>>

\* A plausible slip: only what is waiting is read, and data still holds the
\* last chunk when nothing is.
ThreadReadStale(i) ==
  /\ thread[i] = "read"
  /\ \/ /\ port
        /\ next <= MaxChunks
        /\ chunk' = [chunk EXCEPT ![i] = next]
        /\ next' = next + 1
        /\ Goto(i, "fetch")
     \/ /\ port
        /\ Goto(i, IF chunk[i] = 0 THEN "check" ELSE "fetch")
        /\ UNCHANGED <<chunk, next>>
     \/ /\ ~port
        /\ Goto(i, "leave")
        /\ UNCHANGED <<chunk, next>>
  /\ UNCHANGED <<mainVars, isSet, target, port, clientVars, outlasted>>

\* data = ser.read(...): a chunk, nothing before the timeout, or an exception.
ThreadRead(i) ==
  /\ thread[i] = "read"
  /\ \/ /\ port
        /\ next <= MaxChunks
        /\ chunk' = [chunk EXCEPT ![i] = next]
        /\ next' = next + 1
        /\ Goto(i, "fetch")
     \/ /\ port
        /\ Goto(i, "check")
        /\ UNCHANGED <<chunk, next>>
     \/ /\ ~port
        /\ Goto(i, "leave")
        /\ UNCHANGED <<chunk, next>>
  /\ UNCHANGED <<mainVars, isSet, target, port, clientVars, outlasted>>

\* conn.sendall(data) first reads main's variable ...
ThreadFetch(i) ==
  /\ thread[i] = "fetch"
  /\ target' = [target EXCEPT ![i] = conn]
  /\ Goto(i, "send")
  /\ UNCHANGED <<mainVars, isSet, chunk, port, next, clientVars, outlasted>>

\* ... then sends on it.  The call returns when the system has taken the
\* data, which can be long after the client left or main closed the
\* connection; without a client it succeeds or fails.
ThreadSend(i) ==
  /\ thread[i] = "send"
  /\ IF client[target[i]] = "here" /\ socket[target[i]] = "open"
     THEN /\ got' = [got EXCEPT ![target[i]] = Append(@, chunk[i])]
          /\ Goto(i, "check")
     ELSE /\ \E label \in {"check", "leave"} : Goto(i, label)
          /\ UNCHANGED got
  /\ UNCHANGED <<mainVars, isSet, chunk, target, port, next, client, inbox, outlasted>>

\* stop.set() after the loop, again on the event main's variable names now.
ThreadLeave(i) ==
  /\ thread[i] = "leave"
  /\ isSet' = [isSet EXCEPT ![stop] = TRUE]
  /\ Goto(i, "ended")
  /\ UNCHANGED <<mainVars, chunk, target, port, next, clientVars, outlasted>>

Thread(i) ==
  ThreadCheck(i) \/ ThreadRead(i) \/ ThreadFetch(i) \/ ThreadSend(i) \/ ThreadLeave(i)

-----------------------------------------------------------------------------
(* Clients and the port.                                                   *)

\* Clients come one at a time: the next one may be waiting in the backlog.
ClientConnects(i) ==
  /\ client[i] = "away"
  /\ \A j \in 1 .. i - 1 : client[j] # "away"
  /\ client' = [client EXCEPT ![i] = "here"]
  /\ UNCHANGED <<mainVars, isSet, threadVars, port, next, inbox, got, outlasted>>

ClientSends(i) ==
  /\ client[i] = "here"
  /\ inbox[i] < MaxData
  /\ inbox' = [inbox EXCEPT ![i] = @ + 1]
  /\ UNCHANGED <<mainVars, isSet, threadVars, port, next, client, got, outlasted>>

ClientLeaves(i) ==
  /\ client[i] = "here"
  /\ client' = [client EXCEPT ![i] = "gone"]
  /\ UNCHANGED <<mainVars, isSet, threadVars, port, next, inbox, got, outlasted>>

\* The adapter is unplugged.
PortFails ==
  /\ port
  /\ port' = FALSE
  /\ UNCHANGED <<mainVars, isSet, threadVars, next, clientVars, outlasted>>

Next ==
  \/ Main
  \/ \E i \in Sessions : Thread(i)
  \/ \E i \in Sessions : ClientConnects(i) \/ ClientSends(i) \/ ClientLeaves(i)
  \/ PortFails

Spec == Init /\ [][Next]_vars

\* The interpreter runs both threads; clients and the port owe nothing.
FairSpec ==
  /\ Spec
  /\ WF_vars(Main)
  /\ \A i \in Sessions : WF_vars(Thread(i))

-----------------------------------------------------------------------------

Contiguous(s) == \A j \in 1 .. Len(s) - 1 : s[j + 1] = s[j] + 1

\* The bridge is transparent: what a client receives is a contiguous stretch
\* of what the port delivered, in the port's order.  It is for every client up
\* to the one whose sendall outlasted its join: later ones share the port with
\* the thread that was left.
BytesInOrder ==
  \A i \in Sessions : outlasted = 0 \/ i <= outlasted => Contiguous(got[i])

\* Whoever reads the port, the thread of the session in hand or one that
\* outlasted its own: no chunk reaches two clients, or one of them twice.
NoneTwice ==
  \A i, j \in Sessions : \A m \in 1 .. Len(got[i]), n \in 1 .. Len(got[j]) :
    got[i][m] = got[j][n] => i = j /\ m = n

\* A session ends for a reason of its own: its client is gone or the port is.
EndsForAReason ==
  pc \in {"finish", "close"} => client[conn] = "gone" \/ ~port

\* It does, whatever the two threads and the client do in which order, as long
\* as no join has given up: main and the thread then name one event.
EndsForAReasonAlone == outlasted = 0 => EndsForAReason

\* A client that leaves is let go, even while the thread is stuck sending to
\* it: main comes back to accept the next one.
LeavingIsNoticed ==
  \A i \in Sessions :
    (conn = i /\ client[i] = "gone") ~> (pc = "accept" \/ conn # i)
=============================================================================
