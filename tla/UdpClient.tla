------------------------------ MODULE UdpClient ------------------------------
(***************************************************************************)
(* Practicas 4 and 9: the clients of the RPL network                       *)
(* (practicas/p4-rpl-udp/udp-client.c and                                  *)
(* practicas/p9-proyecto/nodo/nodo-sensor.c).  A client wakes up every ten *)
(* seconds and sends a numbered sample when RPL gives it a route to the    *)
(* root.  The client of practica 4 also reports its preferred parent with  *)
(* every ReportEvery-th sample: the lines "#L <id> 0|1" of a report erase  *)
(* and draw edges of the tree in Cooja.                                    *)
(*                                                                         *)
(* RPL itself is Contiki-NG: whenever the client asks, it may have any     *)
(* parent or none, and a route or not.                                     *)
(***************************************************************************)
EXTENDS Naturals

CONSTANTS
  Clients,       \* ids of the clients
  Reporters,     \* those that run udp-client.c; the others run nodo-sensor.c
  Parents,       \* ids a client may have as preferred parent
  ReportEvery,   \* samples from one report to the next: 3 in the code
  SeqMod         \* values of a uint32_t

ASSUME ClientAssumption ==
  /\ Clients \subseteq Nat \ {0}
  /\ Reporters \subseteq Clients
  /\ Parents \subseteq Nat \ {0}
  /\ ReportEvery \in Nat \ {0}
  /\ SeqMod \in Nat \ {0}

VARIABLES
  seq,
  last_parent,
  drawn          \* the edges of the client that Cooja draws

tree == <<last_parent, drawn>>
clientVars == <<seq, tree>>

ClientTypeOK ==
  /\ seq \in [Clients -> 0 .. SeqMod - 1]
  /\ last_parent \in [Clients -> Parents \cup {0}]
  /\ drawn \in [Clients -> SUBSET Parents]

ClientInit ==
  /\ seq = [n \in Clients |-> 0]
  /\ last_parent = [n \in Clients |-> 0]
  /\ drawn = [n \in Clients |-> {}]

-----------------------------------------------------------------------------

\* A plausible slip: the old edge is erased only when there is a new one.
report_parentLeavesOld(n) ==
  \E pid \in Parents \cup {0} :
    IF pid = last_parent[n]
    THEN UNCHANGED tree
    ELSE /\ drawn' = [drawn EXCEPT ![n] =
              IF pid = 0 THEN @ ELSE (@ \ {last_parent[n]}) \cup {pid}]
         /\ last_parent' = [last_parent EXCEPT ![n] = pid]

\* Erases the edge drawn before and draws the new one, when they differ; pid
\* is 0 when RPL has no preferred parent.
report_parent(n) ==
  \E pid \in Parents \cup {0} :
    IF pid = last_parent[n]
    THEN UNCHANGED tree
    ELSE /\ drawn' = [drawn EXCEPT ![n] =
                        (@ \ {last_parent[n]}) \cup ({pid} \ {0})]
         /\ last_parent' = [last_parent EXCEPT ![n] = pid]

\* udp-client.c: the sample is sent and counted; every ReportEvery-th one
\* carries a report.
SendReporting(n) ==
  /\ seq' = [seq EXCEPT ![n] = (@ + 1) % SeqMod]
  /\ IF seq'[n] % ReportEvery = 0 THEN report_parent(n) ELSE UNCHANGED tree

\* nodo-sensor.c: the sample is sent and counted.
SendPlain(n) ==
  /\ seq' = [seq EXCEPT ![n] = (@ + 1) % SeqMod]
  /\ UNCHANGED tree

Send(n) == IF n \in Reporters THEN SendReporting(n) ELSE SendPlain(n)

\* A plausible slip: the numbers start again when there is no route.
PeriodicTimerRestarts(n, reachable) ==
  IF reachable
  THEN Send(n)
  ELSE /\ seq' = [seq EXCEPT ![n] = 0]
       /\ UNCHANGED tree

\* periodic_timer expires.  Without a route the attempt is only logged.
PeriodicTimer(n, reachable) ==
  IF reachable THEN Send(n) ELSE UNCHANGED clientVars

-----------------------------------------------------------------------------

\* Cooja shows what the client believes it reported, one edge or none: the
\* reports never leave an edge of an earlier parent behind.
OneEdgeAtMost == \A n \in Clients : drawn[n] = {last_parent[n]} \ {0}
=============================================================================
