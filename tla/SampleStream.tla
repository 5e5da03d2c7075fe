---------------------------- MODULE SampleStream ----------------------------
(***************************************************************************)
(* What every sensor of the laboratory promises to whoever collects its    *)
(* data: its samples are numbered 0, 1, 2, ..., and the collector sees an  *)
(* increasing subsequence of those numbers.  A sample may be lost; none is *)
(* invented or delivered after a later one.  (A sample that is delivered   *)
(* twice in a row is not told apart from one delivered once.)              *)
(*                                                                         *)
(* The firmware modules implement this specification; it models no code.   *)
(***************************************************************************)
EXTENDS Naturals

CONSTANT Sources    \* the nodes that produce samples

VARIABLES
  issued,     \* issued[s]: how many samples s has numbered so far
  expected    \* expected[s]: one more than the last sample of s delivered

vars == <<issued, expected>>

TypeOK ==
  /\ issued \in [Sources -> Nat]
  /\ expected \in [Sources -> Nat]

Init ==
  /\ issued = [s \in Sources |-> 0]
  /\ expected = [s \in Sources |-> 0]

\* s takes the next number.
Issue(s) ==
  /\ issued' = [issued EXCEPT ![s] = @ + 1]
  /\ UNCHANGED expected

\* The collector gets a sample it has not passed yet, skipping lost ones.
Deliver(s) ==
  /\ \E k \in expected[s] .. issued[s] - 1 :
       expected' = [expected EXCEPT ![s] = k + 1]
  /\ UNCHANGED issued

Next == \E s \in Sources : Issue(s) \/ Deliver(s)

Spec == Init /\ [][Next]_vars
=============================================================================
