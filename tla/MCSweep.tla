------------------------------ MODULE MCSweep ------------------------------
(* Model values for Sweep: a sweep of both sizes with both seeds, and one   *)
(* that repeats a single simulation of it.                                  *)
EXTENDS Sweep

MCAsks ==
  {[sizes |-> Sizes, seeds |-> Seeds], [sizes |-> {20}, seeds |-> {1}]}
=============================================================================
