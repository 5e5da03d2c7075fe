--------------------------- MODULE BorderNetwork ---------------------------
(***************************************************************************)
(* The two motes of practicas 5 and 6 that are reached from outside        *)
(* through the border router: the CoAP server (CoapServer) and the passive *)
(* node (SensorNode).  Their processes run on different motes and share no *)
(* variable: a step is a step of one of them.                              *)
(***************************************************************************)
EXTENDS CoapServer, SensorNode

borderVars == <<coapVars, sensorVars>>

BorderInit == CoapInit /\ SensorInit

BorderNext ==
  \/ CoapNext /\ UNCHANGED sensorVars
  \/ SensorNext /\ UNCHANGED coapVars

\* The requests of the client are its own affair; only the timer is fair.
BorderSpec == BorderInit /\ [][BorderNext]_borderVars /\ SensorFairness
=============================================================================
