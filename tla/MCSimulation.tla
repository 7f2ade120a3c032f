---------------------------- MODULE MCSimulation ----------------------------
(* Model-checking instances of Simulation: a viewer with a sensor that is   *)
(* due every second step, and a headless simulation with one that has no    *)
(* period.                                                                  *)
EXTENDS Simulation

Headless == [viewer |-> FALSE, period |-> 0]
ViewerAndHeadless == {[viewer |-> TRUE, period |-> 2], Headless}
=============================================================================
