------------------------- MODULE MCComponentManager -------------------------
(* A model-checking instance of ComponentManager: an arm that is always due, *)
(* a wrist, a base and two cameras at a rate that the timestep does not      *)
(* divide; commands of every mode that meet every limit, two that are        *)
(* rejected, and one for a name that does not exist.                         *)
EXTENDS ComponentManager, TLC

To(lo, hi) == [min |-> lo, max |-> hi]
Motor == [forceLimited |-> TRUE, force |-> To(-6, 6), ctrlLimited |-> TRUE, ctrl |-> To(-4, 9)]
Free  == [forceLimited |-> FALSE, force |-> To(0, 0), ctrlLimited |-> FALSE, ctrl |-> To(0, 0)]

Joint(name, period, actuator) ==
  [name |-> name, kind |-> "joint", period |-> period, bound |-> TRUE, actuator |-> actuator,
   positionLimits |-> To(-2, 2), velocityLimits |-> To(-3, 3), effortLimits |-> To(-5, 5),
   positionStiffness |-> 3, positionDamping |-> 1, velocityDamping |-> 2]
Camera(name, period) == [name |-> name, kind |-> "camera", period |-> period, bound |-> TRUE]
Base == [name |-> "base", kind |-> "mobile_base", period |-> 3, bound |-> TRUE, coefficient |-> 2,
         wheels |-> [w \in Wheels |-> [damping |-> w, actuator |-> Motor]]]

Robot == <<Joint("arm", 0, Motor), Joint("wrist", 3, Free), Base, Camera("front", 3), Camera("rear", 3)>>
Lists == {Robot, <<Camera("arm", 3), Joint("arm", 0, Motor)>>, <<Camera("front", 1)>>}

JointCommand(mode, p, v, e) ==
  [mode |-> mode, position |-> p, velocity |-> v, effort |-> e, stiffness |-> 2, damping |-> 1]
Twist(x, y, yaw) == [mode |-> "Twist", twist |-> [x |-> x, y |-> y, yaw |-> yaw]]
WheelSpeeds(mode, w) == [mode |-> mode, wheels |-> <<w, -w, 1, 0>>]

Hybrid == JointCommand("Hybrid", -9, 9, -9)
Singles == [n \in {"arm", "base"} |->
  IF n = "arm" THEN {JointCommand("Position", 9, NotFinite, 0)} ELSE {Twist(2, -1, 1)}]

Batch(n, c) == n :> c
AllBatches == {Empty, Batch("ghost", Hybrid),
               Batch("arm", Hybrid) @@ Batch("wrist", [Hybrid EXCEPT !.damping = -1]),
               Batch("arm", JointCommand("Velocity", 0, -9, 0)) @@ Batch("base", WheelSpeeds("WheelLinear", 9)),
               Batch("wrist", Hybrid) @@ Batch("base", WheelSpeeds("WheelAngular", -9)),
               Batch("wrist", JointCommand("Effort", 0, 0, 9)) @@ Batch("base", Twist(0, NotFinite, 0))}

Still  == [q |-> [n \in {"arm", "wrist"} |-> 0],
           v |-> [a \in {<<"arm", 0>>, <<"wrist", 0>>} \union ({"base"} \X Wheels) |-> 0]]
Moving == [q |-> [n \in {"arm", "wrist"} |-> -1], v |-> [a \in DOMAIN Still.v |-> 2]]
AllMotions == {Still, Moving}
=============================================================================
