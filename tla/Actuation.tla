------------------------------ MODULE Actuation ------------------------------
(***************************************************************************)
(* From a command to mjData.ctrl: the control laws of JointComponent and   *)
(* of MobileBaseComponent, and the mecanum kinematics.                     *)
(*                                                                         *)
(* A finite double is an integer here and any other is NotFinite.  Lengths *)
(* are in wheel radii, so wheel_radius_ is 1; the clamps, signs and sums   *)
(* are the code's, its rounding is not modelled.                           *)
(***************************************************************************)
EXTENDS Integers

CONSTANT NotFinite       \* a double that is NaN or infinite
ASSUME NotFiniteAssumption == NotFinite \notin Int

Double == Int \union {NotFinite}
Finite(x) == x # NotFinite

JointControlMode == {"Position", "Velocity", "Effort", "Hybrid"}
MobileBaseControlMode == {"Twist", "WheelLinear", "WheelAngular"}

Limit == {l \in [min : Int, max : Int] : l.min <= l.max}

Clamp(l, x) == IF x < l.min THEN l.min ELSE IF x > l.max THEN l.max ELSE x

(***************************************************************************)
(* An actuator has the limits of the model that are switched on.           *)
(***************************************************************************)
Actuator == [forceLimited : BOOLEAN, force : Limit, ctrlLimited : BOOLEAN, ctrl : Limit]

ClampForceLimits(a, x) == IF a.forceLimited THEN Clamp(a.force, x) ELSE x
ClampCtrlLimits(a, x)  == IF a.ctrlLimited THEN Clamp(a.ctrl, x) ELSE x
Drive(a, effort) == ClampCtrlLimits(a, ClampForceLimits(a, effort))

WithinActuator(a, x) ==
  /\ a.forceLimited => x \in a.force.min .. a.force.max
  /\ a.ctrlLimited  => x \in a.ctrl.min .. a.ctrl.max

\* Two limits that leave a value which keeps both.
Overlap(k, l) == k.min <= l.max /\ l.min <= k.max

\* The limits that an actuator has at the same time leave it a value.
Consistent(a) == a.forceLimited /\ a.ctrlLimited => Overlap(a.force, a.ctrl)

\* Other limits leave a value with each of the actuator's.
ConsistentWith(a, l) ==
  /\ a.forceLimited => Overlap(a.force, l)
  /\ a.ctrlLimited  => Overlap(a.ctrl, l)

(***************************************************************************)
(* Joints.  c is a command, q and v are the joint's position and velocity. *)
(***************************************************************************)
JointAccepts(c) ==
  CASE c.mode = "Position" -> Finite(c.position)
    [] c.mode = "Velocity" -> Finite(c.velocity)
    [] c.mode = "Effort"   -> Finite(c.effort)
    [] c.mode = "Hybrid"   ->
         /\ Finite(c.position) /\ Finite(c.velocity) /\ Finite(c.effort)
         /\ Finite(c.stiffness) /\ Finite(c.damping)
         /\ c.stiffness >= 0 /\ c.damping >= 0

Spring(j, k, c, q) == k * (Clamp(j.positionLimits, c.position) - q)
Damper(j, d, c, v) == d * (Clamp(j.velocityLimits, c.velocity) - v)

\* The control law of each mode, before any limit on the effort.
JointEffort(j, c, q, v) ==
  CASE c.mode = "Position" -> Spring(j, j.positionStiffness, c, q) + j.positionDamping * (0 - v)
    [] c.mode = "Velocity" -> Damper(j, j.velocityDamping, c, v)
    [] c.mode = "Effort"   -> c.effort
    [] c.mode = "Hybrid"   -> c.effort + Spring(j, c.stiffness, c, q) + Damper(j, c.damping, c, v)

\* Mutant: a hybrid command is as large as its controller makes it.
HybridUnlimited(j, c, q, v) ==
  LET e == JointEffort(j, c, q, v)
  IN  Drive(j.actuator, IF c.mode = "Hybrid" THEN e ELSE Clamp(j.effortLimits, e))

JointCtrl(j, c, q, v) == Drive(j.actuator, Clamp(j.effortLimits, JointEffort(j, c, q, v)))

(***************************************************************************)
(* The mobile base: wheels are front left, front right, rear left, rear    *)
(* right; k is the rotation coefficient.                                   *)
(***************************************************************************)
Wheels == 1..4

InverseKinematics(k, twist) ==
  <<twist.x - twist.y - k * twist.yaw, twist.x + twist.y + k * twist.yaw,
    twist.x + twist.y - k * twist.yaw, twist.x - twist.y + k * twist.yaw>>

\* Four times the base's velocity, its yaw also times k.
ForwardKinematics(w) ==
  [x   |-> w[1] + w[2] + w[3] + w[4],
   y   |-> w[2] + w[3] - w[1] - w[4],
   yaw |-> w[2] + w[4] - w[1] - w[3]]

BaseAccepts(c) ==
  IF c.mode = "Twist" THEN Finite(c.twist.x) /\ Finite(c.twist.y) /\ Finite(c.twist.yaw)
                      ELSE \A w \in Wheels : Finite(c.wheels[w])

\* A linear wheel speed is the angular one in these units.
WheelAngular(b, c) == IF c.mode = "Twist" THEN InverseKinematics(b.coefficient, c.twist) ELSE c.wheels

WheelCtrl(b, w, speed, v) == Drive(b.wheels[w].actuator, b.wheels[w].damping * (speed - v))
=============================================================================
