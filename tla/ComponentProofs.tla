--------------------------- MODULE ComponentProofs ---------------------------
(***************************************************************************)
(* What holds of the components and of mjData.ctrl for every configuration *)
(* and every command, whatever the timestep and the periods; and what the  *)
(* control laws of Actuation promise, whatever the command, the state of   *)
(* the joint and the limits.                                               *)
(*                                                                         *)
(* The due times are reasoned about as multiples of their period: that the *)
(* next one is again such a multiple, later than now and no further off    *)
(* than one period, is arithmetic (NextDueIsNext).                         *)
(***************************************************************************)
EXTENDS ComponentManager, TLAPS

\* The invariants of the runs are inductive together.
IInv == ComponentsInv /\ NoDrift /\ SameRateTogether /\ CtrlWithinLimits

-----------------------------------------------------------------------------
(***************************************************************************)
(* The control laws.                                                       *)
(***************************************************************************)
\* A clamped value keeps the limit it was clamped to (clamp_limits).
LEMMA ClampWithin ==
  ASSUME NEW l \in Limit, NEW x \in Int
  PROVE  Clamp(l, x) \in l.min .. l.max
BY DEF Limit, Clamp

\* Clamping to a limit that overlaps one that is kept keeps it.
LEMMA ClampKeeps ==
  ASSUME NEW k \in Limit, NEW l \in Limit, Overlap(k, l), NEW x \in l.min .. l.max
  PROVE  Clamp(k, x) \in l.min .. l.max
BY DEF Limit, Clamp, Overlap

\* The parts of an actuator and of a limit have their types.
LEMMA ActuatorParts ==
  ASSUME NEW a \in Actuator
  PROVE  /\ a.force \in Limit /\ a.ctrl \in Limit
         /\ a.forceLimited \in BOOLEAN /\ a.ctrlLimited \in BOOLEAN
BY DEF Actuator

\* A clamped integer is an integer.
LEMMA ClampInt ==
  ASSUME NEW l \in Limit, NEW x \in Int
  PROVE  Clamp(l, x) \in Int
BY DEF Limit, Clamp

-----------------------------------------------------------------------------
\* What is written to mjData.ctrl keeps the force limits and the control range
\* of its actuator, which are applied one after the other: the second does not
\* undo the first (the last two lines of every write_*_command, and of
\* write_wheel_commands).
THEOREM DriveWithin ==
  ASSUME NEW a \in Actuator, Consistent(a), NEW x \in Int
  PROVE  WithinActuator(a, Drive(a, x))
<1> DEFINE f == ClampForceLimits(a, x)
<1>1. f \in Int /\ (a.forceLimited => f \in a.force.min .. a.force.max)
  BY ActuatorParts, ClampInt, ClampWithin DEF ClampForceLimits
<1>2. CASE a.ctrlLimited
  <2>1. Drive(a, x) = Clamp(a.ctrl, f)
    BY <1>2 DEF Drive, ClampCtrlLimits
  <2>2. Clamp(a.ctrl, f) \in a.ctrl.min .. a.ctrl.max
    BY <1>1, ActuatorParts, ClampWithin
  <2>3. a.forceLimited => Clamp(a.ctrl, f) \in a.force.min .. a.force.max
    <3>1. HAVE a.forceLimited
    <3>2. Overlap(a.ctrl, a.force)
      BY <3>1, <1>2, ActuatorParts DEF Consistent, Overlap
    <3>. QED
      BY <3>1, <3>2, <1>1, ActuatorParts, ClampKeeps
  <2>. QED
    BY <2>1, <2>2, <2>3 DEF WithinActuator
<1>3. CASE ~a.ctrlLimited
  <2>1. Drive(a, x) = f
    BY <1>3 DEF Drive, ClampCtrlLimits
  <2>. QED
    BY <2>1, <1>1, <1>3 DEF WithinActuator
<1>. QED
  BY <1>2, <1>3

\* Nor do the actuator's limits undo a limit that the effort already keeps.
LEMMA DriveKeeps ==
  ASSUME NEW a \in Actuator, NEW l \in Limit, ConsistentWith(a, l), NEW x \in l.min .. l.max
  PROVE  Drive(a, x) \in l.min .. l.max
<1>1. ClampForceLimits(a, x) \in l.min .. l.max
  BY ActuatorParts, ClampKeeps DEF ClampForceLimits, ConsistentWith
<1>. QED
  BY <1>1, ActuatorParts, ClampKeeps DEF Drive, ClampCtrlLimits, ConsistentWith

\* What is written to mjData.ctrl is a number, whatever the limits.
LEMMA DriveInt ==
  ASSUME NEW a \in Actuator, NEW x \in Int
  PROVE  Drive(a, x) \in Int
BY ActuatorParts, ClampInt DEF Drive, ClampCtrlLimits, ClampForceLimits

\* In every mode, whatever the gains, the targets and the joint's state, a joint
\* is driven within the limits of its actuator if these leave it a value, and
\* within its own effort limits if these leave one with the actuator's.
THEOREM JointWithinLimits ==
  ASSUME NEW j, NEW c, NEW q, NEW v,
         j.actuator \in Actuator, j.effortLimits \in Limit,
         JointEffort(j, c, q, v) \in Int
  PROVE  /\ JointCtrl(j, c, q, v) \in Int
         /\ Consistent(j.actuator) => WithinActuator(j.actuator, JointCtrl(j, c, q, v))
         /\ ConsistentWith(j.actuator, j.effortLimits) =>
              JointCtrl(j, c, q, v) \in j.effortLimits.min .. j.effortLimits.max
<1> DEFINE e == Clamp(j.effortLimits, JointEffort(j, c, q, v))
<1>1. e \in Int /\ e \in j.effortLimits.min .. j.effortLimits.max
  BY ClampInt, ClampWithin
<1>2. JointCtrl(j, c, q, v) = Drive(j.actuator, e)
  BY DEF JointCtrl
<1>3. Drive(j.actuator, e) \in Int
  BY <1>1, DriveInt
<1>4. Consistent(j.actuator) => WithinActuator(j.actuator, Drive(j.actuator, e))
  BY <1>1, DriveWithin
<1>5. ConsistentWith(j.actuator, j.effortLimits) =>
        Drive(j.actuator, e) \in j.effortLimits.min .. j.effortLimits.max
  BY <1>1, DriveKeeps
<1>. QED
  BY <1>2, <1>3, <1>4, <1>5

\* A twist that is turned into wheel speeds and back is the same twist, up to
\* the factors that forward() divides by: the two mecanum kinematics agree on
\* the order and the signs of the wheels.
THEOREM MecanumRoundTrip ==
  ASSUME NEW k \in Int, NEW x \in Int, NEW y \in Int, NEW yaw \in Int
  PROVE  ForwardKinematics(InverseKinematics(k, [x |-> x, y |-> y, yaw |-> yaw]))
           = [x |-> 4 * x, y |-> 4 * y, yaw |-> 4 * (k * yaw)]
<1> DEFINE r == k * yaw
           w == <<x - y - r, x + y + r, x + y - r, x - y + r>>
<1>1. InverseKinematics(k, [x |-> x, y |-> y, yaw |-> yaw]) = w
  BY DEF InverseKinematics
<1>2. r \in Int
  OBVIOUS
<1> HIDE DEF r
<1>3. /\ w[1] + w[2] + w[3] + w[4] = 4 * x
      /\ w[2] + w[3] - w[1] - w[4] = 4 * y
      /\ w[2] + w[4] - w[1] - w[3] = 4 * r
  BY <1>2
<1>4. ForwardKinematics(w) = [x |-> 4 * x, y |-> 4 * y, yaw |-> 4 * r]
  BY <1>3 DEF ForwardKinematics
<1>. QED
  BY <1>1, <1>4 DEF r

-----------------------------------------------------------------------------
(***************************************************************************)
(* The grid of due times.                                                  *)
(***************************************************************************)
\* Of the multiples of a period only 0 is nonnegative and below it.
LEMMA MultipleBelow ==
  ASSUME NEW p \in Nat \ {0}, NEW k \in Int, p * k \in 0..(p-1)
  PROVE  k = 0
<1>1. CASE k >= 1
  <2>1. p * k = p + p * (k - 1) /\ p * (k - 1) >= 0
    BY <1>1
  <2>. QED BY <2>1
<1>2. CASE k <= -1
  <2>1. p * k = p * (k + 1) - p /\ p * (k + 1) <= 0
    BY <1>2
  <2>. QED BY <2>1
<1>. QED BY <1>1, <1>2

\* A time is on the grid of a period if it is a multiple of it.
LEMMA MultipleIsOnGrid ==
  ASSUME NEW p \in Nat \ {0}, NEW k \in Int
  PROVE  (p * k) % p = 0
<1> DEFINE t == p * k
           r == t % p
           d == t \div p
<1>1. t \in Int
  OBVIOUS
<1> HIDE DEF t
<1>2. t = p * d + r /\ r \in 0..(p-1) /\ d \in Int
  BY <1>1
<1> HIDE DEF r, d
<1>3. p * (k - d) = p * k - p * d /\ p * d \in Int
  BY <1>2
<1>4. p * (k - d) = r
  BY <1>1, <1>2, <1>3 DEF t
<1>5. k - d = 0
  BY <1>4, <1>2, MultipleBelow
<1>6. r = p * 0
  BY <1>4, <1>5
<1>. QED
  BY <1>6 DEF r, t

\* A time on the grid of a period is a multiple of it.
LEMMA OnGridIsMultiple ==
  ASSUME NEW p \in Nat \ {0}, NEW t \in Int, t % p = 0
  PROVE  t = p * (t \div p) /\ t \div p \in Int
<1>1. t = p * (t \div p) + (t % p) /\ (t \div p) \in Int
  OBVIOUS
<1>. QED BY <1>1

\* The due time that poll_update moves to is on the grid if the last one was,
\* is past the time of this update, and by no more than one period.
LEMMA NextDueIsNext ==
  ASSUME NEW p \in Nat \ {0}, NEW t \in Int, NEW d \in Int, d % p = 0
  PROVE  LET e == d + p * ((t - d) \div p + 1)
         IN  e \in Int /\ e % p = 0 /\ t < e /\ e <= t + p
<1> DEFINE k == (t - d) \div p
           e == d + p * (k + 1)
<1>1. t - d = p * k + ((t - d) % p) /\ ((t - d) % p) \in 0..(p-1) /\ k \in Int
  OBVIOUS
<1> HIDE DEF k
<1>2. p * (k + 1) = p * k + p /\ p * k \in Int
  BY <1>1
<1>3. e \in Int /\ t < e /\ e <= t + p
  BY <1>1, <1>2
<1>4. PICK m \in Int : d = p * m
  BY OnGridIsMultiple
<1>5. e = p * (m + k + 1)
  BY <1>1, <1>4
<1>6. e % p = 0
  BY <1>1, <1>4, <1>5, MultipleIsOnGrid
<1>. QED
  BY <1>3, <1>6 DEF k

-----------------------------------------------------------------------------
(***************************************************************************)
(* The commands.                                                           *)
(***************************************************************************)
\* The law of an accepted joint command gives a number.
LEMMA EffortIsNumber ==
  ASSUME NEW j, IsJoint(j), ValidJoint(j), NEW c, IsJointCommand(c), JointAccepts(c),
         NEW q \in Int, NEW v \in Int
  PROVE  JointEffort(j, c, q, v) \in Int
<1>1. j.positionLimits \in Limit /\ j.velocityLimits \in Limit
  BY DEF IsJoint, ValidJoint, Limit
<1>2. j.positionStiffness \in Int /\ j.positionDamping \in Int /\ j.velocityDamping \in Int
  BY DEF IsJoint
<1>3. \A x \in Double : Finite(x) => x \in Int
  BY DEF Double, Finite
<1>4. {c.position, c.velocity, c.effort, c.stiffness, c.damping} \subseteq Double
  BY DEF IsJointCommand
<1>5. \A k, x, y \in Int : k * (x - y) \in Int /\ k * (0 - y) \in Int
  OBVIOUS
<1>6. CASE c.mode = "Position"
  <2>1. Clamp(j.positionLimits, c.position) \in Int
    BY <1>1, <1>3, <1>4, <1>6, ClampInt DEF JointAccepts
  <2>2. JointEffort(j, c, q, v) = Spring(j, j.positionStiffness, c, q) + j.positionDamping * (0 - v)
    BY <1>6 DEF JointEffort
  <2>. QED
    BY <2>1, <2>2, <1>2, <1>5 DEF Spring
<1>7. CASE c.mode = "Velocity"
  <2>1. Clamp(j.velocityLimits, c.velocity) \in Int
    BY <1>1, <1>3, <1>4, <1>7, ClampInt DEF JointAccepts
  <2>2. JointEffort(j, c, q, v) = Damper(j, j.velocityDamping, c, v)
    BY <1>7 DEF JointEffort
  <2>. QED
    BY <2>1, <2>2, <1>2, <1>5 DEF Damper
<1>8. CASE c.mode = "Effort"
  BY <1>3, <1>4, <1>8 DEF JointAccepts, JointEffort
<1>9. CASE c.mode = "Hybrid"
  <2>1. /\ Finite(c.position) /\ Finite(c.velocity) /\ Finite(c.effort)
        /\ Finite(c.stiffness) /\ Finite(c.damping)
    BY <1>9 DEF JointAccepts
  <2>2. /\ c.position \in Int /\ c.velocity \in Int /\ c.effort \in Int
        /\ c.stiffness \in Int /\ c.damping \in Int
    BY <2>1, <1>3, <1>4
  <2>3. Clamp(j.positionLimits, c.position) \in Int /\ Clamp(j.velocityLimits, c.velocity) \in Int
    BY <1>1, <2>2, ClampInt
  <2>4. Spring(j, c.stiffness, c, q) \in Int /\ Damper(j, c.damping, c, v) \in Int
    BY <2>2, <2>3, <1>5 DEF Spring, Damper
  <2>5. JointEffort(j, c, q, v) = c.effort + Spring(j, c.stiffness, c, q) + Damper(j, c.damping, c, v)
    BY <1>9 DEF JointEffort
  <2>. QED
    BY <2>2, <2>4, <2>5
<1>. QED
  BY <1>6, <1>7, <1>8, <1>9 DEF IsJointCommand, JointControlMode

\* The speeds that an accepted command asks of the wheels are numbers.
LEMMA WheelSpeedsAreNumbers ==
  ASSUME NEW b, IsMobileBase(b), NEW c, IsBaseCommand(c), BaseAccepts(c), NEW w \in Wheels
  PROVE  WheelAngular(b, c)[w] \in Int
<1>1. \A x \in Double : Finite(x) => x \in Int
  BY DEF Double, Finite
<1>2. CASE c.mode = "Twist"
  <2> DEFINE r == b.coefficient * c.twist.yaw
  <2>1. c.twist.x \in Int /\ c.twist.y \in Int /\ c.twist.yaw \in Int
    BY <1>1, <1>2 DEF BaseAccepts, IsBaseCommand
  <2>2. r \in Int
    BY <2>1 DEF IsMobileBase
  <2>3. WheelAngular(b, c) = InverseKinematics(b.coefficient, c.twist)
    BY <1>2 DEF WheelAngular
  <2> HIDE DEF r
  <2>4. WheelAngular(b, c) = <<c.twist.x - c.twist.y - r, c.twist.x + c.twist.y + r,
                               c.twist.x + c.twist.y - r, c.twist.x - c.twist.y + r>>
    BY <2>3 DEF InverseKinematics, r
  <2>. QED
    BY <2>1, <2>2, <2>4 DEF Wheels
<1>3. CASE c.mode # "Twist"
  BY <1>1, <1>3 DEF BaseAccepts, IsBaseCommand, WheelAngular
<1>. QED
  BY <1>2, <1>3

\* A command is for a mobile base or for a joint, by its mode.
LEMMA CommandOfMode ==
  ASSUME NEW c, IsCommand(c)
  PROVE  IF c.mode \in MobileBaseControlMode THEN IsBaseCommand(c) ELSE IsJointCommand(c)
BY DEF IsCommand, IsBaseCommand, IsJointCommand, MobileBaseControlMode, JointControlMode

\* Every actuator of the registered components is one joint's or one wheel's.
LEMMA ActuatorOfComponent ==
  ASSUME NEW a \in ActuatorIds(registry)
  PROVE  \/ \E n \in OfKind("joint") : a = <<n, 0>>
         \/ \E n \in OfKind("mobile_base"), w \in Wheels : a = <<n, w>>
BY DEF ActuatorIds, OfKind, Registered

\* A wheel is driven within the limits of its actuator if these leave it a value.
LEMMA WheelWithinLimits ==
  ASSUME NEW b, NEW w, NEW speed \in Int, NEW v \in Int,
         b.wheels[w].actuator \in Actuator, b.wheels[w].damping \in Int
  PROVE  /\ WheelCtrl(b, w, speed, v) \in Int
         /\ Consistent(b.wheels[w].actuator) => WithinActuator(b.wheels[w].actuator, WheelCtrl(b, w, speed, v))
<1> DEFINE e == b.wheels[w].damping * (speed - v)
<1>1. e \in Int
  OBVIOUS
<1> HIDE DEF e
<1>2. WheelCtrl(b, w, speed, v) = Drive(b.wheels[w].actuator, e)
  BY DEF WheelCtrl, e
<1>. QED
  BY <1>1, <1>2, DriveInt, DriveWithin

\* What the worker writes for a component whose command is accepted is a number
\* within the limits of the actuator.
LEMMA WriteKeepsLimits ==
  ASSUME TypeOK, RegisteredIsChecked, NEW a \in DOMAIN ctrl, a[1] \in Good
  PROVE  ActuatorCtrl(a[1], a[2]) \in Int /\ KeepsLimits(a, ActuatorCtrl(a[1], a[2]))
<1> DEFINE n == a[1]
           c == registry[n]
<1>1. n \in DOMAIN buffer /\ Accepted(n) /\ IsCommand(buffer[n])
  BY DEF Good, TypeOK
<1>2. a \in ActuatorIds(registry)
  BY DEF TypeOK
<1>3. n \in Registered => IsConfiguration(c) /\ c.name = n /\ Valid(c)
  BY ComponentManagerAssumption DEF RegisteredIsChecked
<1>4. motion \in Motions
  BY DEF TypeOK
<1>5. CASE n \in OfKind("joint") /\ a = <<n, 0>>
  <2>1. n \in Registered /\ c.kind = "joint"
    BY <1>5 DEF OfKind
  <2>2. IsJoint(c) /\ ValidJoint(c) /\ c.name = n
    BY <1>3, <2>1 DEF IsConfiguration, Valid
  <2>3. ~ForBase(n) /\ JointAccepts(buffer[n])
    BY <1>1, <2>1 DEF Accepted, OfKind
  <2>4. IsJointCommand(buffer[n])
    BY <1>1, <2>3, CommandOfMode DEF ForBase
  <2>5. motion.q[n] \in Int /\ motion.v[<<n, 0>>] \in Int
    BY <2>2, <1>4 DEF IsJoint
  <2>6. JointEffort(c, buffer[n], motion.q[n], motion.v[<<n, 0>>]) \in Int
    BY <2>2, <2>3, <2>4, <2>5, EffortIsNumber
  <2>7. c.actuator \in Actuator /\ c.effortLimits \in Limit
    BY <2>2 DEF IsJoint, ValidJoint, Limit
  <2>8. a[2] = 0 /\ ActuatorCtrl(a[1], a[2]) = JointCtrl(c, buffer[n], motion.q[n], motion.v[<<n, 0>>])
    BY <1>5 DEF ActuatorCtrl
  <2>. QED
    BY <2>6, <2>7, <2>8, JointWithinLimits DEF KeepsLimits
<1>6. CASE n \in OfKind("mobile_base") /\ \E w \in Wheels : a = <<n, w>>
  <2>1. n \in Registered /\ c.kind = "mobile_base"
    BY <1>6 DEF OfKind
  <2>2. PICK w \in Wheels : a = <<n, w>>
    BY <1>6
  <2>3. IsMobileBase(c) /\ c.name = n
    BY <1>3, <2>1 DEF IsConfiguration
  <2>4. ForBase(n) /\ BaseAccepts(buffer[n])
    BY <1>1, <2>1 DEF Accepted, OfKind
  <2>5. IsBaseCommand(buffer[n])
    BY <1>1, <2>4, CommandOfMode DEF ForBase
  <2>6. motion.v[<<n, w>>] \in Int
    BY <2>3, <1>4 DEF IsMobileBase
  <2>7. WheelAngular(c, buffer[n])[w] \in Int
    BY <2>3, <2>4, <2>5, WheelSpeedsAreNumbers
  <2>8. c.wheels[w].actuator \in Actuator /\ c.wheels[w].damping \in Int
    BY <2>3 DEF IsMobileBase
  <2>9. a[2] = w /\ w # 0
    BY <2>2 DEF Wheels
  <2>10. ActuatorCtrl(a[1], a[2]) = WheelCtrl(c, w, WheelAngular(c, buffer[n])[w], motion.v[<<n, w>>])
    BY <2>9 DEF ActuatorCtrl
  <2>. QED
    BY <2>6, <2>7, <2>8, <2>9, <2>10, WheelWithinLimits DEF KeepsLimits
<1>. QED
  BY <1>2, <1>5, <1>6, ActuatorOfComponent

-----------------------------------------------------------------------------
(***************************************************************************)
(* The actions keep the invariant.                                         *)
(***************************************************************************)
\* Without components there is nothing to violate (shutdown, a failed initialize).
LEMMA ClearedKeeps ==
  ASSUME IInv, Cleared, UNCHANGED simulationVars
  PROVE  IInv'
<1>1. /\ registry' = Empty /\ nextTime' = Empty /\ sample' = Empty /\ published' = Empty
      /\ buffer' = Empty /\ ctrl' = Empty /\ phase' = "none"
  BY DEF Cleared, StatesCleared
<1>2. DOMAIN Empty = {}
  BY DEF Empty
<1>3. ActuatorIds(registry)' = {}
  BY <1>1, <1>2 DEF ActuatorIds
<1>4. Registered' = {}
  BY <1>1, <1>2 DEF Registered
<1>5. TypeOK'
  BY <1>1, <1>2, <1>3, <1>4 DEF TypeOK, IInv, ComponentsInv, simulationVars, Times
<1>6. (RegisteredIsChecked /\ AllPresent /\ DueTogether /\ time <= latest)'
  BY <1>1, <1>2, <1>4 DEF RegisteredIsChecked, AllPresent, DueTogether, IInv, ComponentsInv, simulationVars
<1>7. (NoDrift /\ SameRateTogether /\ CtrlWithinLimits)'
  BY <1>1, <1>2, <1>4 DEF NoDrift, SameRateTogether, CtrlWithinLimits
<1>. QED
  BY <1>5, <1>6, <1>7 DEF IInv, ComponentsInv

\* The registry that initialize() makes holds what was configured.
LEMMA InitializeKeeps ==
  ASSUME IInv, NEW list \in ConfigLists, Initialize(list)
  PROVE  IInv'
<1> DEFINE names == {list[i].name : i \in DOMAIN list}
           chosen(n) == CHOOSE c \in {list[i] : i \in DOMAIN list} : c.name = n
<1>1. registry' = [n \in names |-> chosen(n)]
  BY DEF Initialize
<1>2. Registered' = names
  BY <1>1 DEF Registered
<1>3. ASSUME NEW n \in names
      PROVE  /\ registry'[n] \in Configurations /\ registry'[n].name = n
             /\ Valid(registry'[n]) /\ registry'[n].period \in Nat
  <2>1. PICK i \in DOMAIN list : list[i].name = n
    OBVIOUS
  <2>2. chosen(n) \in {list[j] : j \in DOMAIN list} /\ chosen(n).name = n
    BY <2>1
  <2>3. PICK j \in DOMAIN list : chosen(n) = list[j]
    BY <2>2
  <2>4. registry'[n] = list[j] /\ registry'[n].name = n
    BY <1>1, <2>2, <2>3
  <2>5. Valid(list[j])
    BY DEF Initialize, Registers
  <2>6. list[j] \in Configurations
    BY DEF Configurations
  <2>. QED
    BY <2>4, <2>5, <2>6, ComponentManagerAssumption DEF IsConfiguration
<1> HIDE DEF names, chosen
<1>4. /\ nextTime' = [n \in names |-> 0] /\ sample' = [n \in names |-> FirstSample(registry'[n])]
      /\ published' = Empty /\ buffer' = Empty /\ time' = 0 /\ latest' = 0 /\ motion' = Home
      /\ ctrl' = [a \in ActuatorIds(registry') |-> 0] /\ phase' = "first"
  BY <1>1 DEF Initialize, FirstDue, StatesCleared
<1>5. DOMAIN Empty = {}
  BY DEF Empty
<1>6. 0 \in Times
  BY ComponentManagerAssumption DEF Times
<1>7. TypeOK'
  <2>1. \A n \in names : sample'[n] \in Times \union {None}
    BY <1>4, <1>6 DEF FirstSample
  <2>2. \A n \in names : nextTime'[n] \in Nat
    BY <1>4
  <2>3. DOMAIN nextTime' = names /\ DOMAIN sample' = names /\ DOMAIN published' = {} /\ DOMAIN buffer' = {}
    BY <1>4, <1>5
  <2>4. DOMAIN ctrl' = ActuatorIds(registry') /\ \A a \in DOMAIN ctrl' : ctrl'[a] \in Int
    BY <1>4
  <2>5. motion' \in Motions /\ time' \in Times /\ latest' \in Times
    BY <1>4, <1>6, ComponentManagerAssumption
  <2>6. (DOMAIN ctrl = ActuatorIds(registry))'
    BY <2>4 DEF ActuatorIds
  <2>. QED
    BY <1>2, <1>4, <2>1, <2>2, <2>3, <2>4, <2>5, <2>6 DEF TypeOK, Times
<1>8. RegisteredIsChecked'
  BY <1>2, <1>3 DEF RegisteredIsChecked, Configurations, Valid, ValidSchedule, ValidJoint, ValidBase
<1>9. (AllPresent /\ DueTogether /\ time <= latest)'
  BY <1>2, <1>4, <1>5 DEF AllPresent, DueTogether
<1>10. NoDrift'
  <2>1. \A p \in Nat \ {0} : 0 % p = 0
    OBVIOUS
  <2>. QED
    BY <1>2, <1>3, <1>4, <2>1 DEF NoDrift
<1>11. (SameRateTogether /\ CtrlWithinLimits)'
  BY <1>4, <1>5 DEF SameRateTogether, CtrlWithinLimits
<1>. QED
  BY <1>7, <1>8, <1>9, <1>10, <1>11 DEF IInv, ComponentsInv

\* Callers write commands of the message types, in any phase of the worker.
LEMMA BufferKeeps ==
  ASSUME IInv,
         \/ \E n \in DOMAIN Commands : \E c \in Commands[n] : WriteOne(n, c)
         \/ \E batch \in Batches : WriteBatch(batch)
  PROVE  IInv'
<1> DEFINE same == UNCHANGED <<phase, componentVars, simulationVars, ctrl>>
<1>1. same /\ \A n \in DOMAIN buffer' : IsCommand(buffer'[n])
  <2>1. CASE \E n \in DOMAIN Commands : \E c \in Commands[n] : WriteOne(n, c)
    <3> PICK n \in DOMAIN Commands : \E c \in Commands[n] : WriteOne(n, c)
      BY <2>1
    <3>1. PICK c \in Commands[n] : WriteOne(n, c)
      OBVIOUS
    <3>2. buffer' = [m \in DOMAIN buffer \union {n} |-> IF m = n THEN c ELSE buffer[m]] /\ IsCommand(c)
      BY <3>1, ComponentManagerAssumption DEF WriteOne
    <3>3. \A m \in DOMAIN buffer' : IF m = n THEN buffer'[m] = c ELSE m \in DOMAIN buffer /\ buffer'[m] = buffer[m]
      BY <3>2
    <3>. QED
      BY <3>1, <3>2, <3>3 DEF WriteOne, IInv, ComponentsInv, TypeOK
  <2>2. CASE \E batch \in Batches : WriteBatch(batch)
    BY <2>2, ComponentManagerAssumption DEF WriteBatch
  <2>. QED
    BY <2>1, <2>2
<1> USE DEF simulationVars, componentVars
<1>2. TypeOK'
  BY <1>1 DEF TypeOK, IInv, ComponentsInv, Registered, ActuatorIds, Times
<1>3. (RegisteredIsChecked /\ AllPresent /\ DueTogether /\ time <= latest)'
  BY <1>1 DEF RegisteredIsChecked, AllPresent, DueTogether, IInv, ComponentsInv, Registered
<1>4. (NoDrift /\ SameRateTogether /\ CtrlWithinLimits)'
  BY <1>1 DEF NoDrift, SameRateTogether, CtrlWithinLimits, KeepsLimits, IInv, Registered
<1>. QED
  BY <1>2, <1>3, <1>4 DEF IInv, ComponentsInv

\* The worker writes some or all of the good commands.
LEMMA WriteCommandsKeeps ==
  ASSUME IInv, WriteCommands \/ WriteCommandsFails
  PROVE  IInv'
<1> USE DEF simulationVars, componentVars
<1>1. PICK done \in SUBSET Good : ctrl' = Written(done)
  BY DEF WriteCommands, WriteCommandsFails
<1>2. /\ UNCHANGED <<componentVars, buffer, simulationVars>>
      /\ phase = "write" /\ phase' \in {"write", "step"}
  BY DEF WriteCommands, WriteCommandsFails
<1>3. DOMAIN ctrl' = DOMAIN ctrl
  BY <1>1 DEF Written
<1>4. ASSUME NEW a \in DOMAIN ctrl
      PROVE  ctrl'[a] \in Int /\ (ctrl'[a] = 0 \/ KeepsLimits(a, ctrl'[a]))
  <2>1. ctrl'[a] = IF a[1] \in done THEN ActuatorCtrl(a[1], a[2]) ELSE ctrl[a]
    BY <1>1 DEF Written
  <2>. QED
    BY <2>1, WriteKeepsLimits DEF IInv, ComponentsInv, TypeOK, CtrlWithinLimits
<1>5. TypeOK'
  BY <1>2, <1>3, <1>4 DEF TypeOK, IInv, ComponentsInv, Registered, ActuatorIds, Times
<1>6. (RegisteredIsChecked /\ AllPresent /\ DueTogether /\ time <= latest)'
  BY <1>2 DEF RegisteredIsChecked, AllPresent, DueTogether, IInv, ComponentsInv, Registered
<1>7. (NoDrift /\ SameRateTogether)'
  BY <1>2 DEF NoDrift, SameRateTogether, IInv, Registered
<1>8. CtrlWithinLimits'
  BY <1>2, <1>3, <1>4 DEF CtrlWithinLimits, KeepsLimits
<1>. QED
  BY <1>5, <1>6, <1>7, <1>8 DEF IInv, ComponentsInv

\* The physics moves the time on, a reset takes it back; nothing becomes due
\* that is not polled before the next commands are written.
LEMMA PhysicsKeeps ==
  ASSUME IInv, StepPhysics \/ Reset
  PROVE  IInv'
<1> USE DEF simulationVars, componentVars
<1>1. /\ UNCHANGED <<componentVars, buffer>> /\ motion' \in Motions
      /\ time' \in Times /\ latest' \in Times /\ time' <= latest' /\ latest <= latest'
  BY ComponentManagerAssumption DEF StepPhysics, Reset, Times, IInv, ComponentsInv, TypeOK
<1>2. \/ phase = "step" /\ phase' = "update" /\ ctrl' = ctrl
      \/ /\ phase \notin {"none", "first"} /\ phase' = phase
         /\ time' = 0 /\ ctrl' = [a \in DOMAIN ctrl |-> 0]
  BY DEF StepPhysics, Reset
<1>3. DOMAIN ctrl' = DOMAIN ctrl /\ \A a \in DOMAIN ctrl : ctrl'[a] = ctrl[a] \/ ctrl'[a] = 0
  BY <1>2
<1>4. TypeOK'
  BY <1>1, <1>2, <1>3 DEF TypeOK, IInv, ComponentsInv, Registered, ActuatorIds, Times
<1>5. (RegisteredIsChecked /\ AllPresent /\ DueTogether /\ time <= latest)'
  BY <1>1, <1>2 DEF RegisteredIsChecked, AllPresent, DueTogether, IInv, ComponentsInv, Registered
<1>6. NoDrift'
  <2> SUFFICES ASSUME NEW n \in Registered, registry[n].period > 0
               PROVE  /\ nextTime[n] % registry[n].period = 0
                      /\ nextTime[n] <= latest' + registry[n].period
                      /\ phase' \in {"write", "step"} => time' < nextTime[n]
    BY <1>1 DEF NoDrift, Registered
  <2>1. registry[n].period \in Nat /\ nextTime[n] \in Nat /\ latest \in Nat /\ latest' \in Nat /\ time \in Nat
    BY <1>1, ComponentManagerAssumption
       DEF IInv, ComponentsInv, RegisteredIsChecked, TypeOK, Times, IsConfiguration
  <2>. QED
    BY <1>1, <1>2, <2>1 DEF NoDrift, IInv
<1>7. (SameRateTogether /\ CtrlWithinLimits)'
  BY <1>1, <1>3 DEF SameRateTogether, CtrlWithinLimits, KeepsLimits, IInv
<1>. QED
  BY <1>4, <1>5, <1>6, <1>7 DEF IInv, ComponentsInv

\* What polling leaves: every component is next due on its grid, after the time
\* of this update, at most one period on, and together with those of its rate.
LEMMA PollAdvances ==
  ASSUME IInv, InUpdate, NEW done, nextTime' = Advanced(done)
  PROVE  /\ DOMAIN nextTime' = Registered
         /\ \A n \in Registered :
              /\ nextTime'[n] \in Nat
              /\ registry[n].period > 0 =>
                   /\ nextTime'[n] % registry[n].period = 0
                   /\ nextTime'[n] <= latest + registry[n].period
                   /\ time < nextTime'[n]
         /\ \A m, n \in Registered :
              registry[m].period = registry[n].period => nextTime'[m] = nextTime'[n]
<1>1. \A n \in Registered :
        nextTime'[n] = IF n \in Due /\ registry[n].period > 0 THEN NextDue(n) ELSE nextTime[n]
  BY DEF Advanced, Polled
<1>2. \A n \in Registered : registry[n].period \in Nat /\ nextTime[n] \in Nat
  BY ComponentManagerAssumption
     DEF IInv, ComponentsInv, RegisteredIsChecked, TypeOK, IsConfiguration
<1>3. time \in Nat /\ latest \in Nat /\ time <= latest
  BY ComponentManagerAssumption DEF IInv, ComponentsInv, TypeOK, Times
<1>4. ASSUME NEW n \in Registered
      PROVE  /\ nextTime'[n] \in Nat
             /\ registry[n].period > 0 =>
                  /\ nextTime'[n] % registry[n].period = 0
                  /\ nextTime'[n] <= latest + registry[n].period
                  /\ time < nextTime'[n]
  <2>1. CASE registry[n].period = 0
    BY <1>1, <1>2, <2>1
  <2>2. CASE registry[n].period > 0 /\ n \in Due
    <3> DEFINE p == registry[n].period
               e == nextTime[n] + p * ((time - nextTime[n]) \div p + 1)
    <3>1. p \in Nat \ {0} /\ nextTime[n] \in Int /\ time \in Int /\ nextTime[n] % p = 0
      BY <1>2, <1>3, <2>2 DEF NoDrift, IInv
    <3>2. nextTime'[n] = e
      BY <1>1, <2>2 DEF NextDue
    <3> HIDE DEF p
    <3>3. e \in Int /\ e % p = 0 /\ time < e /\ e <= time + p
      BY <3>1, NextDueIsNext
    <3> HIDE DEF e
    <3>4. e \in Nat /\ e <= latest + p
      BY <1>3, <3>1, <3>3
    <3>. QED
      BY <3>2, <3>3, <3>4 DEF p
  <2>3. CASE registry[n].period > 0 /\ n \notin Due
    <3>1. time < nextTime[n]
      BY <1>2, <1>3, <2>3 DEF Due, IsDue
    <3>. QED
      BY <1>1, <1>2, <2>3, <3>1 DEF NoDrift, IInv
  <2>. QED
    BY <1>2, <2>1, <2>2, <2>3
<1>5. ASSUME NEW m \in Registered, NEW n \in Registered, registry[m].period = registry[n].period
      PROVE  nextTime'[m] = nextTime'[n]
  <2>1. nextTime[m] = nextTime[n]
    BY <1>5 DEF IInv, ComponentsInv, DueTogether
  <2>2. m \in Due <=> n \in Due
    BY <1>5, <2>1 DEF Due, IsDue
  <2>. QED
    BY <1>1, <1>5, <2>1, <2>2 DEF NextDue
<1>. QED
  BY <1>4, <1>5 DEF Advanced

\* A component's sample is of the time of an update.
LEMMA SamplesKeepTypes ==
  ASSUME TypeOK, NEW done, sample' = Sampled(done)
  PROVE  /\ DOMAIN sample' = Registered
         /\ \A n \in Registered : sample'[n] \in Times \union {None}
BY DEF Sampled, TypeOK

\* An update in which every due component succeeds publishes them all.
LEMMA UpdateKeeps ==
  ASSUME IInv, Update
  PROVE  IInv'
<1> USE DEF simulationVars, componentVars
<1>1. /\ InUpdate /\ nextTime' = Advanced(Due) /\ sample' = Sampled(Due)
      /\ published' = [n \in Due \union DOMAIN published |-> IF n \in Due THEN sample'[n] ELSE published[n]]
      /\ phase' = "write" /\ UNCHANGED <<registry, buffer, simulationVars, ctrl>>
  BY DEF Update
<1>2. Registered' = Registered
  BY <1>1 DEF Registered
<1>3. DOMAIN published' = Due \union DOMAIN published
  BY <1>1
<1>4. \A n \in DOMAIN published' :
        IF n \in Due THEN published'[n] = time ELSE n \in DOMAIN published /\ published'[n] = published[n]
  <2>1. \A n \in Due : sample'[n] = time
    BY <1>1 DEF Sampled, Due
  <2>. QED
    BY <1>1, <2>1
<1>5. DOMAIN published' = Registered
  <2>1. CASE phase = "first"
    BY <1>3, <2>1, ComponentManagerAssumption
       DEF IInv, ComponentsInv, DueTogether, AllPresent, Due, IsDue, TypeOK, Times
  <2>2. CASE phase = "update"
    BY <1>3, <2>2 DEF IInv, ComponentsInv, AllPresent, Due
  <2>. QED
    BY <1>1, <2>1, <2>2 DEF InUpdate
<1>6. TypeOK'
  <2>1. \A n \in DOMAIN published' : published'[n] \in Times
    BY <1>4 DEF IInv, ComponentsInv, TypeOK
  <2>2. \A n \in Registered : nextTime'[n] \in Nat
    BY <1>1, PollAdvances
  <2>3. DOMAIN nextTime' = Registered
    BY <1>1, PollAdvances
  <2>4. TypeOK
    BY DEF IInv, ComponentsInv
  <2>5. DOMAIN sample' = Registered /\ \A n \in Registered : sample'[n] \in Times \union {None}
    BY <1>1, <2>4, SamplesKeepTypes
  <2>6. /\ Registered' = Registered /\ DOMAIN published' = Registered /\ phase' = "write"
        /\ UNCHANGED <<buffer, time, latest, motion, ctrl>> /\ ActuatorIds(registry)' = ActuatorIds(registry)
    BY <1>1, <1>2, <1>5 DEF ActuatorIds
  <2>. QED
    BY <2>1, <2>2, <2>3, <2>4, <2>5, <2>6 DEF TypeOK, Times
<1>7. (RegisteredIsChecked /\ AllPresent /\ time <= latest)'
  BY <1>1, <1>2, <1>5 DEF RegisteredIsChecked, AllPresent, IInv, ComponentsInv
<1>8. DueTogether'
  BY <1>1, <1>2, PollAdvances DEF DueTogether
<1>9. NoDrift'
  BY <1>1, <1>2, PollAdvances DEF NoDrift
<1>10. SameRateTogether'
  <2> SUFFICES ASSUME NEW m \in Registered, NEW n \in Registered, registry[m].period = registry[n].period
               PROVE  published'[m] = published'[n]
    BY <1>1, <1>5 DEF SameRateTogether
  <2>1. m \in Due <=> n \in Due
    BY DEF IInv, ComponentsInv, DueTogether, Due, IsDue
  <2>. QED
    BY <1>4, <1>5, <2>1 DEF SameRateTogether, IInv
<1>11. CtrlWithinLimits'
  BY <1>1 DEF CtrlWithinLimits, KeepsLimits, IInv
<1>. QED
  BY <1>6, <1>7, <1>8, <1>9, <1>10, <1>11 DEF IInv, ComponentsInv

\* An update that fails publishes nothing, but what was polled was polled.
LEMMA UpdateFailsKeeps ==
  ASSUME IInv, UpdateFails
  PROVE  IInv'
<1> USE DEF simulationVars, componentVars
<1>1. CASE phase = "first"
  BY <1>1, ClearedKeeps DEF UpdateFails
<1>2. CASE phase # "first"
  <2>1. PICK done : /\ nextTime' = Advanced(done) /\ sample' = Sampled(done)
                    /\ phase' = "write" /\ phase = "update"
                    /\ UNCHANGED <<registry, published, buffer, ctrl, simulationVars>>
    BY <1>2 DEF UpdateFails, InUpdate
  <2>2. Registered' = Registered
    BY <2>1 DEF Registered
  <2>3. InUpdate
    BY <2>1 DEF InUpdate
  <2>4. TypeOK'
    <3>1. (\A n \in Registered : nextTime'[n] \in Nat) /\ DOMAIN nextTime' = Registered
      BY <2>1, <2>3, PollAdvances
    <3>2. TypeOK
      BY DEF IInv, ComponentsInv
    <3>. QED
      BY <2>1, <2>2, <3>1, <3>2, SamplesKeepTypes DEF TypeOK, ActuatorIds, Times
  <2>5. (RegisteredIsChecked /\ AllPresent /\ time <= latest)'
    BY <2>1, <2>2 DEF RegisteredIsChecked, AllPresent, IInv, ComponentsInv
  <2>6. DueTogether'
    BY <2>1, <2>2, <2>3, PollAdvances DEF DueTogether
  <2>7. NoDrift'
    BY <2>1, <2>2, <2>3, PollAdvances DEF NoDrift
  <2>8. (SameRateTogether /\ CtrlWithinLimits)'
    BY <2>1 DEF SameRateTogether, CtrlWithinLimits, KeepsLimits, IInv
  <2>. QED
    BY <2>4, <2>5, <2>6, <2>7, <2>8 DEF IInv, ComponentsInv
<1>. QED
  BY <1>1, <1>2

-----------------------------------------------------------------------------
\* A simulation without components keeps the invariant.
LEMMA InitKeeps == Init => IInv
<1> SUFFICES ASSUME Init PROVE IInv
  OBVIOUS
<1>1. DOMAIN Empty = {}
  BY DEF Empty
<1>2. /\ Registered = {} /\ ActuatorIds(registry) = {} /\ DOMAIN nextTime = {} /\ DOMAIN sample = {}
      /\ DOMAIN published = {} /\ DOMAIN buffer = {} /\ DOMAIN ctrl = {}
      /\ phase = "none" /\ time = 0 /\ latest = 0 /\ motion = Home
  BY <1>1 DEF Init, Registered, ActuatorIds
<1>. QED
  BY <1>2, ComponentManagerAssumption
     DEF IInv, ComponentsInv, TypeOK, Times, RegisteredIsChecked, AllPresent, DueTogether,
         NoDrift, SameRateTogether, CtrlWithinLimits

\* Every step, and a step of something else, keeps the invariant.
LEMMA StepKeeps == IInv /\ [Next]_vars => IInv'
<1> SUFFICES ASSUME IInv, [Next]_vars PROVE IInv'
  OBVIOUS
<1>1. CASE Next
  <2>1. ASSUME NEW list \in ConfigLists, Initialize(list) \/ InitializeFails(list) PROVE IInv'
    BY <2>1, InitializeKeeps, ClearedKeeps DEF InitializeFails
  <2>2. CASE Shutdown
    BY <2>2, ClearedKeeps DEF Shutdown
  <2>. QED
    BY <1>1, <2>1, <2>2, BufferKeeps, WriteCommandsKeeps, PhysicsKeeps, UpdateKeeps, UpdateFailsKeeps DEF Next
<1>2. CASE UNCHANGED vars
  <2> USE <1>2 DEF vars, simulationVars, componentVars
  <2>1. TypeOK'
    BY DEF TypeOK, IInv, ComponentsInv, Registered, ActuatorIds, Times
  <2>2. (RegisteredIsChecked /\ AllPresent /\ DueTogether /\ time <= latest)'
    BY DEF RegisteredIsChecked, AllPresent, DueTogether, IInv, ComponentsInv, Registered
  <2>3. (NoDrift /\ SameRateTogether /\ CtrlWithinLimits)'
    BY DEF NoDrift, SameRateTogether, CtrlWithinLimits, KeepsLimits, IInv, Registered
  <2>. QED
    BY <2>1, <2>2, <2>3 DEF IInv, ComponentsInv
<1>. QED
  BY <1>1, <1>2

\* The invariant holds in every reachable state.
THEOREM Invariance == Spec => []IInv
BY InitKeeps, StepKeeps, PTL DEF Spec

\* The registry, the due times and the published maps belong together: what is
\* registered passed init(), and after initialize() is in every snapshot.
THEOREM ComponentsAreSound == Spec => []ComponentsInv
BY Invariance, PTL DEF IInv

\* The data of one rate in a snapshot are of one instant, also after updates
\* that failed in the middle (update() publishes all that is due or nothing).
THEOREM RatesStayTogether == Spec => []SameRateTogether
BY Invariance, PTL DEF IInv

\* Due times keep to the grid of their period for ever (poll_update adds whole
\* periods), whatever the timestep, the failures and the resets.
THEOREM ScheduleDoesNotDrift == Spec => []NoDrift
BY Invariance, PTL DEF IInv

\* No command, no rejected batch and no reset leaves in mjData.ctrl a value that
\* is outside the limits of its joint or its actuator.
THEOREM ActuatorsKeepTheirLimits == Spec => []CtrlWithinLimits
BY Invariance, PTL DEF IInv
=============================================================================
