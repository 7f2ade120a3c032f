--------------------------- MODULE MCAdapterConfig ---------------------------
(* A model with one of everything, and descriptions that name it rightly,    *)
(* wrongly, not at all or twice: at most one joint, two sensors, three bases. *)
EXTENDS AdapterConfig, TLC

CONSTANT MaxSensors

Robot ==
  [path |-> "robot.xml", keyframes |-> {"home"}, rate |-> 500, bodies |-> {"chassis"},
   actuators |-> [motor |-> "hinge", spin |-> "wheel"],
   sensors |-> [quat |-> "mujoco_orientation_sensor", gyro |-> "mujoco_gyro_sensor", acc |-> "mujoco_accel_sensor"],
   cameras |-> [front |-> [fovy |-> TRUE], blind |-> [fovy |-> FALSE]],
   beams |-> [scan |-> 4]]

GoodParameters == [mujoco_model_path |-> "robot.xml", initial_keyframe |-> "home"]
ParameterMaps == {GoodParameters, [mujoco_model_path |-> "none.xml"], [render_mode |-> "viewer"],
                  [GoodParameters EXCEPT !.initial_keyframe = "away"],
                  ("render_mode" :> "window") @@ GoodParameters}

Joint(p, commands) == [name |-> "hinge", parameters |-> p, commands |-> commands, states |-> {"position"}]
JointLists ==
  {<<>>, <<Joint("motor_name" :> "motor" @@ "position_min" :> -1, JointCommandInterfaces)>>,
   <<Joint("motor_name" :> "motor" @@ "effort_min" :> 1 @@ "effort_max" :> 0, {})>>,
   <<Joint("velocity_damping" :> Garbage, {})>>, <<Joint("motor_name" :> "spin", {"position"})>>}

GoodImu == "mujoco_orientation_sensor" :> "quat" @@ "mujoco_gyro_sensor" :> "gyro" @@ "mujoco_accel_sensor" :> "acc"
Scan(max, increment) == "mujoco_type" :> "lidar" @@ "angle_max" :> max @@ "angle_increment" :> increment
Camera == "mujoco_type" :> "camera" @@ "width" :> 2 @@ "height" :> 3

Sensors(name) == {[name |-> name, parameters |-> p, states |-> {}] : p \in {
  GoodImu, GoodImu @@ "orientation_covariance" :> 8, "mujoco_gyro_sensor" :> "quat" @@ GoodImu,
  "mujoco_type" :> "radar", Camera, Camera @@ "enable_depth" :> TRUE, "height" :> 0 @@ Camera,
  Camera @@ "mujoco_camera_name" :> "blind", "width" :> Garbage @@ Camera,
  Scan(2999999, 1000000), Scan(2999998, 1000000), Scan(3, 1), Scan(1, 0), Scan(4, 1)}}

Base(n) == [key \in {"name", "type", "base_body_name"} \union Geometry |->
    CASE key = "name" -> n [] key = "type" -> "mecanum" [] key = "base_body_name" -> "chassis" [] OTHER -> 1]
  @@ [w \in WheelJoints |-> "wheel"] @@ [a \in {ActuatorOf[w] : w \in WheelJoints} |-> "spin"]
  @@ [d \in {DampingOf[w] : w \in WheelJoints} |-> 1]

Nameless == [key \in DOMAIN Base("none") \ {"name"} |-> Base("none")[key]]

BaseMaps == {<<>>, 0 :> Base("base"), 1 :> Base("base"), 0 :> Base("base") @@ 1 :> Base("other"),
             0 :> Nameless @@ 1 :> Base("base"), 0 :> Base("base") @@ 1 :> Nameless @@ 2 :> Base("other"),
             0 :> [Base("base") EXCEPT !["front_left_damping"] = 0], 0 :> [Base("base") EXCEPT !.type = "omni"]}

SensorLists == {<<>>} \union {<<s>> : s \in Sensors("scan")}
  \union {<<s, t>> : s \in Sensors("scan"), t \in Sensors("front") \union Sensors("scan")}

AllDescriptions ==
  {[parameters |-> p, joints |-> <<>>, sensors |-> <<>>, bases |-> <<>>] : p \in ParameterMaps}
  \union {d \in [parameters : {GoodParameters}, joints : JointLists, sensors : SensorLists, bases : BaseMaps] :
            Len(d.sensors) <= MaxSensors /\ (Len(d.sensors) = MaxSensors => Len(d.joints) + Cardinality(DOMAIN d.bases) <= 1)}
=============================================================================
