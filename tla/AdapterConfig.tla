---------------------------- MODULE AdapterConfig ----------------------------
(***************************************************************************)
(* on_init() of the hardware interface: from the hardware description of   *)
(* ros2_control to a simulation that serves snapshots.  The description is *)
(* parsed item by item, and two things are derived from what was parsed:   *)
(* the components, each of which binds itself to the MuJoCo model in its   *)
(* init(), and the sizes of the buffers that snapshots are published from. *)
(*                                                                         *)
(* A parameter is a number, a name or a flag, or Garbage that is no number *)
(* where one is needed; a parameter that is not there is not in the map.   *)
(* Angles, ranges and rates are integers.                                  *)
(***************************************************************************)
EXTENDS Integers, Sequences, SequencesExt

CONSTANTS
  Descriptions,  \* the hardware descriptions on_init() may be given
  Model,         \* what the MuJoCo model file has, by name
  Infinity,      \* default of the limits of a joint
  Garbage

VARIABLES
  info,       \* hardware_info
  phase,      \* what on_init() is about to do
  index,      \* the item it parses next
  config,     \* HardwareConfig: joints, imus, cameras, lidars, mobile bases
  registry,   \* the components that were registered, in order
  capacity,   \* of the buffers snapshots are copied to, by position
  published   \* the first snapshot: "none", "ok", "dropped"

configVars == <<info, phase, index, config, registry, capacity, published>>

Kinds == {"joint", "imu", "camera", "lidar", "base"}

(***************************************************************************)
(* Parameters.                                                             *)
(***************************************************************************)
ParameterOr(p, key, fallback) == IF key \in DOMAIN p THEN p[key] ELSE fallback
Readable(p, keys) == \A key \in keys \cap DOMAIN p : p[key] # Garbage
Required(p, keys) == keys \subseteq DOMAIN p

JointCommandInterfaces == {"position", "velocity", "effort", "stiffness", "damping"}
JointStateInterfaces == {"position", "velocity", "effort"}
ImuStateInterfaces == {"orientation", "angular_velocity", "linear_acceleration"}

Limits(p, minKey, maxKey) ==
  [min |-> ParameterOr(p, minKey, -Infinity), max |-> ParameterOr(p, maxKey, Infinity)]

(***************************************************************************)
(* The items of a description: can one be parsed, and what is kept of it.  *)
(***************************************************************************)
ParametersOk ==
  /\ Required(info.parameters, {"mujoco_model_path"})
  /\ Readable(info.parameters, {"viewer_update_rate"})
  /\ ParameterOr(info.parameters, "render_mode", "headless") \in {"headless", "viewer"}

JointNumbers == {"position_stiffness", "position_damping", "velocity_damping", "position_min",
                 "position_max", "velocity_min", "velocity_max", "effort_min", "effort_max"}

JointOk(j) ==
  /\ Readable(j.parameters, JointNumbers)
  /\ j.commands \subseteq JointCommandInterfaces /\ j.states \subseteq JointStateInterfaces

JointOf(j) ==
  [name |-> j.name, actuator |-> ParameterOr(j.parameters, "motor_name", ""),
   gains |-> {ParameterOr(j.parameters, k, 0) : k \in {"position_stiffness", "position_damping", "velocity_damping"}},
   limits |-> {Limits(j.parameters, "position_min", "position_max"),
               Limits(j.parameters, "velocity_min", "velocity_max"),
               Limits(j.parameters, "effort_min", "effort_max")}]

\* A sensor that does not say what it is, is taken for an imu.
TypeOf(s) == ParameterOr(s.parameters, "mujoco_type", "imu")

ImuSensors == {"mujoco_orientation_sensor", "mujoco_gyro_sensor", "mujoco_accel_sensor"}
Covariances == {"orientation_covariance", "angular_velocity_covariance", "linear_acceleration_covariance"}

\* A covariance is given by how many numbers it has.
ImuOk(s) ==
  /\ Readable(s.parameters, {"update_rate"}) /\ Required(s.parameters, ImuSensors)
  /\ \A c \in Covariances : ParameterOr(s.parameters, c, 9) = 9
  /\ s.states \subseteq ImuStateInterfaces

ImuOf(s) ==
  [name |-> s.name, rate |-> ParameterOr(s.parameters, "update_rate", 200),
   sensors |-> [k \in ImuSensors |-> s.parameters[k]]]

CameraOk(s) == Readable(s.parameters, {"update_rate", "width", "height"})

CameraOf(s) ==
  [name |-> s.name, rate |-> ParameterOr(s.parameters, "update_rate", 30),
   camera |-> ParameterOr(s.parameters, "mujoco_camera_name", s.name),
   rgb |-> ParameterOr(s.parameters, "enable_rgb", TRUE),
   depth |-> ParameterOr(s.parameters, "enable_depth", FALSE),
   width |-> ParameterOr(s.parameters, "width", 640), height |-> ParameterOr(s.parameters, "height", 480)]

LidarNumbers == {"update_rate", "angle_min", "angle_max", "angle_increment", "range_min", "range_max"}

\* Of what ros2_control hands over, what was given for a number is one or is Garbage.
ASSUME DescriptionsAssumption ==
  \A d \in Descriptions :
    /\ d.joints \in Seq(ToSet(d.joints)) /\ d.sensors \in Seq(ToSet(d.sensors))
    /\ DOMAIN d.bases \subseteq Nat
    /\ \A s \in ToSet(d.sensors) : \A k \in (LidarNumbers \union {"width", "height"}) \cap DOMAIN s.parameters :
         s.parameters[k] # Garbage => s.parameters[k] \in Int

LidarOk(s) == Readable(s.parameters, LidarNumbers)

LidarOf(s) ==
  [name |-> s.name, rate |-> ParameterOr(s.parameters, "update_rate", 10),
   prefix |-> ParameterOr(s.parameters, "sensor_prefix", s.name),
   min |-> ParameterOr(s.parameters, "angle_min", 0), max |-> ParameterOr(s.parameters, "angle_max", 0),
   increment |-> ParameterOr(s.parameters, "angle_increment", 0),
   range |-> [min |-> ParameterOr(s.parameters, "range_min", 0), max |-> ParameterOr(s.parameters, "range_max", 0)]]

\* The wheels of a mobile base, and the body it stands for.
WheelJoints == {"front_left_joint", "front_right_joint", "rear_left_joint", "rear_right_joint"}
ActuatorOf == [front_left_joint |-> "front_left_actuator", front_right_joint |-> "front_right_actuator",
               rear_left_joint |-> "rear_left_actuator", rear_right_joint |-> "rear_right_actuator"]
DampingOf == [front_left_joint |-> "front_left_damping", front_right_joint |-> "front_right_damping",
              rear_left_joint |-> "rear_left_damping", rear_right_joint |-> "rear_right_damping"]
Geometry == {"wheel_radius", "track_width", "wheel_base"}

BaseOk(p) ==
  /\ ParameterOr(p, "type", "") = "mecanum" /\ Required(p, {"base_body_name"})
  /\ \A w \in WheelJoints : Required(p, {w, ActuatorOf[w]})
  /\ Readable(p, Geometry \union {DampingOf[w] : w \in WheelJoints})

BaseOf(p) ==
  [name |-> p["name"], body |-> p["base_body_name"],
   geometry |-> {ParameterOr(p, k, 0) : k \in Geometry},
   wheels |-> {[joint |-> p[w], actuator |-> p[ActuatorOf[w]],
                damping |-> ParameterOr(p, DampingOf[w], 0)] : w \in WheelJoints}]

-----------------------------------------------------------------------------
(***************************************************************************)
(* parse_hardware_config.                                                  *)
(***************************************************************************)
ConfigInit ==
  /\ info \in Descriptions
  /\ phase = "parameters" /\ index = 1
  /\ config = [kind \in Kinds |-> <<>>]
  /\ registry = <<>> /\ capacity = <<>> /\ published = "none"

Goto(next) == phase' = next /\ index' = 1
KeepParsed == UNCHANGED <<info, registry, capacity, published>>
Ok(from, condition, to) == phase = from /\ condition /\ Goto(to) /\ UNCHANGED config /\ KeepParsed
Error(from, condition) == Ok(from, condition, "error")

Keep(kind, parsed) ==
  /\ config' = [config EXCEPT ![kind] = Append(@, parsed)]
  /\ index' = index + 1
  /\ UNCHANGED phase /\ KeepParsed

ParseParameters == Ok("parameters", ParametersOk, "joints") \/ Error("parameters", ~ParametersOk)

Item(list) == phase = list /\ index \in DOMAIN info[list]

ParseJoint ==
  /\ Item("joints")
  /\ LET j == info.joints[index] IN
     IF JointOk(j) THEN Keep("joint", JointOf(j)) ELSE Error("joints", TRUE)

Sensor == info.sensors[index]
Parse(type, ok, parsed) ==
  /\ Item("sensors") /\ TypeOf(Sensor) = type
  /\ IF ok THEN Keep(type, parsed) ELSE Error("sensors", TRUE)

ParseImu    == Item("sensors") /\ Parse("imu", ImuOk(Sensor), ImuOf(Sensor))
ParseCamera == Item("sensors") /\ Parse("camera", CameraOk(Sensor), CameraOf(Sensor))
ParseLidar  == Item("sensors") /\ Parse("lidar", LidarOk(Sensor), LidarOf(Sensor))

\* A sensor of any other type is passed over without an error.
PassOver ==
  /\ Item("sensors") /\ TypeOf(Sensor) \notin {"imu", "camera", "lidar"}
  /\ index' = index + 1
  /\ UNCHANGED <<phase, config>> /\ KeepParsed

\* Mutant: mobile bases are counted from one.
NumberedFromOne == index

\* Mobile bases are numbered from zero, up to the first number without a name.
BaseNumber == index - 1
Named == BaseNumber \in DOMAIN info.bases /\ "name" \in DOMAIN info.bases[BaseNumber]

ParseMobileBase ==
  /\ phase = "bases" /\ Named
  /\ LET p == info.bases[BaseNumber] IN
     IF BaseOk(p) THEN Keep("base", BaseOf(p)) ELSE Error("bases", TRUE)

ListEnds ==
  \/ Ok("joints", index > Len(info.joints), "sensors")
  \/ Ok("sensors", index > Len(info.sensors), "bases")
  \/ Ok("bases", ~Named, "initialize")

(***************************************************************************)
(* Simulation::initialize: the model is loaded, every component bound to   *)
(* it, and updated once.                                                   *)
(***************************************************************************)
ModelLoads ==
  /\ info.parameters["mujoco_model_path"] = Model.path
  /\ "initial_keyframe" \in DOMAIN info.parameters => info.parameters["initial_keyframe"] \in Model.keyframes

Ordered(limit) == limit.min <= limit.max
Drives(actuator, joint) == actuator \in DOMAIN Model.actuators /\ Model.actuators[actuator] = joint
Scheduled(c) == 0 <= c.rate /\ c.rate <= Model.rate

JointInit(c) ==
  /\ \A limit \in c.limits : Ordered(limit)
  /\ \A gain \in c.gains : gain >= 0
  /\ Drives(c.actuator, c.name)

ImuInit(c) ==
  /\ Scheduled(c)
  /\ \A k \in ImuSensors : c.sensors[k] \in DOMAIN Model.sensors /\ Model.sensors[c.sensors[k]] = k

CameraInit(c) ==
  /\ Scheduled(c)
  /\ c.camera \in DOMAIN Model.cameras
  /\ c.width > 0 /\ c.height > 0 /\ (c.rgb \/ c.depth)

\* std::round of the angle span in increments; it may be off by a millionth.
Abs(x) == IF x < 0 THEN -x ELSE x
RoundedSpan(c) == (2 * (c.max - c.min) + c.increment) \div (2 * c.increment)
Integral(c) == Abs(c.max - c.min - RoundedSpan(c) * c.increment) * 1000000 <= c.increment
BeamCount(c) == RoundedSpan(c) + 1

LidarInit(c) ==
  /\ Scheduled(c)
  /\ c.increment > 0 /\ c.max >= c.min /\ Ordered(c.range) /\ Integral(c)
  /\ c.prefix \in DOMAIN Model.beams /\ BeamCount(c) <= Model.beams[c.prefix]

BaseInit(c) ==
  /\ c.body \in Model.bodies
  /\ \A length \in c.geometry : length > 0
  /\ \A wheel \in c.wheels : Drives(wheel.actuator, wheel.joint) /\ wheel.damping > 0

Inits(kind, c) ==
  CASE kind = "joint" -> JointInit(c)   [] kind = "imu"   -> ImuInit(c)
    [] kind = "camera" -> CameraInit(c) [] kind = "lidar" -> LidarInit(c)
    [] kind = "base" -> BaseInit(c)

\* ComponentManager::init registers kind by kind.
Of(kind) == [i \in DOMAIN config[kind] |-> [kind |-> kind, of |-> config[kind][i]]]
Components == Of("joint") \o Of("imu") \o Of("lidar") \o Of("base") \o Of("camera")

Registers ==
  /\ \A i \in DOMAIN Components : Inits(Components[i].kind, Components[i].of)
  /\ \A i, j \in DOMAIN Components : Components[i].of.name = Components[j].of.name => i = j

\* The first update renders every camera, which needs a valid field of view.
Renders == \A i \in DOMAIN config["camera"] : Model.cameras[config["camera"][i].camera].fovy

Starts == ModelLoads /\ Registers /\ Renders

(***************************************************************************)
(* The buffers of the publish channel and of the interface itself.         *)
(***************************************************************************)
\* Mutant: the beams are counted without rounding.
CountedDown(c) == IF c.increment <= 0 \/ c.max < c.min THEN 0 ELSE ((c.max - c.min) \div c.increment) + 1

EstimateLidarSampleCount(c) ==
  IF c.increment <= 0 \/ c.max < c.min THEN 0
  ELSE ((2 * (c.max - c.min) + c.increment) \div (2 * c.increment)) + 1

Bytes(c) == [rgb   |-> IF c.rgb THEN c.width * c.height * 3 ELSE 0,
             depth |-> IF c.depth THEN c.width * c.height * 4 ELSE 0]

InitializeSimulation ==
  /\ phase = "initialize"
  /\ Goto(IF Starts THEN "serving" ELSE "error")
  /\ registry' = IF Starts THEN Components ELSE <<>>
  /\ capacity' =
       IF Starts THEN [lidars  |-> [i \in DOMAIN config["lidar"] |-> EstimateLidarSampleCount(config["lidar"][i])],
                       cameras |-> [i \in DOMAIN config["camera"] |-> Bytes(config["camera"][i])]]
       ELSE <<>>
  /\ UNCHANGED <<info, config, published>>

(***************************************************************************)
(* publish_snapshot_to_channel: the state of each component is looked up   *)
(* by its name and copied by its position; the first that is missing or    *)
(* does not fit drops the whole bundle.                                    *)
(***************************************************************************)
StateOf(kind, name) == {i \in DOMAIN registry : registry[i].kind = kind /\ registry[i].of.name = name}
Found(kind) == \A i \in DOMAIN config[kind] : StateOf(kind, config[kind][i].name) # {}

LidarsFit ==
  \A i \in DOMAIN config["lidar"] : \A s \in StateOf("lidar", config["lidar"][i].name) :
    BeamCount(registry[s].of) <= capacity.lidars[i]

\* A camera frame is a slot of the queue, as large as the largest image.
Slot == [rgb   |-> {capacity.cameras[i].rgb : i \in DOMAIN capacity.cameras},
         depth |-> {capacity.cameras[i].depth : i \in DOMAIN capacity.cameras}]
CamerasFit ==
  \A i \in DOMAIN config["camera"] : \A s \in StateOf("camera", config["camera"][i].name) :
    /\ \E size \in Slot.rgb : Bytes(registry[s].of).rgb <= size
    /\ \E size \in Slot.depth : Bytes(registry[s].of).depth <= size

Publish ==
  /\ phase = "serving"
  /\ published' = IF Found("imu") /\ Found("camera") /\ Found("lidar") /\ LidarsFit /\ CamerasFit
                  THEN "ok" ELSE "dropped"
  /\ UNCHANGED <<info, phase, index, config, registry, capacity>>

-----------------------------------------------------------------------------
ConfigNext ==
  \/ ParseParameters \/ ParseJoint \/ ParseImu \/ ParseCamera \/ ParseLidar \/ PassOver
  \/ ParseMobileBase \/ ListEnds \/ InitializeSimulation \/ Publish

ConfigSpec == ConfigInit /\ [][ConfigNext]_configVars

-----------------------------------------------------------------------------
\* What the simulation accepted can be published: the sizes of the buffers are
\* computed from the description, the sizes of the data from the model, in two
\* packages that do not ask each other, and a bundle that does not fit is lost.
AcceptedIsPublished == published # "dropped"

NamedBases == {n \in DOMAIN info.bases : "name" \in DOMAIN info.bases[n]}
Described(kind) ==
  IF kind = "joint" THEN {info.joints[i].name : i \in DOMAIN info.joints}
  ELSE IF kind = "base" THEN {info.bases[i].name : i \in {n \in NamedBases : 0..n \subseteq NamedBases}}
  ELSE {s.name : s \in {t \in ToSet(info.sensors) : TypeOf(t) = kind}}

\* Once on_init() succeeds, the joints, the sensors of a known type and the mobile
\* bases numbered from 0 without a gap are there, each as one component of its
\* kind and under its name, and nothing else is.  A sensor of an unknown type and
\* a base after a gap are passed over by the code without a word, and by Described.
DescribedIsServed ==
  phase = "serving" => \A kind \in Kinds :
    /\ Described(kind) = {registry[i].of.name : i \in {n \in DOMAIN registry : registry[n].kind = kind}}
    /\ \A name \in Described(kind) : \E s \in DOMAIN registry : StateOf(kind, name) = {s}
=============================================================================
