--------------------------- MODULE AdapterProofs ---------------------------
(***************************************************************************)
(* Proofs about what MuJoCoHardwareInterface makes of a description and of *)
(* commands.  First AdapterConfig, for any hardware description and any    *)
(* model: what on_init() has parsed is what the description says so far,   *)
(* so what it serves is what was described, and fits its buffers.  Then    *)
(* JointCommands, for any list of joints, any interfaces they support, any *)
(* switches that are asked for and any bounds: CommandsInv is inductive,   *)
(* and what the worker reads is never more than one write() old.           *)
(***************************************************************************)
EXTENDS AdapterConfig, JointCommands, TLAPS

(***************************************************************************)
(* What on_init() has made of a description, up to where it is: of each    *)
(* kind only items of the description that could be parsed are kept, none  *)
(* of those it passed is lost, and what serves is bound, registered and    *)
(* sized from exactly what was kept.                                       *)
(***************************************************************************)
Accepted(kind) ==
  CASE kind = "joint"  -> {JointOf(j) : j \in {d \in ToSet(info.joints) : JointOk(d)}}
    [] kind = "imu"    -> {ImuOf(s) : s \in {d \in ToSet(info.sensors) : TypeOf(d) = "imu" /\ ImuOk(d)}}
    [] kind = "camera" -> {CameraOf(s) : s \in {d \in ToSet(info.sensors) : TypeOf(d) = "camera" /\ CameraOk(d)}}
    [] kind = "lidar"  -> {LidarOf(s) : s \in {d \in ToSet(info.sensors) : TypeOf(d) = "lidar" /\ LidarOk(d)}}
    [] kind = "base"   -> {BaseOf(info.bases[n]) : n \in {d \in NamedBases : BaseOk(info.bases[d])}}

Items == UNION {Accepted(kind) : kind \in Kinds}
Phases == {"parameters", "joints", "sensors", "bases", "initialize", "serving", "error"}
AfterSensors == {"bases", "initialize", "serving"}

ConfigTyped ==
  /\ info \in Descriptions /\ phase \in Phases /\ index \in Nat \ {0}
  /\ config \in [Kinds -> Seq(Items)]
  /\ \A kind \in Kinds : config[kind] \in Seq(Accepted(kind))

JointsSoFar ==
  /\ phase = "parameters" => Len(config["joint"]) = 0
  /\ phase = "joints" => index = Len(config["joint"]) + 1 /\ index <= Len(info.joints) + 1
  /\ phase \in {"sensors"} \union AfterSensors => Len(config["joint"]) = Len(info.joints)
  /\ \A i \in DOMAIN config["joint"] : config["joint"][i].name = info.joints[i].name

PassedSensors ==
  IF phase = "sensors" THEN index - 1 ELSE IF phase \in AfterSensors THEN Len(info.sensors) ELSE 0

SensorsSoFar ==
  /\ phase = "sensors" => index <= Len(info.sensors) + 1
  /\ \A i \in 1..PassedSensors : \A kind \in {"imu", "camera", "lidar"} :
       TypeOf(info.sensors[i]) = kind => \E n \in DOMAIN config[kind] : config[kind][n].name = info.sensors[i].name

BasesSoFar ==
  /\ phase \in {"parameters", "joints", "sensors"} => Len(config["base"]) = 0
  /\ phase = "bases" => index = Len(config["base"]) + 1
  /\ phase \in {"initialize", "serving"} => Len(config["base"]) \notin NamedBases
  /\ \A i \in DOMAIN config["base"] : i - 1 \in NamedBases /\ config["base"][i].name = info.bases[i - 1].name

Served ==
  /\ Starts /\ registry = Components
  /\ capacity = [lidars  |-> [i \in DOMAIN config["lidar"] |-> EstimateLidarSampleCount(config["lidar"][i])],
                 cameras |-> [i \in DOMAIN config["camera"] |-> Bytes(config["camera"][i])]]

ConfigInv ==
  /\ ConfigTyped
  /\ phase # "error" => JointsSoFar /\ SensorsSoFar /\ BasesSoFar
  /\ phase = "serving" => Served
  /\ AcceptedIsPublished

-----------------------------------------------------------------------------
\* The elements of a sequence that grew by one.
LEMMA ToSetAppend ==
  ASSUME NEW S, NEW s \in Seq(S), NEW x \in S
  PROVE  ToSet(Append(s, x)) = ToSet(s) \union {x}
<1>. DEFINE u == Append(s, x)
<1>1. /\ DOMAIN u = DOMAIN s \union {Len(s) + 1} /\ u[Len(s) + 1] = x
      /\ \A i \in DOMAIN s : u[i] = s[i]
  OBVIOUS
<1>. QED BY <1>1 DEF ToSet

\* The elements of two sequences in a row.
LEMMA ToSetConcat ==
  ASSUME NEW S, NEW s \in Seq(S), NEW t \in Seq(S)
  PROVE  s \o t \in Seq(S) /\ ToSet(s \o t) = ToSet(s) \union ToSet(t)
<1>. DEFINE u == s \o t
<1>1. u \in Seq(S) /\ Len(u) = Len(s) + Len(t)
  OBVIOUS
<1>2. \A i \in DOMAIN s : i \in DOMAIN u /\ u[i] = s[i]
  BY <1>1
<1>3. \A i \in DOMAIN t : Len(s) + i \in DOMAIN u /\ u[Len(s) + i] = t[i]
  BY <1>1
<1>4. ASSUME NEW i \in DOMAIN u
      PROVE  u[i] \in ToSet(s) \union ToSet(t)
  <2>1. CASE i \in DOMAIN s
    BY <2>1 DEF ToSet
  <2>2. CASE i \notin DOMAIN s
    <3>1. i - Len(s) \in DOMAIN t /\ u[i] = t[i - Len(s)]
      BY <1>1, <2>2
    <3>. QED BY <3>1 DEF ToSet
  <2>. QED BY <2>1, <2>2
<1>5. ToSet(u) \subseteq ToSet(s) \union ToSet(t)
  BY <1>4 DEF ToSet
<1>6. ToSet(s) \subseteq ToSet(u) /\ ToSet(t) \subseteq ToSet(u)
  <2>1. ToSet(s) \subseteq ToSet(u)
    <3>. SUFFICES ASSUME NEW i \in DOMAIN s PROVE s[i] \in ToSet(u)
      BY DEF ToSet
    <3>. QED BY <1>2 DEF ToSet
  <2>2. ToSet(t) \subseteq ToSet(u)
    <3>. SUFFICES ASSUME NEW i \in DOMAIN t PROVE t[i] \in ToSet(u)
      BY DEF ToSet
    <3>. QED BY <1>3 DEF ToSet
  <2>. QED BY <2>1, <2>2
<1>. QED BY <1>1, <1>5, <1>6

\* What is registered is what was kept, each with its kind.
LEMMA RegisteredAreKept ==
  ASSUME ConfigTyped
  PROVE  /\ Components \in Seq([kind : Kinds, of : Items])
         /\ ToSet(Components) = UNION {ToSet(Of(kind)) : kind \in Kinds}
<1>. DEFINE S == [kind : Kinds, of : Items]
<1>1. ASSUME NEW kind \in Kinds
      PROVE  Of(kind) \in Seq(S)
  <2>1. config[kind] \in Seq(Items)
    BY DEF ConfigTyped
  <2>2. \A i \in DOMAIN config[kind] : [kind |-> kind, of |-> config[kind][i]] \in S
    BY <2>1
  <2>3. DOMAIN config[kind] = 1..Len(config[kind]) /\ Len(config[kind]) \in Nat
    BY <2>1
  <2>. QED BY <2>2, <2>3 DEF Of
<1>2. /\ Of("joint") \in Seq(S) /\ Of("imu") \in Seq(S) /\ Of("lidar") \in Seq(S)
      /\ Of("base") \in Seq(S) /\ Of("camera") \in Seq(S)
  BY <1>1 DEF Kinds
<1>. HIDE DEF S
<1>. DEFINE a == Of("joint") \o Of("imu")
            b == a \o Of("lidar")
            c == b \o Of("base")
            d == c \o Of("camera")
<1>3. a \in Seq(S) /\ ToSet(a) = ToSet(Of("joint")) \union ToSet(Of("imu"))
  BY <1>2, ToSetConcat
<1>. HIDE DEF a
<1>4. b \in Seq(S) /\ ToSet(b) = ToSet(a) \union ToSet(Of("lidar"))
  BY <1>2, <1>3, ToSetConcat
<1>. HIDE DEF b
<1>5. c \in Seq(S) /\ ToSet(c) = ToSet(b) \union ToSet(Of("base"))
  BY <1>2, <1>4, ToSetConcat
<1>. HIDE DEF c
<1>6. d \in Seq(S) /\ ToSet(d) = ToSet(c) \union ToSet(Of("camera"))
  BY <1>2, <1>5, ToSetConcat
<1>7. Components = d
  BY DEF Components, a, b, c
<1>8. UNION {ToSet(Of(kind)) : kind \in Kinds} =
        ToSet(Of("joint")) \union ToSet(Of("imu")) \union ToSet(Of("lidar"))
          \union ToSet(Of("base")) \union ToSet(Of("camera"))
  BY DEF Kinds
<1>. QED BY <1>3, <1>4, <1>5, <1>6, <1>7, <1>8 DEF S

\* A component is registered for every item that was kept, and for no other.
LEMMA RegisteredByKind ==
  ASSUME ConfigTyped
  PROVE  /\ \A n \in DOMAIN Components :
              /\ Components[n].kind \in Kinds
              /\ \E i \in DOMAIN config[Components[n].kind] : Components[n].of = config[Components[n].kind][i]
         /\ \A kind \in Kinds : \A i \in DOMAIN config[kind] :
              \E n \in DOMAIN Components : Components[n].kind = kind /\ Components[n].of = config[kind][i]
<1>. DEFINE Part(kind, i) == [kind |-> kind, of |-> config[kind][i]]
<1>1. ASSUME NEW kind \in Kinds
      PROVE  ToSet(Of(kind)) = {Part(kind, i) : i \in DOMAIN config[kind]}
  BY DEF Of, ToSet
<1>2. ASSUME NEW n \in DOMAIN Components
      PROVE  /\ Components[n].kind \in Kinds
             /\ \E i \in DOMAIN config[Components[n].kind] : Components[n].of = config[Components[n].kind][i]
  <2>1. Components[n] \in ToSet(Components)
    BY DEF ToSet
  <2>2. PICK kind \in Kinds : Components[n] \in ToSet(Of(kind))
    BY <2>1, RegisteredAreKept
  <2>3. PICK i \in DOMAIN config[kind] : Components[n] = Part(kind, i)
    BY <1>1, <2>2
  <2>. QED BY <2>3
<1>3. ASSUME NEW kind \in Kinds, NEW i \in DOMAIN config[kind]
      PROVE  \E n \in DOMAIN Components : Components[n].kind = kind /\ Components[n].of = config[kind][i]
  <2>1. Part(kind, i) \in ToSet(Components)
    BY <1>1, RegisteredAreKept
  <2>2. PICK n \in DOMAIN Components : Components[n] = Part(kind, i)
    BY <2>1 DEF ToSet
  <2>. QED BY <2>2
<1>. QED BY <1>2, <1>3

\* Nothing was parsed at first.
LEMMA ConfigInitially == ConfigInit => ConfigInv
<1>. SUFFICES ASSUME ConfigInit PROVE ConfigInv
  OBVIOUS
<1>. USE DEF ConfigInit
<1>1. \A kind \in Kinds : config[kind] = <<>>
  OBVIOUS
<1>2. ConfigTyped
  BY <1>1 DEF ConfigTyped, Phases
<1>3. config["joint"] = <<>> /\ config["base"] = <<>>
  BY DEF Kinds
<1>4. JointsSoFar /\ SensorsSoFar /\ BasesSoFar
  BY <1>3 DEF JointsSoFar, SensorsSoFar, BasesSoFar, PassedSensors, AfterSensors
<1>. QED BY <1>2, <1>4 DEF ConfigInv, AcceptedIsPublished

\* What a description may be made into depends on the description alone.
LEMMA SameDescription ==
  ASSUME info' = info
  PROVE  /\ \A kind \in Kinds : Accepted(kind)' = Accepted(kind)
         /\ Items' = Items /\ NamedBases' = NamedBases
<1>1. NamedBases' = NamedBases
  BY DEF NamedBases
<1>2. \A kind : Accepted(kind)' = Accepted(kind)
  BY <1>1 DEF Accepted
<1>. QED BY <1>1, <1>2 DEF Items

\* on_init() may fail at any time.
LEMMA ErrorKeeps ==
  ASSUME ConfigInv, NEW from, NEW condition, Error(from, condition)
  PROVE  ConfigInv'
<1>1. phase' = "error" /\ index' = 1 /\ UNCHANGED <<info, config, published>>
  BY DEF Error, Ok, Goto, KeepParsed
<1>2. ConfigTyped'
  BY <1>1, SameDescription DEF ConfigInv, ConfigTyped, Phases
<1>. QED BY <1>1, <1>2 DEF ConfigInv, AcceptedIsPublished

\* An item that is kept is the last of its kind, and the other kinds stay.
LEMMA KeepKeepsTypes ==
  ASSUME ConfigTyped, NEW kind \in Kinds, NEW x \in Accepted(kind), Keep(kind, x)
  PROVE  /\ ConfigTyped'
         /\ config'[kind] = Append(config[kind], x)
         /\ \A k \in Kinds \ {kind} : config'[k] = config[k]
<1>1. /\ config' = [config EXCEPT ![kind] = Append(@, x)]
      /\ index' = index + 1 /\ phase' = phase /\ info' = info
  BY DEF Keep, KeepParsed
<1>2. config \in [Kinds -> Seq(Items)] /\ config[kind] \in Seq(Accepted(kind))
  BY DEF ConfigTyped
<1>3. x \in Items
  BY DEF Items
<1>4. Append(config[kind], x) \in Seq(Accepted(kind))
  BY <1>2
<1>5. Append(config[kind], x) \in Seq(Items)
  BY <1>2, <1>3
<1>6. config' \in [Kinds -> Seq(Items)]
  BY ONLY <1>1, <1>2, <1>5
<1>7. config'[kind] = Append(config[kind], x) /\ \A k \in Kinds \ {kind} : config'[k] = config[k]
  BY <1>1, <1>2
<1>8. \A k \in Kinds : config'[k] \in Seq(Accepted(k))
  BY <1>4, <1>7 DEF ConfigTyped
<1>9. ConfigTyped'
  BY <1>1, <1>6, <1>8, SameDescription DEF ConfigTyped
<1>. QED BY <1>7, <1>9

\* A description is a list of joints, a list of sensors and numbered bases.
LEMMA DescriptionTyped ==
  ASSUME ConfigTyped
  PROVE  /\ info.joints \in Seq(ToSet(info.joints)) /\ info.sensors \in Seq(ToSet(info.sensors))
         /\ NamedBases \subseteq Nat
         /\ \A i \in DOMAIN info.joints : info.joints[i] \in ToSet(info.joints)
         /\ \A i \in DOMAIN info.sensors : info.sensors[i] \in ToSet(info.sensors)
BY DescriptionsAssumption DEF ConfigTyped, NamedBases, ToSet

\* What was kept of the joints stays, if nothing is appended to it.
LEMMA FrameJoints ==
  ASSUME JointsSoFar, UNCHANGED <<info, phase>>, phase \notin {"parameters", "joints"},
         config'["joint"] = config["joint"]
  PROVE  JointsSoFar'
BY DEF JointsSoFar, AfterSensors

\* And so does what was kept of the mobile bases.
LEMMA FrameBases ==
  ASSUME BasesSoFar, UNCHANGED <<info, phase>>, phase \notin {"bases"},
         config'["base"] = config["base"]
  PROVE  BasesSoFar'
BY SameDescription DEF BasesSoFar

\* A joint is kept at the place it has in the description.
LEMMA ParseJointKeeps == ConfigInv /\ ParseJoint => ConfigInv'
<1>. SUFFICES ASSUME ConfigInv, ParseJoint PROVE ConfigInv'
  OBVIOUS
<1>. DEFINE j == info.joints[index]
<1>1. phase = "joints" /\ index \in DOMAIN info.joints
  BY DEF ParseJoint, Item
<1>2. ConfigTyped /\ JointsSoFar /\ SensorsSoFar /\ BasesSoFar
  BY <1>1 DEF ConfigInv
<1>3. CASE JointOk(j)
  <2>1. Keep("joint", JointOf(j))
    BY <1>3 DEF ParseJoint
  <2>2. JointOf(j) \in Accepted("joint")
    BY <1>1, <1>2, <1>3, DescriptionTyped DEF Accepted
  <2>. HIDE DEF j
  <2>3. /\ ConfigTyped' /\ config'["joint"] = Append(config["joint"], JointOf(j))
        /\ \A k \in Kinds \ {"joint"} : config'[k] = config[k]
    BY <1>2, <2>1, <2>2, KeepKeepsTypes DEF Kinds
  <2>4. index' = index + 1 /\ phase' = phase /\ info' = info /\ published' = published
    BY <2>1 DEF Keep, KeepParsed
  <2>5. config["joint"] \in Seq(Items) /\ info.joints \in Seq(ToSet(info.joints))
    BY <1>2, DescriptionTyped DEF ConfigTyped, Kinds
  <2>6. JointOf(j).name = info.joints[index].name
    BY DEF JointOf, j
  <2>7. JointsSoFar'
    <3>1. index = Len(config["joint"]) + 1 /\ index <= Len(info.joints)
      BY <1>1, <1>2, <2>5 DEF JointsSoFar
    <3>2. Len(config'["joint"]) = index /\ DOMAIN config'["joint"] = 1..index
      BY <2>3, <2>5, <3>1
    <3>3. \A i \in 1..index : config'["joint"][i].name = info.joints[i].name
      BY <1>2, <2>3, <2>5, <2>6, <3>1 DEF JointsSoFar
    <3>. QED BY <1>1, <2>4, <2>5, <3>1, <3>2, <3>3 DEF JointsSoFar, AfterSensors
  <2>8. SensorsSoFar'
    BY <1>1, <2>4 DEF SensorsSoFar, PassedSensors, AfterSensors
  <2>9. BasesSoFar'
    BY <1>1, <1>2, <2>3, <2>4, FrameBases DEF Kinds
  <2>. QED BY <1>1, <2>3, <2>4, <2>7, <2>8, <2>9 DEF ConfigInv, AcceptedIsPublished
<1>4. CASE ~JointOk(j)
  BY <1>4, ErrorKeeps DEF ParseJoint
<1>. QED BY <1>3, <1>4

\* A sensor that was kept is at the end of its kind.
LEMMA ParseSensorKeeps ==
  ASSUME ConfigInv, phase = "sensors", index \in DOMAIN info.sensors,
         NEW type \in {"imu", "camera", "lidar"}, TypeOf(Sensor) = type,
         NEW x \in Accepted(type), x.name = Sensor.name, Keep(type, x)
  PROVE  ConfigInv'
<1>2. ConfigTyped /\ JointsSoFar /\ SensorsSoFar /\ BasesSoFar
  BY DEF ConfigInv
<1>3. /\ ConfigTyped' /\ config'[type] = Append(config[type], x)
      /\ \A k \in Kinds \ {type} : config'[k] = config[k]
  BY <1>2, KeepKeepsTypes DEF Kinds
<1>4. index' = index + 1 /\ phase' = phase /\ info' = info /\ published' = published
  BY DEF Keep, KeepParsed
<1>5. config[type] \in Seq(Items) /\ info.sensors \in Seq(ToSet(info.sensors)) /\ index \in Nat \ {0}
  BY <1>2, DescriptionTyped DEF ConfigTyped, Kinds
<1>6. JointsSoFar' /\ BasesSoFar'
  BY <1>2, <1>3, <1>4, FrameJoints, FrameBases DEF Kinds
<1>7. SensorsSoFar'
  <2>1. index' <= Len(info.sensors) + 1
    BY <1>4, <1>5
  <2>2. PassedSensors = index - 1 /\ PassedSensors' = index
    BY <1>4, <1>5 DEF PassedSensors
  <2>3. DOMAIN config[type] \subseteq DOMAIN config'[type] /\ \A n \in DOMAIN config[type] : config'[type][n] = config[type][n]
    BY <1>3, <1>5
  <2>4. \A kind \in {"imu", "camera", "lidar"} :
          /\ DOMAIN config[kind] \subseteq DOMAIN config'[kind]
          /\ \A n \in DOMAIN config[kind] : config'[kind][n] = config[kind][n]
    BY <1>3, <2>3 DEF Kinds
  <2>5. ASSUME NEW i \in 1..index, NEW kind \in {"imu", "camera", "lidar"}, TypeOf(info.sensors[i]) = kind
        PROVE  \E n \in DOMAIN config'[kind] : config'[kind][n].name = info.sensors[i].name
    <3>1. CASE i = index
      <4>1. kind = type /\ x.name = info.sensors[i].name
        BY <2>5, <3>1 DEF Sensor
      <4>2. Len(config[type]) + 1 \in DOMAIN config'[type] /\ config'[type][Len(config[type]) + 1] = x
        BY <1>3, <1>5
      <4>. QED BY <4>1, <4>2
    <3>2. CASE i # index
      <4>1. i \in 1..PassedSensors
        BY <1>5, <2>2, <3>2
      <4>2. PICK n \in DOMAIN config[kind] : config[kind][n].name = info.sensors[i].name
        BY <1>2, <2>5, <4>1 DEF SensorsSoFar
      <4>. QED BY <2>4, <4>2
    <3>. QED BY <3>1, <3>2
  <2>6. \A s : TypeOf(s)' = TypeOf(s)
    BY DEF TypeOf
  <2>. QED BY <1>4, <2>1, <2>2, <2>5 DEF SensorsSoFar, TypeOf
<1>. QED BY <1>3, <1>4, <1>6, <1>7 DEF ConfigInv, AcceptedIsPublished

\* An imu, a camera or a lidar is kept, or on_init() fails.
LEMMA ParseSensorsKeep == ConfigInv /\ (ParseImu \/ ParseCamera \/ ParseLidar) => ConfigInv'
<1>. SUFFICES ASSUME ConfigInv, ParseImu \/ ParseCamera \/ ParseLidar PROVE ConfigInv'
  OBVIOUS
<1>1. phase = "sensors" /\ index \in DOMAIN info.sensors
  BY DEF ParseImu, ParseCamera, ParseLidar, Item
<1>2. Sensor \in ToSet(info.sensors)
  BY <1>1, DescriptionTyped DEF ConfigInv, Sensor
<1>3. CASE ParseImu
  <2>1. CASE ImuOk(Sensor)
    <3>1. TypeOf(Sensor) = "imu" /\ Keep("imu", ImuOf(Sensor))
      BY <1>3, <2>1 DEF ParseImu, Parse
    <3>2. ImuOf(Sensor) \in Accepted("imu") /\ ImuOf(Sensor).name = Sensor.name
      BY <1>2, <2>1, <3>1 DEF Accepted, ImuOf
    <3>. QED BY <1>1, <3>1, <3>2, ParseSensorKeeps
  <2>2. CASE ~ImuOk(Sensor)
    BY <1>3, <2>2, ErrorKeeps DEF ParseImu, Parse
  <2>. QED BY <2>1, <2>2
<1>4. CASE ParseCamera
  <2>1. CASE CameraOk(Sensor)
    <3>1. TypeOf(Sensor) = "camera" /\ Keep("camera", CameraOf(Sensor))
      BY <1>4, <2>1 DEF ParseCamera, Parse
    <3>2. CameraOf(Sensor) \in Accepted("camera")
      BY <1>2, <2>1, <3>1 DEF Accepted
    <3>3. CameraOf(Sensor).name = Sensor.name
      BY DEF CameraOf
    <3>. QED BY <1>1, <3>1, <3>2, <3>3, ParseSensorKeeps
  <2>2. CASE ~CameraOk(Sensor)
    BY <1>4, <2>2, ErrorKeeps DEF ParseCamera, Parse
  <2>. QED BY <2>1, <2>2
<1>5. CASE ParseLidar
  <2>1. CASE LidarOk(Sensor)
    <3>1. TypeOf(Sensor) = "lidar" /\ Keep("lidar", LidarOf(Sensor))
      BY <1>5, <2>1 DEF ParseLidar, Parse
    <3>2. LidarOf(Sensor) \in Accepted("lidar") /\ LidarOf(Sensor).name = Sensor.name
      BY <1>2, <2>1, <3>1 DEF Accepted, LidarOf
    <3>. QED BY <1>1, <3>1, <3>2, ParseSensorKeeps
  <2>2. CASE ~LidarOk(Sensor)
    BY <1>5, <2>2, ErrorKeeps DEF ParseLidar, Parse
  <2>. QED BY <2>1, <2>2
<1>. QED BY <1>3, <1>4, <1>5

\* A sensor of another type was passed, and belongs to no kind.
LEMMA PassOverKeeps == ConfigInv /\ PassOver => ConfigInv'
<1>. SUFFICES ASSUME ConfigInv, PassOver PROVE ConfigInv'
  OBVIOUS
<1>1. /\ phase = "sensors" /\ index \in DOMAIN info.sensors
      /\ TypeOf(info.sensors[index]) \notin {"imu", "camera", "lidar"}
      /\ index' = index + 1 /\ UNCHANGED <<phase, config, info, published>>
  BY DEF PassOver, Item, KeepParsed, Sensor
<1>2. ConfigTyped /\ JointsSoFar /\ SensorsSoFar /\ BasesSoFar
  BY <1>1 DEF ConfigInv
<1>3. ConfigTyped'
  BY <1>1, <1>2, SameDescription DEF ConfigTyped
<1>4. JointsSoFar' /\ BasesSoFar'
  BY <1>1, <1>2, FrameJoints, FrameBases
<1>5. SensorsSoFar'
  <2>1. info.sensors \in Seq(ToSet(info.sensors)) /\ index \in Nat \ {0}
    BY <1>2, DescriptionTyped DEF ConfigTyped
  <2>2. index' <= Len(info.sensors) + 1
    BY <1>1, <2>1
  <2>3. PassedSensors = index - 1 /\ PassedSensors' = index
    BY <1>1, <2>1 DEF PassedSensors
  <2>4. \A i \in 1..index : i = index \/ i \in 1..PassedSensors
    BY <2>1, <2>3
  <2>. QED BY <1>1, <1>2, <2>2, <2>3, <2>4 DEF SensorsSoFar, TypeOf
<1>. QED BY <1>1, <1>3, <1>4, <1>5 DEF ConfigInv, AcceptedIsPublished

\* The mobile base with the next number is kept at the next place.
LEMMA ParseMobileBaseKeeps == ConfigInv /\ ParseMobileBase => ConfigInv'
<1>. SUFFICES ASSUME ConfigInv, ParseMobileBase PROVE ConfigInv'
  OBVIOUS
<1>. DEFINE p == info.bases[BaseNumber]
<1>1. phase = "bases" /\ BaseNumber \in NamedBases
  BY DEF ParseMobileBase, Named, NamedBases
<1>2. ConfigTyped /\ JointsSoFar /\ SensorsSoFar /\ BasesSoFar
  BY <1>1 DEF ConfigInv
<1>3. CASE BaseOk(p)
  <2>1. Keep("base", BaseOf(p))
    BY <1>3 DEF ParseMobileBase
  <2>2. BaseOf(p) \in Accepted("base")
    BY <1>1, <1>3 DEF Accepted
  <2>. HIDE DEF p
  <2>3. /\ ConfigTyped' /\ config'["base"] = Append(config["base"], BaseOf(p))
        /\ \A k \in Kinds \ {"base"} : config'[k] = config[k]
    BY <1>2, <2>1, <2>2, KeepKeepsTypes DEF Kinds
  <2>4. index' = index + 1 /\ phase' = phase /\ info' = info /\ published' = published
    BY <2>1 DEF Keep, KeepParsed
  <2>5. config["base"] \in Seq(Items) /\ index \in Nat \ {0}
    BY <1>2 DEF ConfigTyped, Kinds
  <2>6. index = Len(config["base"]) + 1 /\ BaseNumber = index - 1
    BY <1>1, <1>2 DEF BasesSoFar, BaseNumber
  <2>7. BaseOf(p).name = info.bases[index - 1].name
    BY <2>6 DEF BaseOf, p
  <2>8. BasesSoFar'
    <3>1. Len(config'["base"]) = index /\ DOMAIN config'["base"] = 1..index
      BY <2>3, <2>5, <2>6
    <3>2. \A i \in 1..index : i - 1 \in NamedBases /\ config'["base"][i].name = info.bases[i - 1].name
      BY <1>1, <1>2, <2>3, <2>5, <2>6, <2>7 DEF BasesSoFar
    <3>. QED BY <1>1, <2>4, <3>1, <3>2, SameDescription DEF BasesSoFar
  <2>9. JointsSoFar'
    BY <1>1, <1>2, <2>3, <2>4, FrameJoints DEF Kinds
  <2>10. SensorsSoFar'
    BY <1>1, <1>2, <2>3, <2>4 DEF SensorsSoFar, PassedSensors, AfterSensors, Kinds, TypeOf
  <2>. QED BY <1>1, <2>3, <2>4, <2>8, <2>9, <2>10 DEF ConfigInv, AcceptedIsPublished
<1>4. CASE ~BaseOk(p)
  BY <1>4, ErrorKeeps DEF ParseMobileBase
<1>. QED BY <1>3, <1>4

\* A list ends when every item of it was passed.
LEMMA ListEndsKeeps == ConfigInv /\ (ParseParameters \/ ListEnds) => ConfigInv'
<1>. SUFFICES ASSUME ConfigInv, ParseParameters \/ ListEnds PROVE ConfigInv'
  OBVIOUS
<1>1. CASE Error("parameters", ~ParametersOk)
  BY <1>1, ErrorKeeps
<1>2. ASSUME NEW from, NEW condition, NEW to \in Phases, Ok(from, condition, to)
      PROVE  /\ phase = from /\ condition /\ phase' = to /\ index' = 1
             /\ UNCHANGED <<info, config, published>> /\ ConfigTyped'
  <2>1. phase = from /\ condition /\ phase' = to /\ index' = 1 /\ UNCHANGED <<info, config, published>>
    BY <1>2 DEF Ok, Goto, KeepParsed
  <2>. QED BY <2>1, SameDescription DEF ConfigTyped, ConfigInv
<1>3. /\ index \in Nat \ {0} /\ info.joints \in Seq(ToSet(info.joints))
      /\ info.sensors \in Seq(ToSet(info.sensors)) /\ NamedBases' = NamedBases
      /\ config["joint"] \in Seq(Items) /\ config["base"] \in Seq(Items)
      /\ NamedBases \subseteq Nat
  <2>1. info' = info
    BY DEF ParseParameters, ListEnds, Error, Ok, KeepParsed
  <2>. QED BY <2>1, DescriptionTyped, SameDescription DEF ConfigInv, ConfigTyped, Kinds
<1>4. CASE Ok("parameters", ParametersOk, "joints")
  <2>1. /\ phase = "parameters" /\ phase' = "joints" /\ index' = 1
        /\ UNCHANGED <<info, config, published>> /\ ConfigTyped'
    BY <1>2, <1>4 DEF Phases
  <2>2. JointsSoFar' /\ SensorsSoFar' /\ BasesSoFar'
    BY <1>3, <2>1 DEF ConfigInv, JointsSoFar, SensorsSoFar, PassedSensors, BasesSoFar, AfterSensors
  <2>. QED BY <2>1, <2>2 DEF ConfigInv, AcceptedIsPublished
<1>5. CASE Ok("joints", index > Len(info.joints), "sensors")
  <2>1. /\ phase = "joints" /\ phase' = "sensors" /\ index' = 1 /\ index > Len(info.joints)
        /\ UNCHANGED <<info, config, published>> /\ ConfigTyped'
    BY <1>2, <1>5 DEF Phases
  <2>2. JointsSoFar' /\ SensorsSoFar' /\ BasesSoFar'
    BY <1>3, <2>1 DEF ConfigInv, JointsSoFar, SensorsSoFar, PassedSensors, BasesSoFar, AfterSensors
  <2>. QED BY <2>1, <2>2 DEF ConfigInv, AcceptedIsPublished
<1>6. CASE Ok("sensors", index > Len(info.sensors), "bases")
  <2>1. /\ phase = "sensors" /\ phase' = "bases" /\ index' = 1 /\ index > Len(info.sensors)
        /\ UNCHANGED <<info, config, published>> /\ ConfigTyped'
    BY <1>2, <1>6 DEF Phases
  <2>2. JointsSoFar' /\ BasesSoFar'
    BY <1>3, <2>1 DEF ConfigInv, JointsSoFar, BasesSoFar, AfterSensors
  <2>3. PassedSensors = Len(info.sensors) /\ PassedSensors' = Len(info.sensors)
    BY <1>3, <2>1 DEF ConfigInv, SensorsSoFar, PassedSensors, AfterSensors
  <2>4. SensorsSoFar'
    BY <2>1, <2>3 DEF ConfigInv, SensorsSoFar, TypeOf
  <2>. QED BY <2>1, <2>2, <2>4 DEF ConfigInv, AcceptedIsPublished
<1>7. CASE Ok("bases", ~Named, "initialize")
  <2>1. /\ phase = "bases" /\ phase' = "initialize" /\ index' = 1 /\ ~Named
        /\ UNCHANGED <<info, config, published>> /\ ConfigTyped'
    BY <1>2, <1>7 DEF Phases
  <2>2. JointsSoFar'
    BY <1>3, <2>1 DEF ConfigInv, JointsSoFar, AfterSensors
  <2>3. PassedSensors' = PassedSensors
    BY <2>1 DEF PassedSensors, AfterSensors
  <2>4. SensorsSoFar'
    BY <2>1, <2>3 DEF ConfigInv, SensorsSoFar, TypeOf
  <2>5. Len(config["base"]) \notin NamedBases
    BY <1>3, <2>1 DEF ConfigInv, BasesSoFar, Named, BaseNumber, NamedBases
  <2>6. BasesSoFar'
    BY <1>3, <2>1, <2>5 DEF ConfigInv, BasesSoFar
  <2>. QED BY <2>1, <2>2, <2>4, <2>6 DEF ConfigInv, AcceptedIsPublished
<1>. QED BY <1>1, <1>4, <1>5, <1>6, <1>7 DEF ParseParameters, ListEnds

\* What was registered and sized depends on what was kept.
LEMMA SameConfig ==
  ASSUME UNCHANGED <<info, config>>
  PROVE  Components' = Components /\ (Starts => Starts')
<1>1. Components' = Components
  BY DEF Components, Of
<1>2. ASSUME Starts PROVE Starts'
  <2>1. ModelLoads' /\ Renders'
    BY <1>2 DEF Starts, ModelLoads, Renders
  <2>2. Registers'
    BY <1>1, <1>2 DEF Starts, Registers, Inits, JointInit, ImuInit, CameraInit, LidarInit, BaseInit
  <2>. QED BY <2>1, <2>2 DEF Starts
<1>. QED BY <1>1, <1>2

\* A step that changes nothing but the snapshot keeps what was parsed.
LEMMA UnchangedKeeps ==
  ASSUME UNCHANGED <<info, phase, index, config, registry, capacity>>
  PROVE  /\ ConfigTyped => ConfigTyped'
         /\ JointsSoFar /\ SensorsSoFar /\ BasesSoFar => (JointsSoFar /\ SensorsSoFar /\ BasesSoFar)'
         /\ Served => Served'
<1>1. ConfigTyped => ConfigTyped'
  BY SameDescription DEF ConfigTyped
<1>2. JointsSoFar => JointsSoFar'
  BY DEF JointsSoFar
<1>3. SensorsSoFar => SensorsSoFar'
  BY DEF SensorsSoFar, PassedSensors, TypeOf
<1>4. BasesSoFar => BasesSoFar'
  BY SameDescription DEF BasesSoFar
<1>5. Served => Served'
  BY SameConfig DEF Served, EstimateLidarSampleCount, Bytes
<1>. QED BY <1>1, <1>2, <1>3, <1>4, <1>5

\* What is registered, and what is sized, is computed from what was kept.
LEMMA InitializeKeeps == ConfigInv /\ InitializeSimulation => ConfigInv'
<1>. SUFFICES ASSUME ConfigInv, InitializeSimulation PROVE ConfigInv'
  OBVIOUS
<1>1. /\ phase = "initialize" /\ phase' = (IF Starts THEN "serving" ELSE "error") /\ index' = 1
      /\ UNCHANGED <<info, config, published>>
  BY DEF InitializeSimulation, Goto
<1>2. ConfigTyped'
  BY <1>1, SameDescription DEF ConfigInv, ConfigTyped, Phases
<1>3. CASE Starts
  <2>1. PassedSensors' = PassedSensors
    BY <1>1, <1>3 DEF PassedSensors, AfterSensors
  <2>2. JointsSoFar' /\ SensorsSoFar' /\ BasesSoFar'
    <3>1. JointsSoFar'
      BY <1>1, <1>3 DEF ConfigInv, JointsSoFar, AfterSensors
    <3>2. SensorsSoFar'
      BY <1>1, <1>3, <2>1 DEF ConfigInv, SensorsSoFar, TypeOf
    <3>3. BasesSoFar'
      BY <1>1, <1>3, SameDescription DEF ConfigInv, BasesSoFar
    <3>. QED BY <3>1, <3>2, <3>3
  <2>3. Starts' /\ Components' = Components
    BY <1>1, <1>3, SameConfig
  <2>4. /\ registry' = Components
        /\ capacity' = [lidars  |-> [i \in DOMAIN config["lidar"] |-> EstimateLidarSampleCount(config["lidar"][i])],
                        cameras |-> [i \in DOMAIN config["camera"] |-> Bytes(config["camera"][i])]]
    BY <1>3 DEF InitializeSimulation
  <2>5. Served'
    BY <1>1, <2>3, <2>4 DEF Served, EstimateLidarSampleCount, Bytes
  <2>. QED BY <1>1, <1>2, <1>3, <2>2, <2>5 DEF ConfigInv, AcceptedIsPublished
<1>4. CASE ~Starts
  BY <1>1, <1>2, <1>4 DEF ConfigInv, AcceptedIsPublished
<1>. QED BY <1>3, <1>4

\* What was kept of an item is found under its name, and under no other's.
LEMMA StateIsItsOwn ==
  ASSUME ConfigTyped, Served, NEW kind \in Kinds, NEW i \in DOMAIN config[kind]
  PROVE  \E n \in DOMAIN registry :
           /\ StateOf(kind, config[kind][i].name) = {n}
           /\ registry[n].kind = kind /\ registry[n].of = config[kind][i]
<1>1. registry = Components /\ Registers
  BY DEF Served, Starts
<1>2. PICK n \in DOMAIN registry : registry[n].kind = kind /\ registry[n].of = config[kind][i]
  BY <1>1, RegisteredByKind
<1>3. \A m \in DOMAIN registry : registry[m].of.name = registry[n].of.name => m = n
  BY <1>1 DEF Registers
<1>4. n \in StateOf(kind, config[kind][i].name)
  BY <1>2 DEF StateOf
<1>5. \A m \in StateOf(kind, config[kind][i].name) : m = n
  BY <1>2, <1>3 DEF StateOf
<1>. QED BY <1>2, <1>4, <1>5

\* The numbers of a sensor that was kept are numbers.
LEMMA NumbersWereRead ==
  ASSUME ConfigTyped
  PROVE  /\ \A c \in Accepted("lidar") : c.min \in Int /\ c.max \in Int /\ c.increment \in Int
         /\ \A c \in Accepted("camera") : c.width \in Int /\ c.height \in Int
<1>. DEFINE Numbers == LidarNumbers \union {"width", "height"}
<1>1. ASSUME NEW s \in ToSet(info.sensors), NEW key \in Numbers, Readable(s.parameters, {key}),
             NEW fallback \in Int
      PROVE  ParameterOr(s.parameters, key, fallback) \in Int
  BY <1>1, DescriptionsAssumption DEF ConfigTyped, ParameterOr, Readable
<1>2. ASSUME NEW c \in Accepted("lidar")
      PROVE  c.min \in Int /\ c.max \in Int /\ c.increment \in Int
  <2>1. PICK s \in ToSet(info.sensors) : LidarOk(s) /\ c = LidarOf(s)
    BY DEF Accepted
  <2>2. \A key \in LidarNumbers : Readable(s.parameters, {key})
    BY <2>1 DEF LidarOk, Readable
  <2>3. \A key \in {"angle_min", "angle_max", "angle_increment"} : ParameterOr(s.parameters, key, 0) \in Int
    BY <1>1, <2>2 DEF LidarNumbers
  <2>4. /\ c.min = ParameterOr(s.parameters, "angle_min", 0)
        /\ c.max = ParameterOr(s.parameters, "angle_max", 0)
        /\ c.increment = ParameterOr(s.parameters, "angle_increment", 0)
    BY <2>1 DEF LidarOf
  <2>. QED BY <2>3, <2>4
<1>3. ASSUME NEW c \in Accepted("camera")
      PROVE  c.width \in Int /\ c.height \in Int
  <2>1. PICK s \in ToSet(info.sensors) : CameraOk(s) /\ c = CameraOf(s)
    BY DEF Accepted
  <2>2. Readable(s.parameters, {"width"}) /\ Readable(s.parameters, {"height"})
    BY <2>1 DEF CameraOk, Readable
  <2>3. ParameterOr(s.parameters, "width", 640) \in Int
    <3>1. "width" \in Numbers /\ 640 \in Int
      OBVIOUS
    <3>. QED BY <1>1, <2>2, <3>1
  <2>4. ParameterOr(s.parameters, "height", 480) \in Int
    <3>1. "height" \in Numbers /\ 480 \in Int
      OBVIOUS
    <3>. QED BY <1>1, <2>2, <3>1
  <2>5. c.width = ParameterOr(s.parameters, "width", 640) /\ c.height = ParameterOr(s.parameters, "height", 480)
    BY <2>1 DEF CameraOf
  <2>. QED BY <2>3, <2>4, <2>5
<1>. QED BY <1>2, <1>3

\* For a lidar that init() accepted, both packages count the same beams.
LEMMA BeamsAgree ==
  ASSUME NEW c, c.min \in Int, c.max \in Int, c.increment \in Int, LidarInit(c)
  PROVE  BeamCount(c) = EstimateLidarSampleCount(c) /\ BeamCount(c) \in Int
<1>1. c.increment > 0 /\ c.max >= c.min
  BY DEF LidarInit
<1>2. \A a, b \in Int : b > 0 => a \div b \in Int
  OBVIOUS
<1>3. 2 * (c.max - c.min) + c.increment \in Int /\ 2 * c.increment \in Int /\ 2 * c.increment > 0
  BY <1>1
<1>4. RoundedSpan(c) \in Int
  BY <1>2, <1>3 DEF RoundedSpan
<1>5. EstimateLidarSampleCount(c) = RoundedSpan(c) + 1
  BY <1>1 DEF EstimateLidarSampleCount, RoundedSpan
<1>. QED BY <1>4, <1>5 DEF BeamCount

\* What serves has a state for every sensor, and a buffer that holds it.
LEMMA ServedFits ==
  ASSUME ConfigTyped, Served
  PROVE  (\A kind \in Kinds : Found(kind)) /\ LidarsFit /\ CamerasFit
<1>1. \A kind \in Kinds : Found(kind)
  BY StateIsItsOwn DEF Found
<1>2. ASSUME NEW kind \in Kinds, NEW i \in DOMAIN config[kind], NEW s \in StateOf(kind, config[kind][i].name)
      PROVE  registry[s].of = config[kind][i] /\ Inits(kind, config[kind][i]) /\ config[kind][i] \in Accepted(kind)
  <2>1. PICK n \in DOMAIN registry :
          /\ StateOf(kind, config[kind][i].name) = {n}
          /\ registry[n].kind = kind /\ registry[n].of = config[kind][i]
    BY StateIsItsOwn
  <2>2. s = n
    BY <2>1
  <2>3. Inits(registry[n].kind, registry[n].of)
    BY DEF Served, Starts, Registers
  <2>4. config[kind][i] \in Accepted(kind)
    BY DEF ConfigTyped
  <2>. QED BY <2>1, <2>2, <2>3, <2>4
<1>3. ASSUME NEW i \in DOMAIN config["lidar"], NEW s \in StateOf("lidar", config["lidar"][i].name)
      PROVE  BeamCount(registry[s].of) <= capacity.lidars[i]
  <2>. DEFINE c == config["lidar"][i]
  <2>1. registry[s].of = c /\ LidarInit(c) /\ c \in Accepted("lidar")
    BY <1>2 DEF Kinds, Inits
  <2>2. capacity.lidars[i] = EstimateLidarSampleCount(c)
    BY DEF Served
  <2>3. BeamCount(c) = EstimateLidarSampleCount(c) /\ BeamCount(c) \in Int
    BY <2>1, NumbersWereRead, BeamsAgree
  <2>. QED BY <2>1, <2>2, <2>3
<1>4. ASSUME NEW i \in DOMAIN config["camera"], NEW s \in StateOf("camera", config["camera"][i].name)
      PROVE  /\ \E size \in Slot.rgb : Bytes(registry[s].of).rgb <= size
             /\ \E size \in Slot.depth : Bytes(registry[s].of).depth <= size
  <2>. DEFINE c == config["camera"][i]
  <2>1. registry[s].of = c /\ c \in Accepted("camera")
    BY <1>2 DEF Kinds
  <2>2. i \in DOMAIN capacity.cameras /\ capacity.cameras[i] = Bytes(c)
    BY DEF Served
  <2>3. c.width * c.height * 3 \in Int /\ c.width * c.height * 4 \in Int
    BY <2>1, NumbersWereRead
  <2>4. Bytes(c).rgb \in Int /\ Bytes(c).depth \in Int
    BY <2>3 DEF Bytes
  <2>5. Bytes(c).rgb \in Slot.rgb /\ Bytes(c).depth \in Slot.depth
    BY <2>2 DEF Slot
  <2>. QED BY <2>1, <2>4, <2>5
<1>. QED BY <1>1, <1>3, <1>4 DEF LidarsFit, CamerasFit

\* The first snapshot fits.
LEMMA PublishKeeps == ConfigInv /\ Publish => ConfigInv'
<1>. SUFFICES ASSUME ConfigInv, Publish PROVE ConfigInv'
  OBVIOUS
<1>1. phase = "serving" /\ UNCHANGED <<info, phase, index, config, registry, capacity>>
  BY DEF Publish
<1>2. published' = "ok"
  <2>1. Found("imu") /\ Found("camera") /\ Found("lidar") /\ LidarsFit /\ CamerasFit
    BY <1>1, ServedFits DEF ConfigInv, Kinds
  <2>. QED BY <2>1 DEF Publish
<1>3. ConfigTyped' /\ (phase # "error" => JointsSoFar /\ SensorsSoFar /\ BasesSoFar)' /\ (phase = "serving" => Served)'
  BY <1>1, UnchangedKeeps DEF ConfigInv
<1>. QED BY <1>2, <1>3 DEF ConfigInv, AcceptedIsPublished

\* No step loses an item, adds one or makes a snapshot that does not fit.
LEMMA ConfigStepKeeps == ConfigInv /\ [ConfigNext]_configVars => ConfigInv'
<1>. SUFFICES ASSUME ConfigInv, [ConfigNext]_configVars PROVE ConfigInv'
  OBVIOUS
<1>1. CASE ParseParameters \/ ListEnds
  BY <1>1, ListEndsKeeps
<1>2. CASE ParseJoint
  BY <1>2, ParseJointKeeps
<1>3. CASE ParseImu \/ ParseCamera \/ ParseLidar
  BY <1>3, ParseSensorsKeep
<1>4. CASE PassOver
  BY <1>4, PassOverKeeps
<1>5. CASE ParseMobileBase
  BY <1>5, ParseMobileBaseKeeps
<1>6. CASE InitializeSimulation
  BY <1>6, InitializeKeeps
<1>7. CASE Publish
  BY <1>7, PublishKeeps
<1>8. CASE UNCHANGED configVars
  BY <1>8, UnchangedKeeps DEF ConfigInv, AcceptedIsPublished, configVars
<1>. QED BY <1>1, <1>2, <1>3, <1>4, <1>5, <1>6, <1>7, <1>8 DEF ConfigNext

\* on_init() at any time has parsed, bound and sized what the description says
\* so far.
THEOREM ConfigurationIsSound == ConfigSpec => []ConfigInv
BY ConfigInitially, ConfigStepKeeps, PTL DEF ConfigSpec

\* For any description and any model: what the simulation accepted fits the
\* buffers that were sized without it.
THEOREM AcceptedSnapshotsFit == ConfigSpec => []AcceptedIsPublished
<1>1. ConfigInv => AcceptedIsPublished
  BY DEF ConfigInv
<1>. QED BY <1>1, ConfigurationIsSound, PTL

\* Once on_init() has parsed a description, the names it kept of a kind are
\* those that the description gives.
LEMMA KeptAreDescribed ==
  ASSUME ConfigInv, phase = "serving", NEW kind \in Kinds
  PROVE  Described(kind) = {config[kind][i].name : i \in DOMAIN config[kind]}
<1>1. ConfigTyped /\ JointsSoFar /\ SensorsSoFar /\ BasesSoFar
  BY DEF ConfigInv
<1>2. /\ info.joints \in Seq(ToSet(info.joints)) /\ info.sensors \in Seq(ToSet(info.sensors))
      /\ NamedBases \subseteq Nat /\ config[kind] \in Seq(Items)
  BY <1>1, DescriptionTyped DEF ConfigTyped
<1>3. CASE kind = "joint"
  <2>1. DOMAIN config["joint"] = DOMAIN info.joints
    BY <1>1, <1>2, <1>3 DEF JointsSoFar, AfterSensors
  <2>2. Described(kind) = {info.joints[i].name : i \in DOMAIN info.joints}
    BY <1>3 DEF Described
  <2>3. \A i \in DOMAIN config["joint"] : config["joint"][i].name = info.joints[i].name
    BY <1>1 DEF JointsSoFar
  <2>. QED BY <1>3, <2>1, <2>2, <2>3
<1>4. CASE kind = "base"
  <2>. DEFINE n == Len(config["base"])
              Counted == {m \in NamedBases : 0..m \subseteq NamedBases}
  <2>1. /\ n \in Nat /\ DOMAIN config["base"] = 1..n /\ n \notin NamedBases
        /\ \A i \in 1..n : i - 1 \in NamedBases /\ config["base"][i].name = info.bases[i - 1].name
    BY <1>1, <1>2, <1>4 DEF BasesSoFar
  <2>. HIDE DEF n
  <2>2. \A m \in 0..(n - 1) : m \in NamedBases
    <3>. SUFFICES ASSUME NEW m \in 0..(n - 1) PROVE m \in NamedBases
      OBVIOUS
    <3>1. m + 1 \in 1..n /\ (m + 1) - 1 = m
      BY <2>1
    <3>. QED BY <2>1, <3>1
  <2>3. Counted = 0..(n - 1)
    <3>1. ASSUME NEW m \in 0..(n - 1) PROVE m \in Counted
      BY <2>1, <2>2
    <3>2. ASSUME NEW m \in Counted PROVE m \in 0..(n - 1)
      <4>1. m \in Nat /\ 0..m \subseteq NamedBases
        BY <1>2
      <4>2. n \notin 0..m
        BY <2>1, <4>1
      <4>. QED BY <2>1, <4>1, <4>2
    <3>. QED BY <3>1, <3>2
  <2>4. Described(kind) = {info.bases[m].name : m \in 0..(n - 1)}
    BY <1>4, <2>3 DEF Described
  <2>5. ASSUME NEW m \in 0..(n - 1)
        PROVE  \E i \in 1..n : config["base"][i].name = info.bases[m].name
    <3>1. m + 1 \in 1..n /\ (m + 1) - 1 = m
      BY <2>1
    <3>. QED BY <2>1, <3>1
  <2>6. ASSUME NEW i \in 1..n
        PROVE  \E m \in 0..(n - 1) : config["base"][i].name = info.bases[m].name
    <3>1. i - 1 \in 0..(n - 1)
      BY <2>1
    <3>. QED BY <2>1, <3>1
  <2>7. {config["base"][i].name : i \in 1..n} = {info.bases[m].name : m \in 0..(n - 1)}
    BY ONLY <2>5, <2>6
  <2>. QED BY <1>4, <2>1, <2>4, <2>7
<1>5. CASE kind \in {"imu", "camera", "lidar"}
  <2>1. Described(kind) = {s.name : s \in {t \in ToSet(info.sensors) : TypeOf(t) = kind}}
    BY <1>5 DEF Described
  <2>2. ASSUME NEW i \in DOMAIN config[kind]
        PROVE  \E s \in ToSet(info.sensors) : TypeOf(s) = kind /\ s.name = config[kind][i].name
    <3>1. config[kind][i] \in Accepted(kind)
      BY <1>1 DEF ConfigTyped
    <3>2. CASE kind = "imu"
      BY <3>1, <3>2 DEF Accepted, ImuOf
    <3>3. CASE kind = "camera"
      <4>1. PICK s \in ToSet(info.sensors) : TypeOf(s) = "camera" /\ config[kind][i] = CameraOf(s)
        BY <3>1, <3>3 DEF Accepted
      <4>2. CameraOf(s).name = s.name
        BY DEF CameraOf
      <4>. QED BY <3>3, <4>1, <4>2
    <3>4. CASE kind = "lidar"
      BY <3>1, <3>4 DEF Accepted, LidarOf
    <3>. QED BY <1>5, <3>2, <3>3, <3>4
  <2>3. ASSUME NEW s \in ToSet(info.sensors), TypeOf(s) = kind
        PROVE  \E n \in DOMAIN config[kind] : config[kind][n].name = s.name
    <3>1. PICK i \in DOMAIN info.sensors : s = info.sensors[i]
      BY DEF ToSet
    <3>2. i \in 1..PassedSensors
      BY <1>2 DEF PassedSensors, AfterSensors
    <3>. QED BY <1>1, <1>5, <2>3, <3>1, <3>2 DEF SensorsSoFar
  <2>. QED BY <2>1, <2>2, <2>3
<1>. QED BY <1>3, <1>4, <1>5 DEF Kinds

\* For any description and any model: once on_init() succeeds, each joint, each sensor
\* of a known type and each mobile base numbered without a gap is one component of
\* its kind under its name, and there is no other.
THEOREM ServedAsDescribed == ConfigSpec => []DescribedIsServed
<1>1. ConfigInv => DescribedIsServed
  <2>. SUFFICES ASSUME ConfigInv, phase = "serving", NEW kind \in Kinds
                PROVE  /\ Described(kind) = {registry[i].of.name : i \in {n \in DOMAIN registry : registry[n].kind = kind}}
                       /\ \A name \in Described(kind) : \E s \in DOMAIN registry : StateOf(kind, name) = {s}
    BY DEF DescribedIsServed
  <2>1. ConfigTyped /\ Served /\ registry = Components
    BY DEF ConfigInv, Served
  <2>2. Described(kind) = {config[kind][i].name : i \in DOMAIN config[kind]}
    BY KeptAreDescribed
  <2>3. ASSUME NEW i \in DOMAIN config[kind]
        PROVE  \E n \in DOMAIN registry : registry[n].kind = kind /\ registry[n].of.name = config[kind][i].name
    BY <2>1, StateIsItsOwn
  <2>4. ASSUME NEW n \in DOMAIN registry, registry[n].kind = kind
        PROVE  \E i \in DOMAIN config[kind] : registry[n].of.name = config[kind][i].name
    BY <2>1, <2>4, RegisteredByKind
  <2>5. ASSUME NEW name \in Described(kind)
        PROVE  \E s \in DOMAIN registry : StateOf(kind, name) = {s}
    <3>1. PICK i \in DOMAIN config[kind] : name = config[kind][i].name
      BY <2>2
    <3>. QED BY <2>1, <3>1, StateIsItsOwn
  <2>. QED BY <2>2, <2>3, <2>4, <2>5
<1>. QED BY <1>1, ConfigurationIsSound, PTL

-----------------------------------------------------------------------------
(***************************************************************************)
(* JointCommands.                                                          *)
(***************************************************************************)
\* The constants' types, and abbreviations that are always expanded.
USE JointCommandsAssumption DEF Idle, claimVars, sentVars

\* The inductive invariant: each of the two properties needs the other's parts.
CommandsIInv == CommandsInv /\ SkewAtMostOne

\* A mode uses some of the interfaces.
LEMMA ModesUse ==
  ASSUME NEW set, ModeOf(set) # None
  PROVE  ModeOf(set) \in Modes /\ Used(ModeOf(set)) # {} /\ Used(ModeOf(set)) \subseteq Interfaces
<1>1. ModeOf(set) \in Modes
  BY DEF ModeOf, Modes
<1>2. \A mode \in Modes : Used(mode) # {} /\ Used(mode) \subseteq Interfaces
  BY DEF Modes, Used, Interfaces
<1>. QED BY <1>1, <1>2

\* A joint's mode depends on its interfaces alone.
LEMMA ModeFrame ==
  ASSUME NEW j \in JointSet, active'[j] = active[j]
  PROVE  Mode(j)' = Mode(j)
BY DEF Mode

\* What is sent for a claimed joint was set since the last switch or activation.
LEMMA EpochsAreCurrent ==
  ASSUME FieldsAreCurrent, NEW j \in JointSet, Mode(j) # None
  PROVE  Epochs(j) = {epoch}
<1>1. Used(Mode(j)) # {}
  BY ModesUse DEF Mode
<1>2. \A i \in Used(Mode(j)) : fields[j][i] = epoch
  BY DEF FieldsAreCurrent
<1>. QED BY <1>1, <1>2 DEF Epochs

\* What write() sends is a command.
LEMMA SentIsCommand ==
  ASSUME TypeOK, next > 0, NEW j \in JointSet, Mode(j) # None
  PROVE  /\ [mode |-> Mode(j), epochs |-> {epoch}, cycle |-> cycle] \in Command
         /\ [mode |-> Mode(j), epochs |-> {epoch}, cycle |-> cycle] # None
<1>1. Mode(j) \in Modes
  BY ModesUse DEF Mode
<1>2. cycle \in 1..MaxCycle /\ epoch \in 0..MaxEpoch
  BY DEF TypeOK
<1>3. [mode |-> Mode(j), epochs |-> {epoch}, cycle |-> cycle] \in Command
  BY <1>1, <1>2 DEF Command
<1>. QED BY <1>3, NoneAssumption

\* The joint that write() comes to is one of the robot's.
LEMMA CurrentIsJoint == InWrite => next \in DOMAIN Joints /\ Current \in JointSet
BY DEF InWrite, Current, JointSet

\* initialize_command_buffers sets what the modes use.
LEMMA InitializedFields ==
  ASSUME NEW set, NEW e \in 0..MaxEpoch,
         fields \in [JointSet -> [Interfaces -> 0..MaxEpoch]]
  PROVE  /\ Initialized(set, e) \in [JointSet -> [Interfaces -> 0..MaxEpoch]]
         /\ \A j \in JointSet : \A i \in Interfaces : i \in Used(ModeOf(set[j])) => Initialized(set, e)[j][i] = e
BY DEF Initialized

\* No joint is claimed at first.
LEMMA Initially == Init => CommandsIInv
<1>. SUFFICES ASSUME Init PROVE CommandsIInv
  OBVIOUS
<1>. USE DEF Init
<1>1. \A j \in JointSet : Mode(j) = None
  BY DEF Mode, ModeOf, Interfaces
<1>2. TypeOK
  BY <1>1 DEF TypeOK
<1>3. PendingIsWhole /\ FieldsAreCurrent /\ ClaimsArePast /\ CurrentClaimOnly
  BY <1>1 DEF PendingIsWhole, FieldsAreCurrent, ClaimsArePast, CurrentClaimOnly
<1>4. SentSoFar
  <2>1. \A k \in DOMAIN Joints : ~(k < next)
    OBVIOUS
  <2>. QED BY <2>1 DEF SentSoFar
<1>5. SkewAtMostOne
  BY <1>1 DEF SkewAtMostOne, InService, Returned
<1>. QED BY <1>2, <1>3, <1>4, <1>5 DEF CommandsIInv, CommandsInv

\* on_activate() sets the fields of the claimed joints; nothing is settled any more.
LEMMA OnActivateKeeps == CommandsIInv /\ OnActivate => CommandsIInv'
<1>. SUFFICES ASSUME CommandsIInv, OnActivate PROVE CommandsIInv'
  OBVIOUS
<1>. USE DEF OnActivate, CommandsIInv, CommandsInv
<1>1. \A j \in JointSet : Mode(j)' = Mode(j)
  BY ModeFrame
<1>2. /\ epoch' \in 0..MaxEpoch
      /\ fields' \in [JointSet -> [Interfaces -> 0..MaxEpoch]]
      /\ \A j \in JointSet : \A i \in Interfaces : i \in Used(Mode(j)) => fields'[j][i] = epoch'
  <2>1. epoch' \in 0..MaxEpoch /\ fields \in [JointSet -> [Interfaces -> 0..MaxEpoch]]
    BY DEF TypeOK
  <2>2. fields' = Initialized(active, epoch')
    OBVIOUS
  <2>. QED BY ONLY <2>1, <2>2, InitializedFields DEF Mode
<1>3. TypeOK'
  BY <1>1, <1>2 DEF TypeOK
<1>4. FieldsAreCurrent'
  BY <1>1, <1>2, ModesUse DEF FieldsAreCurrent, Mode
<1>5. (PendingIsWhole /\ ClaimsArePast /\ CurrentClaimOnly)'
  BY <1>1 DEF PendingIsWhole, WholeModes, ClaimsArePast, CurrentClaimOnly
<1>6. SentSoFar'
  BY DEF SentSoFar
<1>7. SkewAtMostOne'
  BY <1>1 DEF SkewAtMostOne, InService, Returned
<1>. QED BY <1>3, <1>4, <1>5, <1>6, <1>7

\* on_deactivate() leaves no joint with a mode.
LEMMA OnDeactivateKeeps == CommandsIInv /\ OnDeactivate => CommandsIInv'
<1>. SUFFICES ASSUME CommandsIInv, OnDeactivate PROVE CommandsIInv'
  OBVIOUS
<1>. USE DEF OnDeactivate, CommandsIInv, CommandsInv
<1>1. \A j \in JointSet : Mode(j)' = None
  BY DEF Mode, ModeOf, Interfaces
<1>2. TypeOK'
  BY <1>1 DEF TypeOK
<1>3. (PendingIsWhole /\ FieldsAreCurrent /\ ClaimsArePast /\ CurrentClaimOnly)'
  BY <1>1 DEF PendingIsWhole, FieldsAreCurrent, ClaimsArePast, CurrentClaimOnly
<1>4. SentSoFar'
  BY DEF SentSoFar
<1>5. SkewAtMostOne'
  BY <1>1 DEF SkewAtMostOne, InService, Returned
<1>. QED BY <1>2, <1>3, <1>4, <1>5

\* prepare_command_mode_switch() checks every joint's next interfaces.
LEMMA PrepareKeeps ==
  ASSUME CommandsIInv, NEW request, PrepareCommandModeSwitch(request) PROVE CommandsIInv'
<1>. USE DEF PrepareCommandModeSwitch, CommandsIInv, CommandsInv
<1>1. \A j \in JointSet : Mode(j)' = Mode(j)
  BY ModeFrame
<1>2. NextInterfaces(request) \in [JointSet -> SUBSET Interfaces]
  BY DEF NextInterfaces, TypeOK
<1>3. TypeOK'
  BY <1>1, <1>2 DEF TypeOK
<1>4. PendingIsWhole'
  BY DEF PendingIsWhole, WholeModes
<1>5. (FieldsAreCurrent /\ ClaimsArePast /\ CurrentClaimOnly)'
  BY <1>1 DEF FieldsAreCurrent, ClaimsArePast, CurrentClaimOnly
<1>6. (SentSoFar /\ SkewAtMostOne)'
  BY <1>1 DEF SentSoFar, SkewAtMostOne, InService, Returned
<1>. QED BY <1>3, <1>4, <1>5, <1>6

\* perform_command_mode_switch() sets every joint's fields, and a joint whose
\* interfaces change is not in service yet.
LEMMA PerformKeeps == CommandsIInv /\ PerformCommandModeSwitch => CommandsIInv'
<1>. SUFFICES ASSUME CommandsIInv, PerformCommandModeSwitch PROVE CommandsIInv'
  OBVIOUS
<1>. USE DEF PerformCommandModeSwitch, CommandsIInv, CommandsInv
<1>1. active' \in [JointSet -> SUBSET Interfaces] /\ claimedAt' \in [JointSet -> 0..MaxCycle]
  BY DEF TypeOK
<1>2. \A j \in JointSet : active'[j] # {} => Mode(j)' # None
  BY DEF PendingIsWhole, WholeModes, Mode
<1>3. \A j \in JointSet : \/ Mode(j)' = Mode(j) /\ claimedAt'[j] = claimedAt[j]
                          \/ claimedAt'[j] = cycle
  BY <1>1, ModeFrame DEF TypeOK
<1>4. /\ epoch' \in 0..MaxEpoch
      /\ fields' \in [JointSet -> [Interfaces -> 0..MaxEpoch]]
      /\ \A j \in JointSet : \A i \in Interfaces : i \in Used(Mode(j)') => fields'[j][i] = epoch'
  <2>1. epoch' \in 0..MaxEpoch /\ fields \in [JointSet -> [Interfaces -> 0..MaxEpoch]]
    BY DEF TypeOK
  <2>2. fields' = Initialized(active', epoch')
    OBVIOUS
  <2>. QED BY ONLY <2>1, <2>2, InitializedFields DEF Mode
<1>5. TypeOK'
  BY <1>1, <1>2, <1>4 DEF TypeOK
<1>6. FieldsAreCurrent'
  BY <1>4, ModesUse DEF FieldsAreCurrent, Mode
<1>7. (PendingIsWhole /\ CurrentClaimOnly)'
  BY DEF PendingIsWhole, CurrentClaimOnly
<1>8. (ClaimsArePast /\ SentSoFar)'
  BY <1>3 DEF ClaimsArePast, SentSoFar, TypeOK
<1>9. SkewAtMostOne'
  BY <1>3 DEF SkewAtMostOne, InService, Returned, TypeOK
<1>. QED BY <1>5, <1>6, <1>7, <1>8, <1>9

\* What a controller sets is set in the present epoch.
LEMMA ControlKeeps ==
  ASSUME CommandsIInv, NEW j \in JointSet, Control(j) PROVE CommandsIInv'
<1>. USE DEF Control, CommandsIInv, CommandsInv
<1>1. \A k \in JointSet : Mode(k)' = Mode(k)
  BY ModeFrame
<1>2. fields' \in [JointSet -> [Interfaces -> 0..MaxEpoch]]
  BY DEF TypeOK
<1>3. TypeOK'
  BY <1>1, <1>2 DEF TypeOK
<1>4. \A k \in JointSet : \A i \in Interfaces : fields'[k][i] = fields[k][i] \/ fields'[k][i] = epoch
  BY DEF TypeOK
<1>5. FieldsAreCurrent'
  BY <1>1, <1>4, ModesUse DEF FieldsAreCurrent, Mode, TypeOK
<1>6. (PendingIsWhole /\ ClaimsArePast /\ CurrentClaimOnly)'
  BY <1>1 DEF PendingIsWhole, WholeModes, ClaimsArePast, CurrentClaimOnly
<1>7. (SentSoFar /\ SkewAtMostOne)'
  BY <1>1 DEF SentSoFar, SkewAtMostOne, InService, Returned
<1>. QED BY <1>3, <1>5, <1>6, <1>7

\* A write() begins, and what the last one sent is one call old.
LEMMA BeginWriteKeeps == CommandsIInv /\ BeginWrite => CommandsIInv'
<1>. SUFFICES ASSUME CommandsIInv, BeginWrite PROVE CommandsIInv'
  OBVIOUS
<1>. USE DEF BeginWrite, CommandsIInv, CommandsInv
<1>1. \A j \in JointSet : Mode(j)' = Mode(j)
  BY ModeFrame
<1>2. TypeOK'
  BY <1>1 DEF TypeOK
<1>3. (PendingIsWhole /\ FieldsAreCurrent)'
  BY <1>1 DEF PendingIsWhole, WholeModes, FieldsAreCurrent
<1>4. (ClaimsArePast /\ CurrentClaimOnly)'
  BY <1>1 DEF ClaimsArePast, CurrentClaimOnly, TypeOK
<1>5. SentSoFar'
  BY DEF SentSoFar
<1>6. SkewAtMostOne'
  <2>1. Returned = cycle /\ Returned' = cycle
    BY DEF Returned, TypeOK
  <2>. QED BY <1>1, <2>1 DEF SkewAtMostOne, InService
<1>. QED BY <1>2, <1>3, <1>4, <1>5, <1>6

\* write() sends the command of a claimed joint.
LEMMA WriteJointKeeps == CommandsIInv /\ WriteJoint => CommandsIInv'
<1>. SUFFICES ASSUME CommandsIInv, WriteJoint PROVE CommandsIInv'
  OBVIOUS
<1>. USE DEF WriteJoint, CommandsIInv, CommandsInv
<1>1. \A j \in JointSet : Mode(j)' = Mode(j)
  BY ModeFrame
<1>2. /\ Current \in JointSet /\ next \in 1..Len(Joints) /\ Mode(Current) \in Modes
      /\ Epochs(Current) = {epoch}
  BY CurrentIsJoint, EpochsAreCurrent, ModesUse DEF Mode, InWrite
<1>3. \A j \in JointSet :
        \/ /\ buffer'[j] = [mode |-> Mode(j), epochs |-> {epoch}, cycle |-> cycle]
           /\ buffer'[j] # None
        \/ j # Current /\ buffer'[j] = buffer[j]
  <2>1. buffer' = [buffer EXCEPT ![Current] = [mode |-> Mode(Current), epochs |-> {epoch}, cycle |-> cycle]]
    BY <1>2
  <2>2. [mode |-> Mode(Current), epochs |-> {epoch}, cycle |-> cycle] # None
    BY <1>2, SentIsCommand
  <2>3. buffer \in [JointSet -> Command \union {None}]
    BY DEF TypeOK
  <2>. QED BY ONLY <1>2, <2>1, <2>2, <2>3
<1>4. TypeOK'
  <2>1. [mode |-> Mode(Current), epochs |-> {epoch}, cycle |-> cycle] \in Command
    BY <1>2, SentIsCommand
  <2>2. buffer' = [buffer EXCEPT ![Current] = [mode |-> Mode(Current), epochs |-> {epoch}, cycle |-> cycle]]
    BY <1>2
  <2>3. buffer' \in [JointSet -> Command \union {None}]
    BY ONLY <2>1, <2>2, CommandsIInv DEF CommandsIInv, CommandsInv, TypeOK
  <2>. QED BY <1>1, <1>2, <2>3 DEF TypeOK
<1>5. (PendingIsWhole /\ FieldsAreCurrent /\ ClaimsArePast)'
  BY <1>1 DEF PendingIsWhole, WholeModes, FieldsAreCurrent, ClaimsArePast
<1>6. CurrentClaimOnly'
  BY <1>1, <1>3 DEF CurrentClaimOnly, TypeOK
<1>7. SentSoFar'
  <2>. SUFFICES ASSUME NEW k \in DOMAIN Joints, k < next', Mode(Joints[k]) # None
                PROVE  buffer'[Joints[k]] = [mode |-> Mode(Joints[k]), epochs |-> {epoch}, cycle |-> cycle]
    BY <1>1 DEF SentSoFar, JointSet
  <2>1. CASE k = next
    BY <1>2, <2>1, <1>3 DEF Current
  <2>2. CASE k < next
    BY <1>3, <2>2 DEF SentSoFar, JointSet
  <2>. QED BY <2>1, <2>2, <1>2
<1>8. SkewAtMostOne'
  <2>1. Returned' = Returned
    BY <1>2 DEF Returned
  <2>. QED BY <1>1, <1>3, <2>1 DEF SkewAtMostOne, InService, TypeOK
<1>. QED BY <1>4, <1>5, <1>6, <1>7, <1>8

\* write() goes on past a joint that no controller has claimed.
LEMMA SkipJointKeeps == CommandsIInv /\ SkipJoint => CommandsIInv'
<1>. SUFFICES ASSUME CommandsIInv, SkipJoint PROVE CommandsIInv'
  OBVIOUS
<1>. USE DEF SkipJoint, GoesOn, CommandsIInv, CommandsInv
<1>1. \A j \in JointSet : Mode(j)' = Mode(j)
  BY ModeFrame
<1>2. next \in 1..Len(Joints)
  BY CurrentIsJoint
<1>3. TypeOK'
  BY <1>1, <1>2 DEF TypeOK
<1>4. (PendingIsWhole /\ FieldsAreCurrent /\ ClaimsArePast /\ CurrentClaimOnly)'
  BY <1>1, <1>2 DEF PendingIsWhole, WholeModes, FieldsAreCurrent, ClaimsArePast, CurrentClaimOnly
<1>5. SentSoFar'
  BY <1>1, <1>2 DEF SentSoFar, Current, JointSet
<1>6. SkewAtMostOne'
  BY <1>1, <1>2 DEF SkewAtMostOne, InService, Returned
<1>. QED BY <1>3, <1>4, <1>5, <1>6

\* write() ends with the mobile bases, after every claimed joint was sent.
LEMMA WriteBasesKeeps == CommandsIInv /\ WriteBases => CommandsIInv'
<1>. SUFFICES ASSUME CommandsIInv, WriteBases PROVE CommandsIInv'
  OBVIOUS
<1>. USE DEF WriteBases, CommandsIInv, CommandsInv
<1>1. \A j \in JointSet : Mode(j)' = Mode(j)
  BY ModeFrame
<1>2. ASSUME NEW j \in JointSet, Mode(j) # None
      PROVE  /\ buffer[j] # None /\ buffer[j].mode = Mode(j)
             /\ buffer[j].epochs = {epoch} /\ buffer[j].cycle = cycle
  <2>1. buffer[j] = [mode |-> Mode(j), epochs |-> {epoch}, cycle |-> cycle]
    BY <1>2 DEF SentSoFar, JointSet
  <2>2. buffer[j] # None
    BY <1>2, <2>1, SentIsCommand
  <2>. QED BY ONLY <2>1, <2>2
<1>3. TypeOK'
  BY <1>1 DEF TypeOK
<1>4. (PendingIsWhole /\ FieldsAreCurrent /\ ClaimsArePast)'
  BY <1>1 DEF PendingIsWhole, WholeModes, FieldsAreCurrent, ClaimsArePast
<1>5. (CurrentClaimOnly /\ SentSoFar)'
  BY <1>1, <1>2 DEF CurrentClaimOnly, SentSoFar
<1>6. SkewAtMostOne'
  BY <1>1, <1>2 DEF SkewAtMostOne, InService, Returned
<1>. QED BY <1>3, <1>4, <1>5, <1>6

\* CommandsIInv is inductive.
LEMMA StepKeeps == CommandsIInv /\ [Next]_vars => CommandsIInv'
<1>. SUFFICES ASSUME CommandsIInv, [Next]_vars PROVE CommandsIInv'
  OBVIOUS
<1>1. CASE UNCHANGED vars
  <2>. USE <1>1 DEF vars, CommandsIInv, CommandsInv
  <2>1. \A j \in JointSet : Mode(j)' = Mode(j)
    BY ModeFrame
  <2>2. TypeOK'
    BY <2>1 DEF TypeOK
  <2>3. (PendingIsWhole /\ FieldsAreCurrent /\ ClaimsArePast)'
    BY <2>1 DEF PendingIsWhole, WholeModes, FieldsAreCurrent, ClaimsArePast
  <2>4. (SentSoFar /\ CurrentClaimOnly)'
    BY <2>1 DEF SentSoFar, CurrentClaimOnly
  <2>5. SkewAtMostOne'
    BY <2>1 DEF SkewAtMostOne, InService, Returned
  <2>. QED BY <2>2, <2>3, <2>4, <2>5
<1>. QED
  BY <1>1, OnActivateKeeps, OnDeactivateKeeps, PrepareKeeps, PerformKeeps, ControlKeeps,
     BeginWriteKeeps, WriteJointKeeps, SkipJointKeeps, WriteBasesKeeps DEF Next

-----------------------------------------------------------------------------
\* In every reachable state the variables have their types, a joint has the
\* interfaces of one whole mode or none, and what a write() under way has sent so
\* far was set since the last switch or activation.
THEOREM CommandsAreSound == Spec => []CommandsInv
<1>1. CommandsIInv => CommandsInv
  BY DEF CommandsIInv
<1>. QED BY <1>1, Initially, StepKeeps, PTL DEF Spec

\* Once a write() has returned since the last mode switch and the last activation,
\* the buffer holds for every claimed joint a command of its mode that was set since.
THEOREM NoStaleClaim == Spec => []CurrentClaimOnly
<1>1. CommandsInv => CurrentClaimOnly
  BY DEF CommandsInv
<1>. QED BY <1>1, CommandsAreSound, PTL

\* However a read of the buffer falls into a write(), the commands of the joints in
\* service (claimed, and a write() has returned since) and of the mobile bases are
\* of the present call or of the last one that returned.
THEOREM SkewIsAtMostOne == Spec => []SkewAtMostOne
<1>1. CommandsIInv => SkewAtMostOne
  BY DEF CommandsIInv
<1>. QED BY <1>1, Initially, StepKeeps, PTL DEF Spec
=============================================================================
