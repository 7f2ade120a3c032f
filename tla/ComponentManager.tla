-------------------------- MODULE ComponentManager --------------------------
(***************************************************************************)
(* The simulation's components and what the worker does to them in one     *)
(* execution: write the buffered commands, step the physics, update the    *)
(* components that are due.  Each is one critical section of               *)
(* runtime_mutex_, so resets and commands come between any two.            *)
(*                                                                         *)
(* A component's own sample and the map that snapshots are built from are  *)
(* two things: `sample' and `published'.  Both hold the simulation time of *)
(* the data; names are unique, so the manager's five maps are one here.    *)
(***************************************************************************)
EXTENDS Actuation, Sequences

CONSTANTS
  ConfigLists,     \* the component lists the simulation may be configured with
  Commands,        \* the commands callers write: name -> set of commands
  Batches,         \* the batches callers write: sets of name -> command
  Motions,         \* [q, v] of all actuated degrees of freedom
  Home,            \* the one of a fresh mjData
  TimeStep,        \* the model's timestep, in the unit of the periods
  MaxTime,         \* bound on mjData time
  None

Configurations == UNION {{list[i] : i \in DOMAIN list} : list \in ConfigLists}

\* What is read from a configuration file and from the model: finite numbers, which
\* only init() checks, and limits whose ends the model's compiler has ordered.
IsJoint(c) ==
  /\ c.actuator \in Actuator
  /\ {c.positionLimits, c.velocityLimits, c.effortLimits} \subseteq [min : Int, max : Int]
  /\ c.positionStiffness \in Int /\ c.positionDamping \in Int /\ c.velocityDamping \in Int
  /\ \A m \in Motions : m.q[c.name] \in Int /\ m.v[<<c.name, 0>>] \in Int

IsMobileBase(c) ==
  /\ c.coefficient \in Int
  /\ \A w \in Wheels : c.wheels[w].damping \in Int /\ c.wheels[w].actuator \in Actuator
  /\ \A m \in Motions : \A w \in Wheels : m.v[<<c.name, w>>] \in Int

IsConfiguration(c) ==
  /\ c.period \in Nat
  /\ c.kind = "joint" => IsJoint(c)
  /\ c.kind = "mobile_base" => IsMobileBase(c)

\* A command of either message: its numbers may be any double.
IsJointCommand(c) ==
  /\ c.mode \in JointControlMode
  /\ {c.position, c.velocity, c.effort, c.stiffness, c.damping} \subseteq Double

IsBaseCommand(c) ==
  \/ c.mode = "Twist" /\ {c.twist.x, c.twist.y, c.twist.yaw} \subseteq Double
  \/ c.mode \in {"WheelLinear", "WheelAngular"} /\ \A w \in Wheels : c.wheels[w] \in Double

IsCommand(c) == IsJointCommand(c) \/ IsBaseCommand(c)

ASSUME ComponentManagerAssumption ==
  /\ TimeStep \in Nat \ {0} /\ MaxTime \in Nat /\ Home \in Motions
  /\ \A c \in Configurations : IsConfiguration(c)
  /\ \A n \in DOMAIN Commands : \A c \in Commands[n] : IsCommand(c)
  /\ \A batch \in Batches : \A n \in DOMAIN batch : IsCommand(batch[n])

VARIABLES
  phase,      \* the worker's next critical section; "none" without components
  registry,   \* component_registry: name -> configuration
  nextTime,   \* next_time_ of each component
  sample,     \* state_ of each component: the time it was sampled at
  published,  \* joints_, mobile_bases_, imus_, lidars_, cameras_
  buffer,     \* command_buffer_: the latest command of each name
  time,       \* mjData time
  motion,     \* mjData qpos and qvel
  ctrl,       \* mjData ctrl, by <<joint, 0>> or <<mobile base, wheel>>
  latest      \* history: the latest time since initialize()

simulationVars == <<time, motion, latest>>
componentVars  == <<registry, nextTime, sample, published>>
vars == <<phase, componentVars, buffer, simulationVars, ctrl>>

Registered == DOMAIN registry
OfKind(kind) == {n \in Registered : registry[n].kind = kind}
Empty == [n \in {} |-> None]

(***************************************************************************)
(* Registration.                                                           *)
(***************************************************************************)
\* configure(): a component is updated at most once per physics step.
ValidSchedule(c) == c.period = 0 \/ c.period >= TimeStep

ValidJoint(c) ==
  /\ \A l \in {c.positionLimits, c.velocityLimits, c.effortLimits} : l.min <= l.max
  /\ c.positionStiffness >= 0 /\ c.positionDamping >= 0 /\ c.velocityDamping >= 0

ValidBase(c) == c.coefficient > 0 /\ \A w \in Wheels : c.wheels[w].damping > 0

\* The checks of every component's init(); `bound' stands for all that it
\* requires of the model: the names are found, with the types it expects.
Valid(c) ==
  /\ c.bound /\ ValidSchedule(c)
  /\ c.kind = "joint" => ValidJoint(c)
  /\ c.kind = "mobile_base" => ValidBase(c)

UniqueNames(list) == \A i, j \in DOMAIN list : list[i].name = list[j].name => i = j
Registers(list) == UniqueNames(list) /\ \A i \in DOMAIN list : Valid(list[i])

ActuatorIds(reg) == {<<n, 0>> : n \in {m \in DOMAIN reg : reg[m].kind = "joint"}}
  \union {<<n, w>> : n \in {m \in DOMAIN reg : reg[m].kind = "mobile_base"}, w \in Wheels}

\* The state a component has before its first update: a joint and a camera none.
FirstSample(c) == IF c.kind \in {"joint", "camera"} THEN None ELSE 0


StatesCleared == published' = Empty

Cleared ==
  /\ registry' = Empty /\ nextTime' = Empty /\ sample' = Empty /\ StatesCleared
  /\ buffer' = Empty /\ ctrl' = Empty /\ phase' = "none"

Init ==
  /\ registry = Empty /\ nextTime = Empty /\ sample = Empty /\ published = Empty
  /\ buffer = Empty /\ ctrl = Empty /\ phase = "none"
  /\ time = 0 /\ latest = 0 /\ motion = Home

\* Mutant: the first update comes after one period.
AfterOnePeriod(c) == c.period

\* configure() and reset_schedule(): due at once.
FirstDue(c) == 0

Initialize(list) ==
  /\ phase = "none" /\ Registers(list)
  /\ registry' = [n \in {list[i].name : i \in DOMAIN list} |->
                    CHOOSE c \in {list[i] : i \in DOMAIN list} : c.name = n]
  /\ nextTime' = [n \in DOMAIN registry' |-> FirstDue(registry'[n])]
  /\ sample' = [n \in DOMAIN registry' |-> FirstSample(registry'[n])]
  /\ StatesCleared /\ buffer' = Empty
  /\ time' = 0 /\ latest' = 0 /\ motion' = Home
  /\ ctrl' = [a \in ActuatorIds(registry') |-> 0]
  /\ phase' = "first"

InitializeFails(list) ==
  /\ phase = "none" /\ ~Registers(list)
  /\ Cleared /\ UNCHANGED simulationVars

Shutdown ==
  /\ phase = "write"
  /\ Cleared /\ UNCHANGED simulationVars

(***************************************************************************)
(* The command buffer: a command for one name joins those of the others, a *)
(* batch replaces them.                                                    *)
(***************************************************************************)
WriteOne(n, c) ==
  /\ phase \notin {"none", "first"}
  /\ buffer' = [m \in DOMAIN buffer \union {n} |-> IF m = n THEN c ELSE buffer[m]]
  /\ UNCHANGED <<phase, componentVars, simulationVars, ctrl>>

WriteBatch(batch) ==
  /\ phase \notin {"none", "first"}
  /\ buffer' = batch
  /\ UNCHANGED <<phase, componentVars, simulationVars, ctrl>>

(***************************************************************************)
(* The worker writes the buffered commands: the joints', in any order,     *)
(* then the mobile bases'.  The first that is rejected ends the execution. *)
(***************************************************************************)
ForBase(n) == buffer[n].mode \in MobileBaseControlMode

\* A command is accepted by a component of its name and kind.
Accepted(n) ==
  IF ForBase(n) THEN n \in OfKind("mobile_base") /\ BaseAccepts(buffer[n])
                      ELSE n \in OfKind("joint") /\ JointAccepts(buffer[n])

Good == {n \in DOMAIN buffer : Accepted(n)}
Bad  == DOMAIN buffer \ Good

ActuatorCtrl(n, w) ==
  IF w = 0 THEN JointCtrl(registry[n], buffer[n], motion.q[n], motion.v[<<n, 0>>])
  ELSE WheelCtrl(registry[n], w, WheelAngular(registry[n], buffer[n])[w], motion.v[<<n, w>>])

Written(done) == [a \in DOMAIN ctrl |-> IF a[1] \in done THEN ActuatorCtrl(a[1], a[2]) ELSE ctrl[a]]

WriteCommands ==
  /\ phase = "write" /\ Bad = {}
  /\ ctrl' = Written(Good)
  /\ phase' = "step"
  /\ UNCHANGED <<componentVars, buffer, simulationVars>>

WriteCommandsFails ==
  /\ phase = "write"
  /\ \E bad \in Bad, done \in SUBSET Good :
       /\ ForBase(bad) => \A n \in DOMAIN buffer : ~ForBase(n) => n \in done
       /\ ~ForBase(bad) => \A n \in done : ~ForBase(n)
       /\ ctrl' = Written(done)
  /\ UNCHANGED <<phase, componentVars, buffer, simulationVars>>

\* mj_step, and a reset of the mjData between any two critical sections.
StepPhysics ==
  /\ phase = "step" /\ time + TimeStep <= MaxTime
  /\ time' = time + TimeStep
  /\ latest' = IF time' > latest THEN time' ELSE latest
  /\ motion' \in Motions
  /\ phase' = "update"
  /\ UNCHANGED <<componentVars, buffer, ctrl>>

Reset ==
  /\ phase # "none" /\ phase # "first"
  /\ time' = 0 /\ motion' = Home
  /\ ctrl' = [a \in DOMAIN ctrl |-> 0]
  /\ UNCHANGED <<phase, componentVars, buffer, latest>>

(***************************************************************************)
(* The worker updates the components that are due.                         *)
(***************************************************************************)
IsDue(n) == registry[n].period = 0 \/ time >= nextTime[n]
Due == {n \in Registered : IsDue(n)}
DueCameras == Due \cap OfKind("camera")

\* Mutant: the period is counted from now instead of from the last due time.
FromNow(n) == time + registry[n].period

\* poll_update: whole periods are added until the next time is past this one.
NextDue(n) ==
  nextTime[n] + registry[n].period * ((time - nextTime[n]) \div registry[n].period + 1)

\* Mutant: a component is polled only when its turn to be updated has come.
PolledInTurn(done) == done

\* All components are polled before the first is updated.
Polled(done) == Due

Advanced(done) ==
  [n \in Registered |-> IF n \in Polled(done) /\ registry[n].period > 0 THEN NextDue(n) ELSE nextTime[n]]
Sampled(done) == [n \in Registered |-> IF n \in done THEN time ELSE sample[n]]

InUpdate == phase \in {"first", "update"}

Update ==
  /\ InUpdate
  /\ nextTime' = Advanced(Due)
  /\ sample' = Sampled(Due)
  /\ published' = [n \in Due \union DOMAIN published |-> IF n \in Due THEN sample'[n] ELSE published[n]]
  /\ phase' = "write"
  /\ UNCHANGED <<registry, buffer, simulationVars, ctrl>>

\* Only rendering can fail: the copy of the mjData for all cameras, before any
\* component is updated, or one camera, after all the others.
UpdateFails ==
  /\ InUpdate /\ DueCameras # {}
  /\ \E done \in {{}} \union {(Due \ DueCameras) \union c : c \in SUBSET DueCameras \ {DueCameras}} :
       IF phase = "first" THEN Cleared
       ELSE /\ nextTime' = Advanced(done)
            /\ sample' = Sampled(done)
            /\ phase' = "write"
            /\ UNCHANGED <<registry, published, buffer, ctrl>>
  /\ UNCHANGED simulationVars

-----------------------------------------------------------------------------
Next ==
  \/ \E list \in ConfigLists : Initialize(list) \/ InitializeFails(list)
  \/ Shutdown
  \/ \E n \in DOMAIN Commands : \E c \in Commands[n] : WriteOne(n, c)
  \/ \E batch \in Batches : WriteBatch(batch)
  \/ WriteCommands \/ WriteCommandsFails \/ StepPhysics \/ Reset
  \/ Update \/ UpdateFails

Spec == Init /\ [][Next]_vars

-----------------------------------------------------------------------------
Times == 0..MaxTime

TypeOK ==
  /\ phase \in {"none", "first", "write", "step", "update"}
  /\ DOMAIN nextTime = Registered /\ DOMAIN sample = Registered
  /\ \A n \in Registered : nextTime[n] \in Nat /\ sample[n] \in Times \union {None}
  /\ DOMAIN published \subseteq Registered
  /\ \A n \in DOMAIN published : published[n] \in Times
  /\ \A n \in DOMAIN buffer : IsCommand(buffer[n])
  /\ time \in Times /\ latest \in Times /\ motion \in Motions
  /\ DOMAIN ctrl = ActuatorIds(registry) /\ \A a \in DOMAIN ctrl : ctrl[a] \in Int

\* What is registered was configured, under its own name, and passed init().
RegisteredIsChecked ==
  \A n \in Registered :
    registry[n] \in Configurations /\ registry[n].name = n /\ Valid(registry[n])

\* Once initialize() has returned every component is in the maps, so that no
\* snapshot lacks one (publish_snapshot_to_channel would answer NotFound), through
\* failed updates, resets and rejected commands, until the components are cleared.
AllPresent ==
  DOMAIN published = IF phase \in {"none", "first"} THEN {} ELSE Registered

\* Before the first update everything is due; afterwards the components of one
\* rate are always due together, since all are polled before one is updated.
DueTogether ==
  /\ phase = "first" => \A n \in Registered : nextTime[n] = 0
  /\ \A m, n \in Registered : registry[m].period = registry[n].period => nextTime[m] = nextTime[n]

\* The type invariant, with what the maps hold.
ComponentsInv ==
  TypeOK /\ RegisteredIsChecked /\ AllPresent /\ DueTogether /\ time <= latest

\* The data of two components of one rate that a snapshot can hold are of the
\* same instant, also after an update in which one was sampled and another
\* failed (update() publishes the maps only when every due component succeeded).
SameRateTogether ==
  \A m, n \in DOMAIN published :
    registry[m].period = registry[n].period => published[m] = published[n]

\* The due times stay on the grid of the period, whatever the timestep, the
\* failures and the resets: no error accumulates, no component runs ahead of
\* the latest time by more than its period, none is due after it was polled.
NoDrift ==
  \A n \in Registered : registry[n].period > 0 =>
    /\ nextTime[n] % registry[n].period = 0
    /\ nextTime[n] <= latest + registry[n].period
    /\ phase \in {"write", "step"} => time < nextTime[n]

KeepsLimits(a, x) ==
  LET c == registry[a[1]]
      actuator == IF a[2] = 0 THEN c.actuator ELSE c.wheels[a[2]].actuator
  IN  /\ Consistent(actuator) => WithinActuator(actuator, x)
      /\ a[2] = 0 /\ ConsistentWith(actuator, c.effortLimits) =>
           x \in c.effortLimits.min .. c.effortLimits.max

\* What is in mjData.ctrl keeps every limit of its actuator, and of its joint,
\* in whatever mode it was commanded, across rejected commands and resets; but
\* for limits that contradict each other, which init() does not reject.
CtrlWithinLimits == \A a \in DOMAIN ctrl : ctrl[a] = 0 \/ KeepsLimits(a, ctrl[a])
=============================================================================
