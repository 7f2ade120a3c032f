---------------------------- MODULE JointCommands ----------------------------
(***************************************************************************)
(* How a controller's command reaches the command buffer: the command      *)
(* interfaces that controllers claim, the mode switch in two steps, and    *)
(* the write() that sends the commands of the joints one after the other   *)
(* while the simulation's worker may read the buffer in between.           *)
(*                                                                         *)
(* What a command says is left out; what is kept of each of its fields is  *)
(* when it was last set, by the controller or by                           *)
(* initialize_command_buffers: after which of the mode switches and        *)
(* activations, which are counted together as epochs.  The controller      *)
(* manager of ros2_control is the environment: it calls one operation at a *)
(* time.                                                                   *)
(***************************************************************************)
EXTENDS Integers, Sequences

CONSTANTS
  Joints,        \* config_.joints, in the order of write()
  Supported,     \* the command interfaces of each joint
  Requests,      \* the mode switches that are asked for: [start, stop]
  MaxCycle,      \* bound on the calls of write()
  MaxEpoch,      \* bound on the mode switches and activations
  None

JointSet == {Joints[i] : i \in DOMAIN Joints}
Interfaces == {"position", "velocity", "effort", "stiffness", "damping"}
ASSUME JointCommandsAssumption ==
  /\ Joints \in Seq(JointSet) /\ MaxCycle \in Nat /\ MaxEpoch \in Nat
  /\ Supported \in [JointSet -> SUBSET Interfaces]

VARIABLES
  lifecycle,  \* "inactive" or "active"
  active,     \* active_joint_interfaces_
  pending,    \* pending_mode_switch_: the next interfaces, or None if not valid
  fields,     \* joint.command: the epoch in which each field was set
  next,       \* the index in Joints that write() comes to next, 0 outside of it
  cycle,      \* history: the calls of write()
  epoch,      \* history: the mode switches performed and the activations
  claimedAt,  \* history: the calls of write() before each joint's interfaces last changed
  buffer,     \* command_buffer_, by joint
  base,       \* history: the call of write() that sent the mobile bases' commands
  settled     \* history: a write() has returned since the last switch or activation

claimVars == <<active, pending, claimedAt>>
sentVars  == <<buffer, base, cycle, next, settled>>
vars == <<lifecycle, claimVars, epoch, fields, sentVars>>

(***************************************************************************)
(* The sets of interfaces that are a control mode.                         *)
(***************************************************************************)
Modes == {"Position", "Velocity", "Effort", "Hybrid"}

\* What the buffer keeps of a joint's command.
Command == [mode : Modes, epochs : SUBSET (0..MaxEpoch), cycle : 1..MaxCycle]
ASSUME NoneAssumption == None \notin Command

ModeOf(set) ==
  CASE set = {"position"} -> "Position"
    [] set = {"velocity"} -> "Velocity"
    [] set = {"effort"}   -> "Effort"
    [] set = Interfaces   -> "Hybrid"
    [] OTHER -> None
Mode(j) == ModeOf(active[j])

\* The fields that the component's control law uses in a mode.
Used(mode) ==
  CASE mode = "Position" -> {"position"}
    [] mode = "Velocity" -> {"velocity"}
    [] mode = "Effort"   -> {"effort"}
    [] mode = "Hybrid"   -> Interfaces
    [] OTHER -> {}

Init ==
  /\ lifecycle = "inactive"
  /\ active = [j \in JointSet |-> {}] /\ pending = None
  /\ epoch = 0 /\ claimedAt = [j \in JointSet |-> 0]
  /\ fields = [j \in JointSet |-> [i \in Interfaces |-> 0]]
  /\ buffer = [j \in JointSet |-> None]
  /\ base = 0 /\ cycle = 0 /\ next = 0 /\ settled = TRUE

\* Mutant: the fields keep what the last controller left in them.
NotInitialized(set, e) == fields

\* The fields of every joint's mode are set, also of a joint that the switch does
\* not name, and the gains in any case.
Initialized(set, e) ==
  [j \in JointSet |-> [i \in Interfaces |->
     IF i \in Used(ModeOf(set[j])) \union {"stiffness", "damping"} THEN e ELSE fields[j][i]]]

Idle == next = 0

OnActivate ==
  /\ Idle /\ lifecycle = "inactive"
  /\ lifecycle' = "active"
  /\ epoch < MaxEpoch /\ epoch' = epoch + 1
  /\ fields' = Initialized(active, epoch') /\ settled' = FALSE
  /\ UNCHANGED <<claimVars, buffer, base, cycle, next>>

\* All interfaces are released, and a switch that was prepared is forgotten.
OnDeactivate ==
  /\ Idle /\ lifecycle = "active"
  /\ lifecycle' = "inactive"
  /\ active' = [j \in JointSet |-> {}] /\ pending' = None
  /\ UNCHANGED <<claimedAt, epoch, fields, sentVars>>

(***************************************************************************)
(* The mode switch.                                                        *)
(***************************************************************************)
Known(requested) == \A r \in requested : r[1] \in JointSet /\ r[2] \in Supported[r[1]]

NextInterfaces(request) ==
  [j \in JointSet |-> (active[j] \ {i \in Interfaces : <<j, i>> \in request.stop})
                      \union {i \in Interfaces : <<j, i>> \in request.start}]


\* Every joint is left with the interfaces of one mode, or with none.
WholeModes(set) == \A j \in JointSet : set[j] # {} => ModeOf(set[j]) # None

PrepareCommandModeSwitch(request) ==
  /\ Idle
  /\ pending' = IF /\ Known(request.start) /\ Known(request.stop)
                   /\ WholeModes(NextInterfaces(request))
                THEN NextInterfaces(request) ELSE None
  /\ UNCHANGED <<lifecycle, active, claimedAt, epoch, fields, sentVars>>

PerformCommandModeSwitch ==
  /\ Idle /\ pending # None
  /\ active' = pending /\ pending' = None
  /\ claimedAt' = [j \in JointSet |-> IF active'[j] # active[j] THEN cycle ELSE claimedAt[j]]
  /\ epoch < MaxEpoch /\ epoch' = epoch + 1
  /\ fields' = Initialized(active', epoch') /\ settled' = FALSE
  /\ UNCHANGED <<lifecycle, buffer, base, cycle, next>>

\* A controller sets the interfaces it has claimed.
Control(j) ==
  /\ Idle /\ lifecycle = "active" /\ active[j] # {}
  /\ fields' = [fields EXCEPT ![j] = [i \in Interfaces |-> IF i \in active[j] THEN epoch ELSE @[i]]]
  /\ UNCHANGED <<lifecycle, claimVars, epoch, sentVars>>

(***************************************************************************)
(* write().                                                                *)
(***************************************************************************)
\* The controller manager calls write() of an inactive hardware too.
BeginWrite ==
  /\ Idle /\ cycle < MaxCycle
  /\ next' = 1 /\ cycle' = cycle + 1
  /\ UNCHANGED <<lifecycle, claimVars, epoch, fields, buffer, base, settled>>

Current == Joints[next]
InWrite == next \in DOMAIN Joints

\* When what the control law will use of a command was set.
Epochs(j) == {fields[j][i] : i \in Used(Mode(j))}

WriteJoint ==
  /\ InWrite /\ Mode(Current) # None
  /\ buffer' = [buffer EXCEPT ![Current] =
       [mode |-> Mode(Current), epochs |-> Epochs(Current), cycle |-> cycle]]
  /\ next' = next + 1
  /\ UNCHANGED <<lifecycle, claimVars, epoch, fields, base, cycle, settled>>

\* Mutant: write() ends at a joint that no controller has claimed.
EndsThere == Len(Joints) + 1

GoesOn == next + 1

SkipJoint ==
  /\ InWrite /\ Mode(Current) = None
  /\ next' = GoesOn
  /\ UNCHANGED <<lifecycle, claimVars, epoch, fields, buffer, base, cycle, settled>>

WriteBases ==
  /\ next = Len(Joints) + 1
  /\ base' = cycle /\ next' = 0 /\ settled' = TRUE
  /\ UNCHANGED <<lifecycle, claimVars, epoch, fields, buffer, cycle>>

-----------------------------------------------------------------------------
Next ==
  \/ OnActivate \/ OnDeactivate
  \/ \E request \in Requests : PrepareCommandModeSwitch(request)
  \/ PerformCommandModeSwitch
  \/ \E j \in JointSet : Control(j)
  \/ BeginWrite \/ WriteJoint \/ SkipJoint \/ WriteBases

Spec == Init /\ [][Next]_vars

-----------------------------------------------------------------------------
\* The type invariant; a joint has the interfaces of one whole mode or none.
TypeOK ==
  /\ lifecycle \in {"inactive", "active"}
  /\ active \in [JointSet -> SUBSET Interfaces] /\ \A j \in JointSet : active[j] # {} => Mode(j) # None
  /\ pending = None \/ pending \in [JointSet -> SUBSET Interfaces]
  /\ epoch \in 0..MaxEpoch /\ claimedAt \in [JointSet -> 0..MaxCycle]
  /\ fields \in [JointSet -> [Interfaces -> 0..MaxEpoch]]
  /\ buffer \in [JointSet -> Command \union {None}]
  /\ next \in 0..Len(Joints) + 1 /\ cycle \in 0..MaxCycle /\ base \in 0..MaxCycle
  /\ next > 0 => cycle > 0
  /\ settled \in BOOLEAN

\* Nothing that was left in a joint's fields outlives a mode switch or an
\* activation: once a write() has returned since, what the buffer holds for every
\* claimed joint is of the joint's mode and was set since, also when its
\* controller has not set it yet and when the joint went from one controller to
\* another in the same mode (initialize_command_buffers sets the fields of every
\* joint's mode).  Until that write() comes to the joint, the buffer holds what
\* was sent before.
CurrentClaimOnly ==
  settled => \A j \in JointSet : Mode(j) # None =>
    buffer[j] # None /\ buffer[j].mode = Mode(j) /\ buffer[j].epochs = {epoch}

(***************************************************************************)
(* What the two properties rest on.                                        *)
(***************************************************************************)
\* A switch that is prepared leaves every joint in a whole mode.
PendingIsWhole == pending # None => WholeModes(pending)

\* The fields that a mode uses were set since the last switch or activation.
FieldsAreCurrent ==
  \A j \in JointSet : Mode(j) # None => \A i \in Used(Mode(j)) : fields[j][i] = epoch

\* No joint's interfaces changed in the future.
ClaimsArePast == \A j \in JointSet : claimedAt[j] <= cycle

\* A write() under way has sent what it came past.
SentSoFar ==
  \A k \in DOMAIN Joints : k < next /\ Mode(Joints[k]) # None =>
    buffer[Joints[k]] = [mode |-> Mode(Joints[k]), epochs |-> {epoch}, cycle |-> cycle]

\* The type invariant, with what write() leaves in the buffer.
CommandsInv ==
  /\ TypeOK /\ PendingIsWhole /\ FieldsAreCurrent /\ ClaimsArePast /\ SentSoFar /\ CurrentClaimOnly

\* The calls of write() that have returned.
Returned == IF Idle THEN cycle ELSE cycle - 1

\* A claimed joint is in service once a write() that began under its present
\* interfaces has returned.
InService(j) == Mode(j) # None /\ claimedAt[j] < Returned

\* However the worker reads the buffer while write() is under way, what it gets
\* for the joints in service, in the modes they are in, and for the mobile bases is of
\* the present call or of the last one that returned, whatever the other joints'
\* claims are.  A joint that is released, and one that is claimed until its first
\* write() has returned, keeps in the buffer what it was last sent, however long
\* ago.
SkewAtMostOne ==
  /\ \A j \in JointSet : InService(j) =>
       buffer[j] # None /\ buffer[j].mode = Mode(j) /\ buffer[j].cycle \in {Returned, cycle}
  /\ base = Returned
=============================================================================
