----------------------------- MODULE Simulation -----------------------------
(***************************************************************************)
(* mujoco_simulation/src/simulation.cpp: the object that owns the MuJoCo   *)
(* data, the buffers, the components and the viewer, and hands the worker  *)
(* of the scheduler the task scheduler_run_task.                           *)
(*                                                                         *)
(* The scheduler is taken from its abstract specification, which           *)
(* SimulationScheduler implements.  One action is one critical section of  *)
(* runtime_mutex_ or viewer_mutex_.  Both are released where they are      *)
(* taken, except that start_viewer keeps runtime_mutex_ while the render   *)
(* thread comes up and the worker keeps viewer_mutex_ while it syncs.      *)
(*                                                                         *)
(* One control operation is in progress at a time (the callers hold        *)
(* simulation_control_mutex_, see SimulationScheduler).  Commands come     *)
(* from any thread at any time.                                            *)
(***************************************************************************)
EXTENDS Naturals

CONSTANTS
  Configs,     \* configurations that initialize() may be given
  MaxStep,     \* bound: physics steps between an initialize() and a shutdown()
  MaxReset,    \* bound: resets
  MaxCommand,  \* bound: commands written
  Worker,      \* the scheduler's thread
  NoThread

ASSUME BoundsAssumption ==
  /\ Configs \subseteq [viewer : BOOLEAN, period : Nat]
  /\ {MaxStep, MaxReset, MaxCommand} \subseteq Nat
  /\ Worker # NoThread

VARIABLES
  status, live, granted, executing,  \* the scheduler, as SchedulerLifecycle has it
  built,       \* runtime_, scheduler_ and the buffers exist
  config,      \* config_: whether render_mode is Viewer, and the update period of the
               \* sensor component, in physics steps (0: always due)
  pc,          \* where the control operation in progress is, or "idle"
  phase,       \* where the worker is in scheduler_run_task, or "idle"
  time,        \* mjData time, in physics steps
  epoch,       \* history: resets of the mjData so far
  ctrl,        \* the command in mjData.ctrl
  cmd,         \* the command in command_buffer_
  begun,       \* history: cmd.version and epoch when the current execution began
  step,        \* step_
  sequence,    \* sequence_
  nextTime,    \* next_time_ of the sensor component
  sample,      \* what the sensor component has cached; history: missed says that an
               \* update that failed should have replaced it
  snapshot,    \* what state_buffer_ holds
  observer,    \* snapshot_observer_ is set
  taken,       \* write_state_snapshot took it, with the snapshot, out of runtime_mutex_
  observed,    \* history: sequence of the last snapshot given to the observer, or made
               \* before there was one
  viewer,      \* viewer_: "none", "ready", or "closed" by the user
  failed       \* runtime_failed_

schedulerVars == <<status, live, granted, executing>>
objectVars    == <<built, config>>
dataVars      == <<time, epoch, ctrl>>
observerVars  == <<observer, taken, observed>>
recordVars    == <<step, sequence, nextTime, sample, snapshot, observerVars>>
vars == <<schedulerVars, objectVars, pc, phase, dataVars, cmd, begun, recordVars,
          viewer, failed>>

Scheduler == INSTANCE SchedulerLifecycle WITH Executors <- {Worker}

ControlLocations ==
  {"idle", "start", "startViewer", "viewerStarting", "storeViewer", "clearFailed",
   "spawn", "stop", "reap", "unfail", "stopViewer", "teardown"}
Phases ==
  {"idle", "commands", "physics", "components", "snapshot", "observe", "viewerDue",
   "viewer", "sync", "markFailed", "report"}

\* A command remembers how often the data had been reset when it was written.
Commands  == [version : 0..MaxCommand, epoch : 0..MaxReset]
NoCommand == [version |-> 0, epoch |-> 0]
Samples   == [time : 0..MaxStep, epoch : 0..MaxReset, missed : BOOLEAN]
NewSample == [time |-> time, epoch |-> epoch, missed |-> FALSE]
NoSample  == [time |-> 0, epoch |-> 0, missed |-> FALSE]
Snapshots == [sequence : 0..MaxStep + 1, step : 0..MaxStep, time : 0..MaxStep,
              epoch : 0..MaxReset, sample : Samples]
NoSnapshot == [sequence |-> 0, step |-> 0, time |-> 0, epoch |-> 0,
               sample |-> NoSample]

Init ==
  /\ Scheduler!LifecycleInit
  /\ built = FALSE /\ config \in Configs
  /\ pc = "idle" /\ phase = "idle"
  /\ time = 0 /\ epoch = 0 /\ ctrl = NoCommand
  /\ cmd = NoCommand /\ begun = NoCommand
  /\ step = 0 /\ sequence = 0 /\ nextTime = 0
  /\ sample = NoSample /\ snapshot = NoSnapshot
  /\ observer = FALSE /\ taken = FALSE /\ observed = 0
  /\ viewer = "none" /\ failed = FALSE

\* Mutant: start() looks at viewer_ while it holds runtime_mutex_.
RuntimeNested == pc \notin {"viewerStarting", "start"}
RuntimeFree == pc # "viewerStarting"   \* runtime_mutex_ can be taken
ViewerFree  == phase # "sync"          \* viewer_mutex_ can be taken

(***************************************************************************)
(* Control operations.                                                     *)
(***************************************************************************)
PcGoto(from, to) == built /\ pc = from /\ pc' = to
KeepRecords == UNCHANGED <<objectVars, phase, dataVars, cmd, begun, recordVars>>

\* initialize() builds everything and takes the first snapshot, or leaves the
\* object as it was: every failure ends in shutdown().  Nobody else has the
\* object yet, nor has an observer seen that snapshot unless it was set before.
Initialize ==
  /\ ~built /\ pc = "idle"
  /\ built' = TRUE
  /\ Scheduler!Configure
  /\ config' \in Configs
  /\ viewer' = IF config'.viewer THEN "ready" ELSE "none"
  /\ time' = 0 /\ ctrl' = NoCommand /\ sequence' = 1
  /\ nextTime' = config'.period
  /\ sample' = [NoSample EXCEPT !.epoch = epoch]
  /\ snapshot' = [NoSnapshot EXCEPT !.sequence = 1, !.epoch = epoch, !.sample = sample']
  /\ observed' = IF observer THEN 1 ELSE 0
  /\ UNCHANGED <<pc, phase, epoch, cmd, begun, step, observer, taken, failed>>

Call(loc) ==
  /\ PcGoto("idle", loc)
  /\ UNCHANGED <<schedulerVars, viewer, failed>> /\ KeepRecords

\* start(): a missing viewer is created first.
StartLooks ==
  /\ PcGoto("start", IF config.viewer /\ viewer = "none" THEN "startViewer" ELSE "spawn")
  /\ config.viewer => ViewerFree
  /\ UNCHANGED <<schedulerVars, viewer, failed>> /\ KeepRecords

\* viewer->start waits under runtime_mutex_ until the viewer is ready, or times out.
StartViewer ==
  /\ \/ PcGoto("startViewer", "viewerStarting")
     \/ \E to \in {"storeViewer", "idle"} : PcGoto("viewerStarting", to)
  /\ UNCHANGED <<schedulerVars, viewer, failed>> /\ KeepRecords

StoreViewer ==
  /\ PcGoto("storeViewer", "clearFailed")
  /\ ViewerFree
  /\ viewer' = "ready"
  /\ UNCHANGED <<schedulerVars, failed>> /\ KeepRecords

ClearFailed ==
  /\ PcGoto("clearFailed", "spawn")
  /\ failed' = FALSE
  /\ UNCHANGED <<schedulerVars, viewer>> /\ KeepRecords

SpawnWorker ==
  /\ PcGoto("spawn", "idle")
  /\ Scheduler!Spawn \/ UNCHANGED schedulerVars
  /\ UNCHANGED <<viewer, failed>> /\ KeepRecords

PauseOrResume(from, to) ==
  /\ PcGoto("idle", "idle")
  /\ Scheduler!Become({from}, to)
  /\ UNCHANGED <<viewer, failed>> /\ KeepRecords

\* stop(): scheduler_->stop() first, with no lock held ...
StopScheduler ==
  /\ IF status = "Stopped" THEN PcGoto("stop", "unfail") ELSE PcGoto("stop", "reap")
  /\ \/ Scheduler!Become({"Running", "Paused"}, "Stopping")
     \/ status \in {"Stopped", "Error"} /\ UNCHANGED schedulerVars
  /\ UNCHANGED <<viewer, failed>> /\ KeepRecords

JoinWorker ==
  /\ pc = "reap" /\ phase = "idle"
  /\ Scheduler!Reap
  /\ UNCHANGED <<pc, viewer, failed>> /\ KeepRecords

SchedulerStopped ==
  /\ PcGoto("reap", "unfail")
  /\ Scheduler!StopReturns
  /\ UNCHANGED <<viewer, failed>> /\ KeepRecords

\* ... then runtime_failed_, then the viewer.
Unfail ==
  /\ PcGoto("unfail", "stopViewer")
  /\ failed' = FALSE
  /\ UNCHANGED <<schedulerVars, viewer>> /\ KeepRecords

StopViewer ==
  /\ \E to \in {"idle", "teardown"} : PcGoto("stopViewer", to)
  /\ ViewerFree
  /\ viewer' = "none"
  /\ UNCHANGED <<schedulerVars, failed>> /\ KeepRecords

\* The rest of shutdown(), after its stop() and stop_viewer().
TearDown ==
  /\ PcGoto("teardown", "idle")
  /\ built' = FALSE /\ UNCHANGED config
  /\ Scheduler!Configure
  /\ cmd' = NoCommand /\ step' = 0 /\ sequence' = 0 /\ observed' = 0
  /\ snapshot' = NoSnapshot /\ failed' = FALSE
  /\ UNCHANGED <<phase, dataVars, begun, nextTime, sample, observer, taken, viewer>>

\* The adapter sets its observer once, after initialize(); nothing takes it away.
SetSnapshotObserver ==
  /\ ~observer /\ RuntimeFree
  /\ observer' = TRUE /\ observed' = sequence
  /\ UNCHANGED <<schedulerVars, objectVars, pc, phase, dataVars, cmd, begun, step, sequence,
                 nextTime, sample, snapshot, taken, viewer, failed>>

\* reset() and reset(keyframe): only the mjData, in the caller's thread.
Reset ==
  /\ PcGoto("idle", "idle") /\ RuntimeFree
  /\ epoch < MaxReset
  /\ time' = 0 /\ ctrl' = NoCommand /\ epoch' = epoch + 1
  /\ UNCHANGED <<schedulerVars, objectVars, phase, cmd, begun, recordVars, viewer, failed>>

WriteCommand ==
  /\ built /\ RuntimeFree
  /\ cmd.version < MaxCommand
  /\ cmd' = [version |-> cmd.version + 1, epoch |-> epoch]
  /\ UNCHANGED <<schedulerVars, objectVars, pc, phase, dataVars, begun, recordVars, viewer, failed>>

(***************************************************************************)
(* The worker: scheduler_run_task.                                         *)
(***************************************************************************)
Phase(from, to) ==
  /\ phase = from /\ phase' = to
  /\ UNCHANGED <<objectVars, pc, cmd, epoch>>

KeepScheduler == UNCHANGED schedulerVars

\* A part that returns false or throws ends the execution; the scheduler then
\* reports Error.
FailsIn(from) ==
  /\ Phase(from, "report")
  /\ Scheduler!End(Worker)
  /\ UNCHANGED <<time, begun, viewer>>

\* MaxStep stops granting executions; the code has no such limit.
GrantExecution ==
  /\ phase = "idle" /\ step < MaxStep
  /\ Scheduler!Grant
  /\ UNCHANGED <<objectVars, pc, phase, dataVars, cmd, begun, recordVars, viewer, failed>>

BeginExecution ==
  /\ Phase("idle", "commands")
  /\ Scheduler!Begin(Worker)
  /\ begun' = [version |-> cmd.version, epoch |-> epoch]
  /\ UNCHANGED <<dataVars, recordVars, viewer, failed>>

Latest == IF cmd = NoCommand THEN ctrl ELSE cmd
OneBehind == ctrl                      \* mutant: the buffer is not read
Flushed == Latest

WriteCommands ==
  /\ Phase("commands", "physics") /\ RuntimeFree
  /\ ctrl' = Flushed
  /\ KeepScheduler /\ UNCHANGED <<time, begun, recordVars, viewer, failed>>

StepUncounted == step                  \* mutant: ++step_ is missing
NextStep == step + 1

StepPhysics ==
  /\ Phase("physics", "components") /\ RuntimeFree
  /\ time' = time + 1
  /\ step' = NextStep
  /\ KeepScheduler
  /\ UNCHANGED <<ctrl, begun, sequence, nextTime, sample, snapshot, observerVars, viewer, failed>>

\* Mutant: a component is due only after its next time.
LateDue == config.period = 0 \/ time > nextTime

\* poll_update: a due component moves its next time past the current one.
Due == config.period = 0 \/ time >= nextTime
NextDue == IF config.period = 0 THEN 0
           ELSE nextTime + config.period * ((time - nextTime) \div config.period + 1)

UpdateComponents ==
  /\ Phase("components", "snapshot") /\ RuntimeFree
  /\ IF Due THEN sample' = NewSample /\ nextTime' = NextDue
            ELSE UNCHANGED <<sample, nextTime>>
  /\ KeepScheduler /\ UNCHANGED <<time, ctrl, begun, step, sequence, snapshot, observerVars, viewer, failed>>

\* The next times are advanced before any component can fail to update.
UpdateFails ==
  /\ FailsIn("components") /\ RuntimeFree
  /\ IF Due THEN sample' = [sample EXCEPT !.missed = TRUE] /\ nextTime' = NextDue
            ELSE UNCHANGED <<sample, nextTime>>
  /\ UNCHANGED <<step, sequence, snapshot, observerVars, ctrl, failed>>

WriteSnapshot ==
  /\ Phase("snapshot", "observe") /\ RuntimeFree
  /\ sequence' = sequence + 1
  /\ snapshot' = [sequence |-> sequence', step |-> step, time |-> time, epoch |-> epoch,
                  sample |-> sample]
  /\ taken' = observer
  /\ KeepScheduler /\ UNCHANGED <<time, ctrl, begun, step, nextTime, sample, observer, observed,
                                 viewer, failed>>

Seen == IF taken THEN snapshot.sequence ELSE observed

\* The observer runs with no lock held, on the snapshot that was just written.
Observe ==
  /\ Phase("observe", "viewerDue")
  /\ observed' = Seen /\ taken' = FALSE
  /\ KeepScheduler /\ UNCHANGED <<time, ctrl, begun, step, sequence, nextTime, sample, snapshot,
                                 observer, viewer, failed>>

EarlySequence == sequence + 1          \* mutant: a snapshot that fails has its number
SameSequence  == sequence

\* The components before the one that rejects its command have written theirs.
WriteCommandsFails ==
  /\ FailsIn("commands") /\ RuntimeFree
  /\ ctrl' \in {ctrl, Latest}
  /\ UNCHANGED <<recordVars, failed>>

\* No memory for the snapshot: std::make_shared throws.
WriteSnapshotFails ==
  /\ FailsIn("snapshot") /\ RuntimeFree
  /\ sequence' = SameSequence
  /\ UNCHANGED <<step, nextTime, sample, snapshot, observerVars, ctrl, failed>>

\* The observer throws.
ObserveFails ==
  /\ FailsIn("observe") /\ taken
  /\ observed' = Seen /\ taken' = FALSE
  /\ UNCHANGED <<step, sequence, nextTime, sample, snapshot, observer, ctrl, failed>>

Completes(from) ==
  /\ Phase(from, "idle")
  /\ Scheduler!End(Worker)
  /\ UNCHANGED <<dataVars, begun, recordVars, viewer>>

\* Whether the viewer is due depends on the wall clock.
NotDue == Completes("viewerDue") /\ RuntimeFree /\ UNCHANGED failed

ViewerDue ==
  /\ Phase("viewerDue", "viewer") /\ RuntimeFree
  /\ KeepScheduler /\ UNCHANGED <<dataVars, begun, recordVars, viewer, failed>>

NoViewer == Completes("viewer") /\ viewer = "none" /\ UNCHANGED failed

\* A viewer that was closed, or whose sync fails, is taken out of viewer_.
ViewerLost ==
  /\ Phase("viewer", "markFailed")
  /\ viewer \in {"ready", "closed"}
  /\ viewer' = "none"
  /\ KeepScheduler /\ UNCHANGED <<dataVars, begun, recordVars, failed>>

SyncViewer ==
  /\ Phase("viewer", "sync") /\ viewer = "ready"
  /\ KeepScheduler /\ UNCHANGED <<dataVars, begun, recordVars, viewer, failed>>

\* next_sync_time_ is set under runtime_mutex_, inside viewer_mutex_.
SyncDone == Completes("sync") /\ RuntimeFree /\ UNCHANGED failed

\* Mutant: the execution succeeds although the viewer is lost.
CarryOn == Completes("markFailed")
FailMarked == FailsIn("markFailed") /\ UNCHANGED <<ctrl, recordVars>>

MarkFailed ==
  /\ FailMarked /\ RuntimeFree
  /\ failed' = TRUE

ReportError ==
  /\ Phase("report", "idle")
  /\ Scheduler!Fail
  /\ UNCHANGED <<dataVars, begun, recordVars, viewer, failed>>

RetireWorker ==
  /\ phase = "idle"
  /\ Scheduler!Retire
  /\ UNCHANGED <<objectVars, pc, phase, dataVars, cmd, begun, recordVars, viewer, failed>>

\* The user closes the window.
UserClosesViewer ==
  /\ viewer = "ready"
  /\ viewer' = "closed"
  /\ UNCHANGED <<schedulerVars, objectVars, pc, phase, dataVars, cmd, begun, recordVars, failed>>

-----------------------------------------------------------------------------
Control ==
  \/ StartLooks \/ StartViewer \/ StoreViewer \/ ClearFailed \/ SpawnWorker
  \/ StopScheduler \/ JoinWorker \/ SchedulerStopped \/ Unfail \/ StopViewer
  \/ TearDown

Execution ==
  \/ BeginExecution \/ WriteCommands \/ WriteCommandsFails
  \/ StepPhysics \/ UpdateComponents \/ UpdateFails
  \/ WriteSnapshot \/ WriteSnapshotFails \/ Observe \/ ObserveFails
  \/ NotDue \/ ViewerDue \/ NoViewer \/ ViewerLost \/ SyncViewer \/ SyncDone
  \/ MarkFailed \/ ReportError \/ RetireWorker

Next ==
  \/ Initialize \/ Call("start") \/ Call("stop")
  \/ PauseOrResume("Running", "Paused") \/ PauseOrResume("Paused", "Running")
  \/ SetSnapshotObserver \/ Reset \/ WriteCommand \/ UserClosesViewer
  \/ Control \/ GrantExecution \/ Execution

\* An operation that has begun and an execution that has begun go on.
Fairness == WF_vars(Control) /\ WF_vars(Execution)

Spec == Init /\ [][Next]_vars
FairSpec == Spec /\ Fairness

-----------------------------------------------------------------------------
(***************************************************************************)
(* Properties.                                                             *)
(***************************************************************************)
LifecycleTypes ==
  /\ status \in Scheduler!SimulationStatus
  /\ live \in BOOLEAN /\ granted \in BOOLEAN /\ executing \in {Worker, NoThread}
  /\ built \in BOOLEAN /\ failed \in BOOLEAN
  /\ config \in Configs
  /\ pc \in ControlLocations /\ phase \in Phases
  /\ viewer \in {"none", "ready", "closed"}

DataTypes ==
  /\ time \in 0..MaxStep /\ epoch \in 0..MaxReset
  /\ ctrl \in Commands /\ cmd \in Commands /\ begun \in Commands

RecordTypes ==
  /\ step \in 0..MaxStep /\ sequence \in 0..MaxStep + 1 /\ observed \in 0..MaxStep + 1
  /\ nextTime \in Nat /\ observer \in BOOLEAN /\ taken \in BOOLEAN
  /\ sample \in Samples /\ snapshot \in Snapshots

TypeOK == LifecycleTypes /\ DataTypes /\ RecordTypes

\* From when it is set the observer is given every snapshot exactly once and in
\* order, across pauses, resets, stops and failed executions (write_state_snapshot
\* calls it after it has released runtime_mutex_).  The one that initialize() made
\* before it was set it is never given.
EverySnapshotObserved ==
  /\ taken => observer /\ phase = "observe"
  /\ observer => observed = IF taken THEN sequence - 1 ELSE sequence

\* Every snapshot that state_buffer_ takes is of a later step than the one it
\* replaces, and time runs backwards only across a reset.
SnapshotsAdvance ==
  [][snapshot' # snapshot /\ snapshot.sequence > 0 /\ snapshot'.sequence > 0 =>
       /\ snapshot'.step > snapshot.step
       /\ snapshot'.epoch = snapshot.epoch => snapshot'.time > snapshot.time]_vars

\* A physics step is driven by a command no older than the one that was in the
\* buffer when its execution began; only a reset in between leaves it none.
LatestCommandDrives ==
  [][step' > step => \/ ctrl.version >= begun.version
                     \/ ctrl = NoCommand /\ epoch > begun.epoch]_vars

\* Component data in a snapshot is never from after the snapshot's time, and
\* lags behind it by less than the component's period, unless a reset came
\* between the two or an update failed when it was due.
SnapshotCoherent ==
  snapshot.sample.epoch = snapshot.epoch =>
    /\ snapshot.sample.time <= snapshot.time
    /\ \/ snapshot.sample.missed
       \/ snapshot.time - snapshot.sample.time < (IF config.period = 0 THEN 1 ELSE config.period)

\* An execution owes its permission to the live worker, and no other thread
\* than the scheduler's is ever in the task.
ExecutionIsGranted ==
  /\ executing = IF phase \in {"idle", "report"} THEN NoThread ELSE Worker
  /\ executing = Worker => granted
  /\ phase = "report" => ~granted
  /\ granted \/ phase # "idle" => live

\* What the state of the scheduler says of its worker and of the operation in
\* progress: the object goes only with no worker left.
StatusTells ==
  /\ status = "Uninitialized" <=> ~built
  /\ status \in {"Running", "Paused", "Stopping"} => live
  /\ status \in {"Uninitialized", "Stopped", "Error"} => ~granted /\ phase = "idle"
  /\ status = "Uninitialized" => ~live /\ pc = "idle"
  /\ status = "Stopping" \/ (status = "Stopped" /\ live) => pc = "reap"
  /\ pc = "reap" => status \in {"Stopping", "Stopped", "Error"}
  /\ pc \in {"unfail", "stopViewer", "teardown"} => status = "Stopped" /\ ~live

\* runtime_failed_ overrides the scheduler's status in status(): it is never
\* set beside a worker that goes on executing, and gone before the next start.
FailedWorkerEnds ==
  /\ failed /\ status \in {"Running", "Paused", "Stopping"} => phase = "report"
  /\ failed /\ status = "Stopped" => pc = "unfail"
  /\ failed => built

\* step_ and sequence_ count together; a step that is not yet in a snapshot is
\* one ahead.
CountersAgree ==
  /\ snapshot.sequence = sequence
  /\ sequence <= step + 1
  /\ phase \in {"components", "snapshot"} => sequence <= step
  /\ granted /\ phase \in {"idle", "commands", "physics"} => step < MaxStep
  /\ ~built => step = 0 /\ sequence = 0 /\ snapshot = NoSnapshot

\* What is in state_buffer_ is behind the data, and behind it by a step from
\* mj_step to the next snapshot.
SnapshotIsBehind ==
  /\ built => time <= step
  /\ snapshot.step <= step
  /\ phase \in {"components", "snapshot"} => snapshot.step < step
  /\ snapshot.epoch <= epoch
  /\ snapshot.epoch = epoch =>
       /\ built => snapshot.time <= time
       /\ phase \in {"components", "snapshot"} => snapshot.time < time

\* The cached sample is of a time that has been, and next_time_ of a sensor
\* with a period is at most a period after it.
SampleIsBehind ==
  /\ sample.epoch <= epoch
  /\ built /\ sample.epoch = epoch =>
       /\ sample.time <= time
       /\ sample.missed \/ config.period = 0 \/ nextTime <= sample.time + config.period
       /\ phase = "snapshot" =>
            sample.missed \/ (IF config.period = 0 THEN sample.time = time ELSE time < nextTime)

\* The command that the next physics step takes is no older than the one that
\* was in the buffer when its execution began, or was cleared by a reset since.
CommandIsLatest ==
  /\ begun.epoch <= epoch
  /\ phase # "idle" => begun.version <= cmd.version
  /\ phase = "physics" => \/ ctrl.version >= begun.version
                          \/ ctrl = NoCommand /\ epoch > begun.epoch

\* The type invariant, and what holds between the parts of the object in every
\* state of simulation.cpp.
SimulationInv ==
  /\ TypeOK
  /\ ExecutionIsGranted /\ StatusTells /\ FailedWorkerEnds
  /\ CountersAgree /\ SnapshotIsBehind /\ SampleIsBehind /\ CommandIsLatest

\* start() and stop() return: no lock is held by one of two threads while it
\* waits for the other.
CallsReturn == \A location \in {"start", "stop"} : pc = location ~> pc = "idle"

\* An execution that has begun ends, unless a start() holds runtime_mutex_ for
\* its viewer in the meantime.
ExecutionEnds == phase # "idle" ~> phase = "idle" \/ pc = "viewerStarting"

(***************************************************************************)
(* What the documentation says of reset().                                 *)
(***************************************************************************)
\* mujoco_simulation/README.md:195 says that a reset resets the component states and
\* clears the commands: no older command drives a step after it, and no snapshot after
\* it holds an older sample.
ResetClearsEverything ==
  [][/\ step' > step /\ ctrl # NoCommand => ctrl.epoch = epoch
     /\ snapshot' # snapshot => snapshot'.sample.epoch = snapshot'.epoch]_vars
=============================================================================
