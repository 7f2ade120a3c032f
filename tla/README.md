# TLA+ models of robot_mujoco

This directory holds a verification development for `robot_mujoco`: a MuJoCo
simulation core (`mujoco_simulation`) and the `ros2_control` hardware plugin and ROS
bridge around it (`robot_mujoco_ros2`). The program is a set of threads that start, stop
and join one another around a piece of shared data, with a few mutexes, one condition
variable and one lock-free channel. The models are about that: who may act when, what
survives a stop, a failure or a reset, and what the other side of a hand-over can see.

Every module is read off the code; the line of each definition's source is in
`PROJECT.json` under `map`. Where the documents say something else, that is stated as a
property too, and a run shows how the code departs from it (see *Where the documents and
the code differ*).

## The system

| Part | State | Operations | Talks to |
| --- | --- | --- | --- |
| `SimulationScheduler` (`runtime/simulation_scheduler.cpp`) | `status_`, `stop_requested_`, `task_`, the worker thread; `mutex_`, `execution_mutex_`, `cv_` | initialize, register_task, start, pause, resume, stop, shutdown, step; `worker_loop` | calls the task of `Simulation` |
| `Simulation` (`simulation.cpp`) | `mjData` (through `SimulationRuntime`), command and state buffers, components, viewer, `step_`, `sequence_`, `runtime_failed_`; `runtime_mutex_`, `viewer_mutex_` | initialize, shutdown, start, stop, pause, resume, reset, write_command, read_state; `scheduler_run_task` in the worker | scheduler, components, viewer, snapshot observer |
| `SimulationViewer` (`viewer/simulation_viewer.cpp`) | `state_`, `simulate_`, the render thread; `mutex_`, `lifecycle_mutex_` | start, stop, sync; `render_task` | MuJoCo's viewer (vendored) |
| `Simulate` (`viewer/simulate/simulate.cc`, vendored) | the model and data shown, passive copies of them, what the user edited and asked for (`pending_`), `exitrequest`; `mtx` | `RenderLoop`, `Load`, `Sync` | the `mjData` it is given |
| `CameraRenderer` (`mujoco/camera_renderer.cpp`) | an OpenGL context, render resources, a copy of the `mjData`, the size of the offscreen buffer | initialize, release, copy_simulation_data, render | GLFW, EGL, MuJoCo; used by the camera components |
| `ComponentManager`, `SimulationComponent` and the components (`component/`) | which component exists, its next update time, its cached state | register, update, write_command, reset | `mjData` under `runtime_mutex_` |
| `CommandBuffer`, `StateBuffer` (`buffer/`) | the latest commands; the latest snapshot | write, read | any thread and the worker |
| `MuJoCoHardwareInterface` (`mujoco_hardware_interface.cpp`) | `system_state_`, `simulation_started_`, active and pending command interfaces, `publish_bundle_`; `simulation_control_mutex_` | on_init, on_activate, on_deactivate, the six `request_*_status`, read, write, mode switch, the snapshot observer | simulation, bridge |
| `SimulationRosBridge` (`simulation_ros_bridge.cpp`) | `worker_running_`, the executor and its thread, the publish thread | start, stop, enqueue_publish_bundle, the services | the hardware's callbacks, the channel |
| `PublishChannel` (`publish_channel.cpp`) | two snapshot slots, camera slots, two index rings, sequence counters, all atomics | publish_bundle; three consuming operations | worker to publish worker |
| configuration (`config.cpp`, `config_builder.cpp`, the components' `init()`) | none that lives on | from the URDF's hardware description to registered components and buffer sizes | MuJoCo's model, the channel |
| message mapping, Python scene tools, launch files, CI scripts | none that lives on | parsing and copying | files, ROS |

What is hard here, and what makes each part correct:

* **Scheduler.** `status_` is written by the callers, by the worker when it ends and by
  `step()` when it fails, and the worker itself announces `Stopped` before it has been
  joined. Correct means: no thread handle is overwritten or joined twice, a stop that has
  returned leaves no worker, an error is not overwritten, a wakeup is not lost, and
  `pause()` is followed by a bounded amount of work.
* **Simulation.** One execution of the task is a chain of critical sections, so a reset,
  a command or a stop can come between any two. Correct means: snapshots are in order
  and given to the observer once each, a snapshot's component data fit its time, a step
  is driven by the newest command, no failure flag survives, and the two mutexes and the
  join never wait for each other in a circle.
* **Viewer.** A stop can come at any point in the life of the render thread, also before
  there is an object to write the exit request to. The worker exchanges data with copies
  that the render thread makes and deletes. Correct means: a sync never touches copies that
  are not there, it changes what the user edited and nothing else, what the user asked for
  is done, and `stop()` returns.
* **Camera renderer.** It is created on one thread and used on another, by way of calls any of
  which can fail half-way. Correct means: whatever fails, nothing is leaked or used after it
  was destroyed, the next attempt has a fair chance, and an image is of the instant on it.
* **Configuration.** Two packages derive the components and the buffer sizes from the same
  description, one from its text and one from the model. Correct means: what the simulation
  accepts can be published, and what the description names is served.
* **Hardware and bridge.** A service asks for the state once and acts later; a bundle is
  admitted once and sent later; a failed activation takes back its steps while other
  threads already use them. Correct means: when the hardware is down nothing runs, and
  no join waits for one that waits for the joiner.
* **Components.** All due components are polled before the first is sampled, and one that
  fails ends the update; a component's own state and the maps that snapshots are built
  from are two things. Correct means: the data of one rate are of one instant, due times
  keep to their grid, and no command drives an actuator past a limit.
* **Commands.** A command passes through the interface a controller claims, the fields of
  the hardware, the buffer, and the execution after. Correct means: what one controller
  left is not sent for another, and the joints of one `write()` stay together.
* **Channel.** No lock; the producer overtakes the consumer. Correct means: nothing that
  was announced is lost, and what is published never goes back by more than one bundle.

The full list, line by line, is under `hazards` in `PROJECT.json`.

## Modules

| Module | Models | Composition |
| --- | --- | --- |
| `SchedulerLifecycle` | the abstract scheduler: a status, at most one worker, exclusive executions | implemented by `SimulationScheduler`, used by `Simulation` and `HardwareInterface` |
| `SimulationScheduler` | every operation of the scheduler, the worker's loop and `step()` | refines `SchedulerLifecycle` |
| `SchedulerInvariant` | its inductive invariant `IInv` | extends `SimulationScheduler` |
| `Simulation`, `MCSimulation` | `simulation.cpp`, the worker's task part by part | uses `SchedulerLifecycle` |
| `Simulate` | the vendored viewer as this program uses it: loading, user events, `Sync`, the end of the loop | extended by `SimulationViewer` |
| `SimulationViewer` | the viewer, its render thread, the worker that steps and syncs, a reset | extends `Simulate` |
| `CameraRenderer`, `MCCameraRenderer` | the offscreen renderer and the cameras' update | stands alone |
| `AdapterConfig`, `MCAdapterConfig` | `on_init()`: parsing, component registration, buffer sizes, the first snapshot | stands alone |
| `LatestBundle` | the abstract channel: a register of the latest bundle | implemented by `PublishChannel` |
| `PublishChannel` | the channel access by access, and the loop of the publish worker | refines `LatestBundle` |
| `HardwareInterface` | the hardware's lifecycle, the bridge, services, observer | uses `SchedulerLifecycle` |
| `Actuation` | control laws, clamps and mecanum kinematics, as operators | extended by `ComponentManager` |
| `ComponentManager`, `MCComponentManager` | registration, schedule, sampling, commands of several components | extends `Actuation` |
| `JointCommands`, `MCJointCommands` | command interfaces, mode switch, `write()` | stands alone |
| `SchedulerProofs`, `SimulationProofs`, `ViewerProofs`, `CameraProofs`, `ChannelProofs`, `HardwareProofs`, `ComponentProofs`, `AdapterProofs` | theorems and their proofs | each extends the module it is about; `AdapterProofs` extends both `AdapterConfig` and `JointCommands` |

### How state and actions correspond to the code

* *SimulationScheduler.* One action is one critical section of `mutex_`, one acquisition
  or release of `execution_mutex_`, one `notify_all`, one `joinable()` or one `join()`.
  `wpc` is where the worker is; `wpc = "none"` is a thread that is not joinable, so
  assigning to it is what `start()` does. The condition variable's wait is two
  locations, `wait` (the predicate is evaluated under `mutex_`) and `blocked` (only a
  notification, or a spurious wakeup, leads out). Control operations come from `Callers`
  that hold `simulation_control_mutex_` for the whole call, as `request_*_status` does;
  `step()` comes from `Steppers` that hold nothing, so it overlaps every control operation,
  also `register_task`, `initialize` and `shutdown`. `task` is one of several callables or none;
  `called` is what the thread inside read of it, and an execution during which it is replaced may
  end either way. A `step()` that fails after `shutdown()` sets Error on a scheduler that nothing has
  initialized, as `set_error_locked` does. `late` is a history variable: the executions that the worker
  has begun since the status was last Running, whether a `pause()`, a `stop()` or a failed `step()` ended that.
* *Simulation.* One action is one critical section of `runtime_mutex_` or
  `viewer_mutex_`. `pc` is where the control operation is, `phase` where the worker is
  in `scheduler_run_task`. Time is counted in physics steps; a command is a version and
  the number of resets before it was written; the one sensor component has a cached
  `sample` and a `nextTime`; that an update was missed since is
  a history field of the sample. `observer` is the snapshot observer, which is set once, at some time
  after `initialize()` has made the first snapshot without one; `taken` is whether the worker found it
  set when it made the snapshot that it is at. Each part of the task can fail, as its code can: an update
  returns false, a joint rejects its command, an allocation or the observer throws, the
  viewer is lost.
* *SimulationViewer* and *Simulate.* `render` is where the render thread is; `simulate` is
  `simulate_` and `exitrequest` its atomic (2 when the loop has freed its copies);
  `lifecycle_mutex_` has a holder from the beginning of `start()` or `stop()` to its end. `worker`
  is where the scheduler's worker is: off (stopped, paused, ended by an error of another part), idle,
  in a physics step, past it with or without a sync due, in a sync. It goes off between any two executions
  and comes back at any time, or never (`Halt`, `Run`); `resetting` is a reset in
  another thread. Of the data there is one field of `qpos` and one of `mjOption`, each
  with a value in `mj`, one in the window (`shown`, the passive copy) and the last one
  exchanged (`prev`). `touched` is a history variable. `NaN` is a value, because `Sync` finds
  a change with `!=`. `Simulate` has an action per kind of event: what edits the
  same field, or sets a flag of the same effect, is one. Class by class a sync could overlap a
  start or stop; the program calls both under `viewer_mutex_` or with the worker joined, and so
  does the model.
* *CameraRenderer.* One action is one call of GLFW, EGL or MuJoCo that can fail, with what the
  code does up to the next. `owned` is what the object has handles of, `live` what
  the drivers hold; `current` is per thread, as OpenGL's contexts are. An image is the instant
  of the copied data it was drawn from. `faulty` is a history variable.
* *AdapterConfig.* One action parses one item, binds one kind of component, or sizes the
  buffers. A parameter is a value of a small type, or `Garbage` where a number cannot be read.
  The number of beams of a lidar is computed from its angles as the code does, on integers.
* *PublishChannel.* Every access to an atomic or to a shared slot is a step. A bundle is a
  number; a slot has a part that is written first and one that is written last, so a copy
  can be torn. The rings of `realtime_tools::LockFreeSPSCQueue` are external and modelled as
  cells with a read and a write position; an operation that two threads perform on the
  same end is two steps, because the queue was made for one. The channel is given one
  producer here; that the program has two is shown by `HardwareInterface`. `LatestBundle`
  knows none of it: bundles are made, announced, and a snapshot or clock is published that
  is at most one bundle behind the last one published.
* *HardwareInterface.* `pc` says where the manager (ros2_control's lifecycle calls) and the
  service are, `producing` where the observer and `on_activate()` are in
  `publish_snapshot_to_channel`. `executor` and `publisher` are the bridge's threads. After an
  activation that failed nothing more is called, which is where the model may stop.
* *ComponentManager.* One action is one critical section of `runtime_mutex_`: the whole of
  `write_command`, a physics step, the whole of `update`, or a reset or command between any
  two. A component is a record of its configuration; the five maps of the manager are one
  function, as names are unique. A rejected command may come after any of the others of its
  kind (the maps are unordered), joints before mobile bases. Motion is one of a few states.
* *Actuation.* A double is an integer or `NotFinite`; lengths are in wheel radii. The clamps,
  their order, the signs and the conditions on each field are the code's; rounding is not
  modelled.
* *JointCommands.* What a command says is left out: each field holds the *epoch* in which it was last set, the number of
  mode switches and activations before, as each of these sets the fields of every claimed joint anew. `claimedAt` is the number of calls of `write()` before the interfaces of a joint last
  changed. `write()` is one step per joint, and one for the mobile bases together, so the buffer can be
  read in between.

## Runs

| Run | Shows | Bounds |
| --- | --- | --- |
| `scheduler` | safety, the inductive invariant, refinement of the lifecycle, and liveness | 2 callers, 2 `step()` callers, counts up to 2, 2 tasks |
| `simulation` | snapshots, commands, failures, the viewer; `start()`, `stop()` and every execution end | viewer with period 2 and headless without; 3 steps, 1 reset, 1 command |
| `reset` | *violated:* a reset clears commands and component states | as `simulation`, with 2 commands |
| `viewer` | live copies, syncs that change only what was edited, requests served while the worker executes, `stop()` returns | 2 fields, 2 requests (one that resets the data, one that only reads it); otherwise none |
| `mjdata` | *violated:* `mjData` has a single writer at a time | as `viewer` |
| `channel` | nothing is missed, frames are whole, refinement of `LatestBundle` with its liveness | 1 camera slot, 4 bundles |
| `hardware` | nothing runs when the hardware is down; every call returns | none: the state space is finite |
| `bundle_is_one_tick` | *violated:* one thread fills a bundle at a time | none |
| `components` | every component present, one instant per rate, no drift, every limit kept | 2 joints, a base and 2 cameras, 2 rates, timestep 2 against period 3, 3 steps |
| `joint_commands` | nothing outlives a mode switch but until the next `write()`, joints in service at most one cycle apart | 2 joints, 8 switches, 4 calls of `write()`, 4 switches and activations |
| `camera` | no leak, no drawing outside the context or the buffer, images of their instant, recovery | 3 cameras, 2 instants, every failure, either backend, both or none |
| `configuration` | what is accepted is published, what is described is served | one model; every combination of 5 joint lists, 14 sensors, 8 mobile base maps up to 1 joint and 2 sensors |

Why the bounds are enough. Two control callers are what it takes for one to enter while
another is in a join, and two `step()` callers for a third thread to compete for the
execution mutex; a count of 2 has a first and a last iteration. Two tasks are what it takes for one to replace another. A sensor period of 2 with
3 steps has a step where the sensor is due, one where it is not, one after a
reset in both states, and an update that fails when it was due, a restart, and a snapshot of the
next update, which is not due. The next due one, a fourth step, and whatever comes later is left to
the proofs, which have no bound on steps. One command is enough for a step to be
driven by an older one; `reset` has two, one before and one after. One camera slot makes the rings run empty and full with
few bundles, and four bundles are one more than the shortest way to the rarest branch
(`PushAgain` finding the ring full again); the two snapshot slots are lapped from the
third bundle on. Every action, and every disjunct, fires in some run. `MaxStep`, `MaxReset`,
`MaxCommand`, `MaxCount`, `MaxBundle`, `MaxCycle`, `MaxEpoch`, `MaxTime` and `MaxSensors` are
bounds of the models; the code has no such limits.

**Fairness.** A thread that can take a step of its own code takes one eventually (weak
fairness per thread, for the operating system's scheduler), a task returns, and a mutex
that is free is eventually taken by the one that waits for it. Nobody has to call anything:
calls, commands, resets, a user closing the window, spurious wakeups and the next bundle
have no fairness. In `SimulationViewer` locks come free again and again rather than for good: the
render loop takes `mtx` in every pass, the worker `mutex_` in every sync. The lifecycle
operations, the render thread and the steps of an execution therefore have strong fairness, on the
ground that neither side keeps a mutex for longer than a pass and the operating system
does not starve a thread that waits. Syncs are made in the worker's task only. Nothing obliges the
worker to run: `Run` and `Halt` have no fairness, as a simulation may be paused, stopped or ended by an
error while its viewer stays Ready, and then nobody syncs it. `RequestsServed` is therefore about a worker
that executes. That such a worker comes to a sync, strong fairness of `BeginSync`, is `next_sync_time_`: it
stays where it is until a sync has been made, while every step moves the time towards it. In `PublishChannel` a
`publish_bundle` that has begun ends. `RunningExecutes` needs no strong fairness of
`execution_mutex_`: a `step()` is only admitted in Stopped and Paused, so the callers of
`step()` run out.

`camera` needs two sizes that exceed the model's in one dimension each, so that the buffer has to
grow twice and neither image fits the other's, and two instants, so that an image can be
older than its stamp. In `configuration` a pair of sensors suffices for every clash of names and
every mismatch of a buffer with the component at its position; lidars have 3 and 4 beams
where the model has 4, and one at the border of the rounding.

`simulation` checks safety and liveness under `FairSpec`: fairness removes no finite behaviour.

`components` has limits that overlap, as a joint without a common value would have no legal
effort at all; period 3 against timestep 2 makes a component due at steps of varying distance,
and a period of 0 makes one that is always due. In `joint_commands` a joint is sent, released and claimed again with two calls of `write()` between
that pass it over, and sent in the fourth.

Deadlock checking is off for `HardwareInterface`, where after a failed activation, with no
thread left, the hardware is not used again, and for `configuration`, which reads one
description and ends.

## What the properties say

*Scheduler.* `ThreadHandleSafe`, `IInv` (which has `TypeOK` and `StoppedIsQuiescent` among its parts), `AtMostOneLateTask`, `ErrorIsSticky`, `TaskStableWhileExecuting`,
`LifecycleSpec` (refinement), `StopTerminates`, `RunningExecutes`. The handle is safe only
because callers are serialised by `simulation_control_mutex_`: without it two `stop()` calls
join one thread, and a `start()` can assign over a worker that has announced `Stopped` and is
not joined. `TaskStableWhileExecuting` is about the worker: while there is one nothing writes `task_`, be
it the same callable, another or none. Nothing protects a `step()`, which `register_task`, `initialize`
and `shutdown` overlap in the model as in the code. `AtMostOneLateTask` counts from when the
scheduler was last Running, whatever ended that.

*Simulation.* `SimulationInv` (types, that a worker whose viewer failed ends in Error, and what the
others rest on: how status, owed execution and place of the worker, and how counters, snapshot,
sample and command go together),
`EverySnapshotObserved`, `SnapshotsAdvance`, `LatestCommandDrives`, `SnapshotCoherent`,
`CallsReturn` (`start()` and `stop()`), `ExecutionEnds`. `EverySnapshotObserved` begins with
the observer: the snapshot that `initialize()` makes comes before `set_snapshot_observer()` and is never
given to it; `on_activate()` publishes one itself. `SnapshotCoherent` has two exceptions that the code really has: a reset
between sampling and snapshot, and an update that failed after every due component's next
time had been advanced.

*Viewer.* `ViewerInv` (types, the render loop has its `Simulate`, a Ready viewer has a thread, when
there are copies, who has `mtx`, and what is shown of what nobody edited),
`SyncTouchesLiveCopies`, `SyncKeepsUntouched`, `RequestsServed`, `StopReturns`. The end of the render
loop deletes the passive copies and leaves their pointers, so only `exitrequest` keeps a sync from
them. Two exceptions are stated with the properties because the code has them. A `Load` that throws has
set `m_` and made no copies, and a sync that waits for `mtx` meanwhile works on the missing ones before
`set_failed()` can stop it: `SyncTouchesLiveCopies` excepts the render thread that is on its way there. A
field that is NaN differs from itself and is written back at every sync, over a step or a reset too:
`SyncKeepsUntouched` excepts it, and a request of the user that sets that very field, and nothing else.

*Channel.* `ChannelInv` (types, that a frame is whole until one was taken away from the
consumer, and how far slots, copies and what was published can be from the active bundle), `NothingMissed`, `RegisterSpec`: every behaviour of the channel is one of
`LatestBundle`, whose fairness says that the latest bundle is published in the end. A consumer
that is overtaken publishes a bundle that was not yet announced and then goes back to the
announced one, so the time on `/clock` can go back, by one bundle and no more.

*Camera.* `RendererInv` (types, that an image fits the buffer, and what the renderer has at each
place of each operation), `NothingLeaks`,
`DrawsInItsContext`, `ImageOfItsInstant`, `FailuresLeaveNoTrace`. No property covers a `release()` whose
EGL context cannot be made current: it frees the GL objects without one and only logs it.

*Configuration.* `AcceptedIsPublished`: a lidar's buffer is sized from the angles in the URDF and
its data from the beams in the model, and a bundle whose sizes differ is dropped whole.
`DescribedIsServed` leaves out what the code passes over in silence: an unknown
`mujoco_type`, and mobile bases after a gap in their numbers.

*Hardware.* `HardwareInv` (types, `QuietWhenDown`, and where each thread can be for a place of the
manager), `StartedIsHonest`, `NoServiceBeforeActive`, `CallsReturn`.
`QuietWhenDown` is what the order of `on_deactivate()` is for: the executor is joined before
the simulation is stopped, so a `/start` that has passed the gate cannot come after it.

*Components.* `ComponentsInv` (types, and that no component is missing from the maps, which
would make every bundle be given up), `SameRateTogether`, `NoDrift`, `CtrlWithinLimits`.
`SameRateTogether` holds because all are
polled before any is sampled and the maps are only replaced when every one succeeded.

*Joint commands.* `CommandsInv` (types, `CurrentClaimOnly`, and what is known of the fields and of a
`write()` under way), `SkewAtMostOne`. `CurrentClaimOnly` is what
`initialize_command_buffers` is for. It sets the fields of every claimed joint, also of one that the
switch does not concern, whose position target is thereby its last read position. Both properties begin
with a `write()` that has returned: `CurrentClaimOnly` with the first since the last switch or activation,
`SkewAtMostOne`, joint by joint, with the first since the joint's interfaces changed (`InService`). Until then
the buffer holds what was sent before, for a joint that was released and is claimed again a command of any age,
and of another mode; the worker drives it in every execution in between.

## Where the documents and the code differ

Each of these is a property taken from a document or a test, and a run in which TLC
finds the code departing from it.

* `ResetClearsEverything`: `reset()` touches only the MuJoCo data. The command of before is
  written again with the next step, and a sensor keeps its sample until the time has come
  back to its due time of before the reset. That the statistics are not zeroed either, and that
  `reset()` writes the `mjData` in its caller's thread, can be read off the code.
* `BundleIsOneTick`: `on_activate()` publishes the initial snapshot in its own thread while the
  observer is already active.
* `WriterAlone`: `mjData` is to have one writer, the scheduler's worker. A viewer sync takes the
  user's edits over without `runtime_mutex_`, so a `reset()` in another thread can come in the
  middle; and the render thread copies the data after `start()` has returned at Ready, while the
  worker steps.

The models show more that is no run of its own:

* A test counts executions after `pause()` and expects none
  (`mujoco_simulation/test/unit/test_simulation_scheduler.cpp:72`). `pause()` does not wait for the
  worker, which may have passed its second look at the status: one more execution can
  begin (`AtMostOneLateTask`: never two).
* A mode switch is to leave no command of the old mode in effect
  (`docs/module/robot_mujoco_ros.md:695`). `write()` passes over a joint that no controller claims
  (`SkipJoint`), and the buffer keeps its last command, which the worker writes in every execution. A joint that
  is claimed again goes on with that one until `write()` comes to it.
* A published bundle is to be of one tick (`docs/module/robot_mujoco_ros.md:493`). With two
  snapshot slots the producer comes back, with the bundle after the next, to the one that is
  being copied: the two parts of `delivered` are of different bundles.
* A bundle that is enqueued after the publish worker's last look stays in the channel and is
  published by the next activation's worker while that is `Activating`
  (`docs/module/robot_mujoco_ros.md:311`).
* A sensor whose `mujoco_type` is unknown is passed over without a word, and a camera or lidar without
  one is taken for an IMU (`docs/development_guide.md:118` and `:540` have the latter as an error).
* The guide lists three command interfaces of a joint (`docs/development_guide.md:117`); five are accepted.
* A joint of the URDF that is also the wheel of a mobile base becomes two components that drive one
  actuator, each in turn of the command map.
* The OpenGL context of the viewer's window is destroyed by the thread that calls `stop()`, not by
  the render thread that used it (`viewer/simulate/glfw_adapter.cc:112`).

Not a run, because it depends on code outside the repository: `on_shutdown()` is not overridden
and the destructor does not stop the simulation before `publish_bundle_` and the bridge are
destroyed, so a hardware that is destroyed while active has a worker that uses them; and an
executor that is cancelled before it spins would not end.

## Proofs

Every safety property of a passing run is proved for all values of the constants. Each
`...Proofs` module begins with the lemmas on
operators, then has one lemma per group of actions ("... keeps ..."), and ends with the theorems.
The inductive invariant is made of parts that a run checks, with three exceptions that are stated
beside their proofs and that TLC finds to hold on the instances of the runs: `ConfigInv` (`AdapterProofs`),
`ManagerProduces` (`HardwareProofs`) and `StepsOrResets` (`ViewerProofs`).

| Module | Theorems | What makes the invariant inductive |
| --- | --- | --- |
| `SchedulerProofs` | `TypeCorrect`, `ThreadHandle`, `Quiescence`, `WorkerPresent`, `StopRequest`, `MutualExclusion`, `BoundedLateness`, `ErrorKept`, `TaskStable`, `ImplementsLifecycle` | see below |
| `SimulationProofs` | `SimulationIsSound`, `ObserverMissesNothing`, `SnapshotsAreCoherent`, `LaterSnapshotsOnly`, `LatestCommandIsTaken`, `FollowsLifecycle` | `ExecutionIsGranted`, `StatusTells`, `FailedWorkerEnds` (status, owed execution and place of the worker); `CountersAgree`, `SnapshotIsBehind`, `SampleIsBehind`, `CommandIsLatest` (what an execution has done so far) |
| `ViewerProofs` | `ViewerIsSound`, `CopiesOutliveTheSync`, `SyncIsNoUndo`, `WritersMeetOnlySo` | `HandleIsOfTheThread`, `CopiesFollowTheModel`, `MtxIsOfOne`, `UntouchedIsAsSynced`; `StepsOrResets` for the last |
| `CameraProofs` | `RendererIsSound`, `NothingLeaksEver`, `DrawingHasItsContext`, `ImagesAreOfTheirInstant`, `FailuresAreForgotten` | `StageOfRenderer` (what the renderer has at each place of each operation), `OwnedIsLive`, `CurrentInScope`, `SizeIsOfBuffer`, `CopyIsFresh`, `FailureIsKnown` |
| `ChannelProofs` | `ChannelIsSound`, `NothingIsMissed`, `FramesAreWhole`, `ImplementsRegister` | see below |
| `HardwareProofs` | `HardwareIsSound`, `DownHardwareIsQuiet`, `StartedTellsTheTruth`, `GateHolds`, `FollowsLifecycle`, `OneProducerIsEnough` | `ManagerIsAt`, `BridgeOfManager`, `ServiceOnExecutor`, `StatusOfRequests`, `WorkerOwes`: where the manager is decides which threads the bridge has, where a service can be, and what the flags say |
| `ComponentProofs` | `ComponentsAreSound`, `RatesStayTogether`, `ScheduleDoesNotDrift`, `ActuatorsKeepTheirLimits`; `DriveWithin`, `JointWithinLimits`, `MecanumRoundTrip` | `RegisteredIsChecked` (only what passed `init()` is registered), `AllPresent`, `DueTogether` (equal rates have equal next times) |
| `AdapterProofs` | `ConfigurationIsSound`, `AcceptedSnapshotsFit`, `ServedAsDescribed`; `CommandsAreSound`, `NoStaleClaim`, `SkewIsAtMostOne` | `ConfigTyped`, `JointsSoFar`, `SensorsSoFar`, `BasesSoFar`, `Served`; `PendingIsWhole`, `FieldsAreCurrent`, `ClaimsArePast`, `SentSoFar`, and `SkewAtMostOne` itself |

*Assumptions.* They are on constants only, named, and evaluated by TLC in the runs:
`ThreadsAssumption` (threads differ, nobody is `NoThread`), `TasksAssumption` (no task is `NoTask`), `CountAssumption`, `BoundsAssumption`,
`BundlesAssumption` (bounds are natural numbers; `step()` is called at least once),
`SlotsAssumption` (there is a camera slot), `NotFiniteAssumption` (`NotFinite` is no integer), `CamerasAssumption` (sizes
are counts), `DescriptionsAssumption` (joints and sensors are sequences; what is given where a number
is needed is an integer or `Garbage`), `JointCommandsAssumption` (the joints are a sequence, each with
interfaces it supports), `NoneAssumption` (`None` is no command) and `ComponentManagerAssumption` (a positive timestep, finite numbers in configurations and states;
a command's numbers may be anything).

*Scheduler.* That no handle is overwritten needs
`StoppedIsQuiescent`; that needs to know that a caller who is past its join saw the worker
end, and that no second caller is in a `stop()` at the same time; and that the worker leaves
its loop only for a reason that a `stop()` will find. `IInv` (`SchedulerInvariant`) says this:
`ControlMutex` and `CallShape` (who can be where), `StopKnows` (what a caller in `stop()` knows),
`StoppingIsOwned`, `ExitHasCause`, `OwesSteps`, `LateSpent`, and the invariants that are themselves needed. `LifecycleStep` maps each step to a
step of `SchedulerLifecycle` or to a stutter; this is what allows `Simulation` and
`HardwareInterface` to use the abstract lifecycle in the scheduler's place. That they use it and
do nothing else to it is `FollowsLifecycle` of both: of `Simulation` from its initial state on, of
`HardwareInterface`, which begins with a scheduler that is already stopped, for every step.

*Channel.* There are three arguments. As long as the producer has not taken from the ready ring, every camera
slot is in exactly one place (`SlotsInOnePlace`): then neither ring is ever full, none of the
discarding branches can be reached, and a frame in a ring is whole (`FramesInPlaceAreWhole`). For the small
snapshot, the sequence is stored after the slot and loaded before it (`SequencesFollow`,
`ActiveIsAnnounced`, `CopyIsNotOlder`), which gives `NothingMissed`. The refinement of `LatestBundle`
needs that a consumer is never more than one bundle ahead of the active one (`OneAhead`) nor behind
what it published (`OneBehind`). That is not obvious, because a producer that gives a bundle up
writes the next one over it: a consumer that reads the inactive slot could then be two ahead. It holds
because bundles are given up only while the consumer has a camera slot in its hands, and then it does not
read snapshots. `SlotIsSomewhere` says so of the rings, also after two threads have popped
one index at the same time; `WatchedIsNext` says it of the bundle. `StepOfRegister` maps each step to one of
the register or to a stutter. The fairness of `LatestBundle`, that the latest bundle is published in the
end, is only model-checked (`RegisterSpec`).

*Two findings, bounded.* `BundleIsOneTick` and `WriterAlone` are violated; the theorems say by how
little. `OneProducerIsEnough`: two threads fill the bundle together only while `on_activate()`
publishes the initial snapshot, so everywhere else the single producer of `PublishChannel` is what the
program has. `WritersMeetOnlySo`: of a step, a reset, a sync and a load of the model, only sync and reset,
load and step, load and reset ever meet; a step and a reset never do, because of `runtime_mutex_`,
nor a sync and a load, because of `mtx`.

*Configuration.* `ConfigInv` says what has come of the items that `on_init()` has read: of each kind only
items that could be parsed are kept (`ConfigTyped`), and those that it has passed are there, joints and
mobile bases in their order, sensors by name (`JointsSoFar`, `SensorsSoFar`, `BasesSoFar`). When it
serves, the registry is the kept items one kind after the other (`Served`), so there is a component for each
and for nothing else (`RegisteredByKind`), and as no two have one name, the state found under a sensor's
name is that sensor's (`StateIsItsOwn`).
That the buffers have the right size is arithmetic: the hardware interface estimates the beams of
a lidar and its component counts them, each in a function of its own, and `BeamsAgree` shows them equal for what a
lidar's `init()` lets through, a positive increment and an angle range that is not reversed. It needs that
these are numbers, which is why parsing refuses `Garbage` (`NumbersWereRead`).

*Simulation.* The action properties follow from the invariant: when a snapshot is written,
`CountersAgree` says that `step_` has been counted since the last one, and at a physics step
`CommandIsLatest` says what the execution found when it began. The proof corrected the model. Whether an update had been
missed was a flag of the component; an update that was not due left it and the next due one cleared
it, while the snapshot of before still had the old sample. `SnapshotCoherent` was then false
from the fourth step on, one more than TLC looks at. The flag now belongs to the sample.

*Components.* The arithmetic of the schedule is in `NextDueIsNext`: the next due time is on the grid, later
than now and by no more than the period. The theorems on limits need that limits which apply together
overlap (`Consistent`, `ConsistentWith`, which `CtrlWithinLimits` states); each clamp then leaves the value
in the interval of the one before (`ClampKeeps`). With limits that do not overlap the last clamp, the
control range, wins. `MecanumRoundTrip`: forward kinematics undo the inverse, for all integers.

*Only model-checked:*

* All liveness (`StopTerminates`, `RunningExecutes`, `CallsReturn`, `ExecutionEnds`, `RequestsServed`,
  `StopReturns` and the fairness part of `RegisterSpec`): fairness is about `ENABLED`, which the
  provers do not handle.
* The three properties of documents that the code departs from.

## What is not modelled, and why

MuJoCo itself, the pixels of an image and the numeric content of sensors and odometry; the
copying into messages (`message_mapper.cpp`), field by field; the Python tools, launch files and CI scripts,
which rewrite files and start processes. `SimulationConfigParser` (`config/simulation_config.cpp`)
reads an XML form of the configuration that only tests use. Half of the repository's C++ is code of
others: the logging library (7800 lines), the XML parser (4800), and, in the viewer, MuJoCo's own
demo program (`main.cc`) and a user interface of 3000 lines of which the part that
reaches the simulation is in `Simulate`. None of the first three holds logic of
this program, and no property here could be about it. Of the program's own files that keep state, what is left
are constructors, getters, `read_state` and its copies, and tables of names.

`system_state_` is a plain
variable that several threads read; the models treat a read of it as a load of the last value
written. `read_state()` and the getters change nothing. The resource manager of ros2_control is
assumed to call lifecycle operations one at a time.

## Plan

The odometry that `MobileBaseComponent` derives from the base body's pose, as integers like the
kinematics of `Actuation`.
