-------------------------- MODULE HardwareInterface --------------------------
(***************************************************************************)
(* robot_mujoco_ros2: MuJoCoHardwareInterface, which owns the simulation   *)
(* and the SimulationRosBridge and takes both through on_activate() and    *)
(* on_deactivate(), and the threads that run in between.                   *)
(*                                                                         *)
(*   Manager  calls on_activate() and on_deactivate(), one at a time       *)
(*   Service  the bridge's executor; its services are one mutually         *)
(*            exclusive callback group, so one of them runs at a time      *)
(*   Worker   the scheduler's thread, which calls the snapshot observer    *)
(*   the publish worker of the bridge, which empties the channel           *)
(*                                                                         *)
(* The scheduler is taken from SchedulerLifecycle.  Of the channel only    *)
(* whether it holds a bundle is kept, PublishChannel has the rest.  The    *)
(* services reset and load_keyframe take the same way as pause and change  *)
(* nothing that is kept here.                                              *)
(***************************************************************************)
CONSTANTS
  Manager, Service, Worker,    \* the threads
  NoThread

ASSUME ThreadsAssumption ==
  /\ Manager # Service /\ Manager # Worker /\ Service # Worker
  /\ NoThread \notin {Manager, Service, Worker}

VARIABLES
  status, live, granted, executing,  \* the scheduler, as SchedulerLifecycle has it
  systemState,    \* system_state_
  started,        \* simulation_started_
  control,        \* holder of simulation_control_mutex_
  pc,             \* where Manager and Service are
  op,             \* the operation each of them is in
  producing,      \* where Manager and Worker are in publish_snapshot_to_channel
  workerRunning,  \* worker_running_
  executor,       \* executor_ and its thread: "none", "spinning", "cancelled", "ended"
  publisher,      \* the publish worker
  channel         \* the channel holds a bundle that was not published yet

schedulerVars == <<status, live, granted, executing>>
requestVars   == <<started, control, pc, op>>
bridgeVars    == <<workerRunning, executor, publisher>>
vars == <<schedulerVars, systemState, requestVars, producing, bridgeVars, channel>>

Scheduler == INSTANCE SchedulerLifecycle WITH Executors <- {Worker}

Requesters  == {Manager, Service}
Producers   == {Manager, Worker}
SystemState == {"Inactive", "Activating", "Active", "Deactivating", "Error"}
Services    == {"start", "stop", "pause", "resume"}
Locations   == {"idle", "startBridge", "activate", "read", "publish", "stopBridge",
                "cancel", "joinExecutor", "joinPublisher", "gate", "start", "stop",
                "join", "request"}

\* on_init() has initialized the simulation and made the bridge.
Init ==
  /\ status = "Stopped" /\ live = FALSE /\ granted = FALSE /\ executing = NoThread
  /\ systemState = "Inactive" /\ started = FALSE /\ control = NoThread
  /\ pc = [r \in Requesters |-> "idle"] /\ op = [r \in Requesters |-> "stop"]
  /\ producing = [p \in Producers |-> "idle"]
  /\ workerRunning = FALSE /\ executor = "none" /\ publisher = "none"
  /\ channel = FALSE

Goto(r, from, to) == pc[r] = from /\ pc' = [pc EXCEPT ![r] = to]
KeepBridge == UNCHANGED <<producing, bridgeVars, channel>>

(***************************************************************************)
(* request_*_status, of Manager and Service, under                         *)
(* simulation_control_mutex_.                                              *)
(***************************************************************************)
DeactivateHoldsIt == control = NoThread   \* mutant: on_deactivate() has taken the mutex
                     /\ pc[Manager] \notin {"cancel", "joinExecutor", "joinPublisher"}
MutexFree == control = NoThread

\* Where a request returns to.
Answered(r) == IF r = Manager /\ op[r] = "activate" THEN "startBridge" ELSE "idle"
NextState(r) == IF r = Manager /\ op[r] = "deactivate" THEN "Inactive" ELSE systemState

\* A simulation that was started is not started again, whatever became of it.
RequestStart(r) ==
  /\ MutexFree
  /\ \/ /\ Goto(r, "start", Answered(r)) /\ started
        /\ UNCHANGED <<schedulerVars, started, systemState>>
     \/ /\ Goto(r, "start", Answered(r)) /\ ~started
        /\ Scheduler!Spawn
        /\ started' = TRUE /\ UNCHANGED systemState
     \/ /\ Goto(r, "start", "idle") /\ ~started
        /\ systemState' = IF r = Manager THEN "Error" ELSE systemState
        /\ UNCHANGED <<schedulerVars, started>>
  /\ UNCHANGED <<control, op>> /\ KeepBridge

KeepStarted == started                    \* mutant: the flag is not reset
ClearStarted == FALSE

RequestStop(r) ==
  \/ /\ Goto(r, "stop", "idle") /\ MutexFree /\ ~started
     /\ systemState' = NextState(r)
     /\ UNCHANGED <<schedulerVars, started, control, op>> /\ KeepBridge
  \/ /\ Goto(r, "stop", "join") /\ MutexFree /\ started
     /\ control' = r
     /\ \/ Scheduler!Become({"Running", "Paused"}, "Stopping")
        \/ status \in {"Stopped", "Error"} /\ UNCHANGED schedulerVars
     /\ UNCHANGED <<systemState, started, op>> /\ KeepBridge

\* The worker has ended and is joined; simulation_->stop() returns.
StopSimulation(r) ==
  \/ /\ pc[r] = "join" /\ producing[Worker] = "idle"
     /\ Scheduler!Reap
     /\ UNCHANGED <<systemState, requestVars>> /\ KeepBridge
  \/ /\ Goto(r, "join", "idle")
     /\ Scheduler!StopReturns
     /\ started' = ClearStarted /\ control' = NoThread
     /\ systemState' = NextState(r)
     /\ UNCHANGED op /\ KeepBridge

\* pause() and resume(): an answer, whether the scheduler took it or not.
RequestPauseOrResume(r) ==
  /\ Goto(r, "request", "idle") /\ MutexFree
  /\ IF started /\ op[r] = "pause" /\ status = "Running"
     THEN Scheduler!Become({"Running"}, "Paused")
     ELSE IF started /\ op[r] = "resume" /\ status = "Paused"
     THEN Scheduler!Become({"Paused"}, "Running")
     ELSE UNCHANGED schedulerVars
  /\ UNCHANGED <<systemState, started, control, op>> /\ KeepBridge

(***************************************************************************)
(* on_activate() and on_deactivate().                                      *)
(***************************************************************************)
KeepRequest == UNCHANGED <<schedulerVars, started, control>>

\* The resource manager activates what is inactive, and does not come back to
\* a hardware whose activation has failed.
OnActivate ==
  /\ Goto(Manager, "idle", "start")
  /\ systemState = "Inactive"
  /\ systemState' = "Activating"
  /\ op' = [op EXCEPT ![Manager] = "activate"]
  /\ KeepRequest /\ KeepBridge

\* SimulationRosBridge::start().
StartBridge ==
  /\ Goto(Manager, "startBridge", "activate")
  /\ workerRunning' = TRUE /\ executor' = "spinning" /\ publisher' = "look"
  /\ KeepRequest /\ UNCHANGED <<systemState, op, producing, channel>>

Activate ==
  /\ Goto(Manager, "activate", "read")
  /\ systemState' = "Active"
  /\ KeepRequest /\ UNCHANGED op /\ KeepBridge

\* update_runtime_state() finds every component in the snapshot, or not all.
ReadState ==
  /\ \/ /\ Goto(Manager, "read", "publish") /\ UNCHANGED <<systemState, op>>
        /\ producing' = [producing EXCEPT ![Manager] = "fill"]
     \/ /\ Goto(Manager, "read", "stopBridge") /\ systemState' = "Error"
        /\ op' = [op EXCEPT ![Manager] = "fail"] /\ UNCHANGED producing
  /\ KeepRequest /\ UNCHANGED <<bridgeVars, channel>>

\* The initial bundle is in the channel, or has failed; initialize_command_buffers.
InitialPublished ==
  /\ producing[Manager] = "done" /\ producing' = [producing EXCEPT ![Manager] = "idle"]
  /\ \/ Goto(Manager, "publish", "idle") /\ UNCHANGED <<systemState, op>>
     \/ /\ Goto(Manager, "publish", "stopBridge") /\ systemState' = "Error"
        /\ op' = [op EXCEPT ![Manager] = "fail"]
  /\ KeepRequest /\ UNCHANGED <<bridgeVars, channel>>

OnDeactivate ==
  /\ Goto(Manager, "idle", "stopBridge") /\ systemState = "Active"
  /\ systemState' = "Deactivating"
  /\ op' = [op EXCEPT ![Manager] = "deactivate"]
  /\ KeepRequest /\ KeepBridge

\* SimulationRosBridge::stop(): worker_running_, cancel(), and two joins.
KeepOutput == UNCHANGED <<systemState, op, producing, channel>>

StopBridge ==
  /\ Goto(Manager, "stopBridge", "cancel")
  /\ workerRunning' = FALSE
  /\ KeepRequest /\ KeepOutput /\ UNCHANGED <<executor, publisher>>

CancelExecutor ==
  /\ Goto(Manager, "cancel", "joinExecutor")
  /\ executor' = "cancelled"
  /\ KeepRequest /\ KeepOutput /\ UNCHANGED <<workerRunning, publisher>>

NotJoined == TRUE                         \* mutant: the executor's thread is not joined
ExecutorJoined == executor = "ended"

JoinExecutor ==
  /\ Goto(Manager, "joinExecutor", "joinPublisher")
  /\ ExecutorJoined
  /\ KeepRequest /\ KeepOutput /\ UNCHANGED bridgeVars

JoinPublisher ==
  /\ Goto(Manager, "joinPublisher", "stop")
  /\ publisher = "ended"
  /\ publisher' = "none" /\ executor' = "none"
  /\ KeepRequest /\ KeepOutput /\ UNCHANGED workerRunning

(***************************************************************************)
(* The services.                                                           *)
(***************************************************************************)
KeepService == KeepRequest /\ UNCHANGED systemState /\ KeepBridge

CallService(o) ==
  /\ executor = "spinning"
  /\ Goto(Service, "idle", "gate")
  /\ op' = [op EXCEPT ![Service] = o]
  /\ KeepService

GateOpen == TRUE                          \* mutant: the state is not looked at
ServiceAllowed == systemState = "Active"

\* is_service_allowed() is asked once, before the callback.
Gate ==
  /\ Goto(Service, "gate", IF ~ServiceAllowed THEN "idle"
                           ELSE IF op[Service] \in {"start", "stop"} THEN op[Service]
                           ELSE "request")
  /\ UNCHANGED op /\ KeepService

\* A cancelled executor ends when the callback it is in has returned.
ExecutorEnds ==
  /\ executor = "cancelled" /\ pc[Service] = "idle"
  /\ executor' = "ended"
  /\ UNCHANGED <<schedulerVars, systemState, requestVars, producing, workerRunning,
                 publisher, channel>>

(***************************************************************************)
(* publish_snapshot_to_channel, in the worker (the snapshot observer) and  *)
(* in on_activate(): both fill the one publish_bundle_.                    *)
(***************************************************************************)
Produce(p, from, to) ==
  /\ producing[p] = from /\ producing' = [producing EXCEPT ![p] = to]
  /\ UNCHANGED <<systemState, requestVars, bridgeVars>>

\* The observer has looked at system_state_.
Observe ==
  /\ executing = Worker /\ systemState = "Active"
  /\ Produce(Worker, "idle", "fill")
  /\ UNCHANGED <<schedulerVars, channel>>

FillBundle(p) == Produce(p, "fill", "enqueue") /\ UNCHANGED <<schedulerVars, channel>>

Enqueue(p) ==
  /\ Produce(p, "enqueue", IF workerRunning THEN "publish" ELSE "done")
  /\ UNCHANGED <<schedulerVars, channel>>

\* The channel takes the bundle, or has no camera slot for it.
PublishBundle(p) ==
  /\ Produce(p, "publish", "done")
  /\ channel' \in {channel, TRUE}
  /\ UNCHANGED schedulerVars

(***************************************************************************)
(* The worker around the observer, as SchedulerLifecycle has it.           *)
(***************************************************************************)
GrantExecution == Scheduler!Grant /\ Produce(Worker, "idle", "idle") /\ UNCHANGED channel
BeginExecution == Scheduler!Begin(Worker) /\ Produce(Worker, "idle", "idle") /\ UNCHANGED channel

ExecutionEnds ==
  /\ Scheduler!End(Worker)
  /\ \E from \in {"idle", "done"}, to \in {"idle", "failed"} : Produce(Worker, from, to)
  /\ UNCHANGED channel

ReportError == Scheduler!Fail /\ Produce(Worker, "failed", "idle") /\ UNCHANGED channel
RetireWorker == Scheduler!Retire /\ Produce(Worker, "idle", "idle") /\ UNCHANGED channel

(***************************************************************************)
(* run_publish_worker: it ends when it finds no work after worker_running_ *)
(* was cleared.                                                            *)
(***************************************************************************)
Publisher(from, to) ==
  /\ publisher = from /\ publisher' = to
  /\ UNCHANGED <<schedulerVars, systemState, requestVars, producing, workerRunning, executor>>

TakeBundle == Publisher("look", "look") /\ channel /\ channel' = FALSE
FindNothing == Publisher("look", "nothing") /\ ~channel /\ UNCHANGED channel

PublisherTurns ==
  /\ Publisher("nothing", IF workerRunning THEN "look" ELSE "ended")
  /\ UNCHANGED channel

-----------------------------------------------------------------------------
Requests(r) ==
  RequestStart(r) \/ RequestStop(r) \/ StopSimulation(r) \/ RequestPauseOrResume(r)

Managing ==
  \/ Requests(Manager) \/ StartBridge \/ Activate \/ ReadState \/ InitialPublished
  \/ StopBridge \/ CancelExecutor \/ JoinExecutor \/ JoinPublisher
  \/ FillBundle(Manager) \/ Enqueue(Manager) \/ PublishBundle(Manager)

Serving == Requests(Service) \/ Gate \/ ExecutorEnds

Working ==
  \/ BeginExecution \/ Observe \/ ExecutionEnds \/ ReportError \/ RetireWorker
  \/ FillBundle(Worker) \/ Enqueue(Worker) \/ PublishBundle(Worker)

Publishing == TakeBundle \/ FindNothing \/ PublisherTurns

Next ==
  \/ OnActivate \/ OnDeactivate \/ \E o \in Services : CallService(o)
  \/ GrantExecution \/ Managing \/ Serving \/ Working \/ Publishing

Spec == Init /\ [][Next]_vars

\* Every thread that has something to do goes on.
FairSpec ==
  Spec /\ WF_vars(Managing) /\ WF_vars(Serving) /\ WF_vars(Working) /\ WF_vars(Publishing)

-----------------------------------------------------------------------------
(***************************************************************************)
(* Properties.                                                             *)
(***************************************************************************)
SchedulerTypes ==
  /\ status \in Scheduler!SimulationStatus /\ executing \in {Worker, NoThread}
  /\ live \in BOOLEAN /\ granted \in BOOLEAN
  /\ producing \in [Producers -> {"idle", "fill", "enqueue", "publish", "done", "failed"}]

RequestTypes ==
  /\ systemState \in SystemState /\ started \in BOOLEAN /\ control \in Requesters \cup {NoThread}
  /\ pc \in [Requesters -> Locations]
  /\ op \in [Requesters -> Services \cup {"activate", "deactivate", "fail"}]

BridgeTypes ==
  /\ workerRunning \in BOOLEAN /\ channel \in BOOLEAN
  /\ executor \in {"none", "spinning", "cancelled", "ended"}
  /\ publisher \in {"none", "look", "nothing", "ended"}

TypeOK == SchedulerTypes /\ RequestTypes /\ BridgeTypes

\* Once on_deactivate() has returned, or an on_activate() that failed, the
\* simulation is stopped and no thread of the bridge is left, whatever service
\* was under way: a /start that passed the gate before cannot come afterwards.
QuietWhenDown ==
  pc[Manager] = "idle" /\ systemState \in {"Inactive", "Error"} =>
    /\ status = "Stopped" /\ ~live /\ ~started
    /\ ~workerRunning /\ executor = "none" /\ publisher = "none"
    /\ pc[Service] = "idle" /\ producing[Worker] = "idle"

(***************************************************************************)
(* What the safety properties rest on.                                     *)
(***************************************************************************)
\* Where the manager is, and what the hardware says of itself there.
ManagerIsAt ==
  \/ pc[Manager] = "idle" /\ systemState \in {"Inactive", "Active", "Error"}
  \/ /\ pc[Manager] \in {"start", "startBridge", "activate"}
     /\ systemState = "Activating" /\ op[Manager] = "activate"
  \/ pc[Manager] \in {"read", "publish"} /\ systemState = "Active" /\ op[Manager] = "activate"
  \/ /\ pc[Manager] \in {"stopBridge", "cancel", "joinExecutor", "joinPublisher", "stop", "join"}
     /\ \/ systemState = "Deactivating" /\ op[Manager] = "deactivate"
        \/ systemState = "Error" /\ op[Manager] = "fail"

\* Neither a thread of the bridge nor a simulation that was started.
Down == pc[Manager] = "start" \/ (pc[Manager] = "idle" /\ systemState # "Active")

\* on_activate() has succeeded.
Up == pc[Manager] = "idle" /\ systemState = "Active"

\* The bridge's threads exist from start() to the two joins of stop().
BridgeOfManager ==
  /\ Down \/ pc[Manager] \in {"startBridge", "stop", "join"} =>
       ~workerRunning /\ executor = "none" /\ publisher = "none"
  /\ pc[Manager] \in {"activate", "read", "publish", "stopBridge"} \/ Up =>
       workerRunning /\ executor = "spinning" /\ publisher \in {"look", "nothing"}
  /\ pc[Manager] = "cancel" => ~workerRunning /\ executor = "spinning"
  /\ pc[Manager] = "joinExecutor" => ~workerRunning /\ executor \in {"cancelled", "ended"}
  /\ pc[Manager] = "joinPublisher" => ~workerRunning /\ executor = "ended"

\* A service runs on the executor, and passes the gate once the hardware is active.
ServiceOnExecutor ==
  /\ pc[Service] \in {"idle", "gate", "start", "stop", "join", "request"}
  /\ pc[Service] # "idle" => executor \in {"spinning", "cancelled"}
  /\ pc[Service] \in {"start", "stop", "join", "request"} => pc[Manager] # "activate"

\* The mutex is held during simulation_->stop() and by who is in it; outside of
\* it simulation_started_ tells the scheduler's status.
StatusOfRequests ==
  /\ \A r \in Requesters : control = r <=> pc[r] = "join"
  /\ Down => ~started
  /\ IF control = NoThread
     THEN /\ status \in {"Stopped", "Running", "Paused", "Error"}
          /\ started <=> status # "Stopped"
          /\ status = "Stopped" => ~live
     ELSE started /\ status \in {"Stopping", "Stopped", "Error"}

\* The scheduler's worker is inside the task only when it owes an execution, it
\* owes one only before it ends, and it reports a failure before it does.
WorkerOwes ==
  /\ executing = Worker => granted
  /\ granted \/ producing[Worker] = "failed" => live /\ status \in {"Running", "Paused", "Stopping"}
  /\ status \in {"Running", "Paused", "Stopping"} => live
  /\ producing[Worker] \in {"fill", "enqueue", "publish", "done"} => executing = Worker
  /\ producing[Worker] = "failed" => ~granted

\* The type invariant and the safety of a hardware that is down, as one.
HardwareInv ==
  /\ TypeOK /\ ManagerIsAt /\ BridgeOfManager /\ ServiceOnExecutor
  /\ StatusOfRequests /\ WorkerOwes /\ QuietWhenDown

\* simulation_started_, by which every request decides, tells whether the
\* scheduler has to be stopped, also after the worker has failed.
StartedIsHonest == control = NoThread => (started <=> status # "Stopped")

\* No service is inside the simulation before the hardware is active: the gate
\* holds although the executor already spins while on_activate() goes on.
NoServiceBeforeActive ==
  pc[Service] \in {"start", "stop", "join", "request"} =>
    systemState \in {"Active", "Deactivating", "Error"}

\* on_activate(), on_deactivate() and every service return: joining the
\* executor never waits for a service that waits for the one who joins.
CallsReturn == \A r \in Requesters : pc[r] # "idle" ~> pc[r] = "idle"

(***************************************************************************)
(* What docs/module/robot_mujoco_ros.md says.                              *)
(***************************************************************************)
\* Line 490: a bundle belongs to one tick; so one thread fills publish_bundle_
\* at a time, and none while another reads it.
BundleIsOneTick ==
  \A p, q \in Producers :
    p # q /\ producing[p] = "fill" => producing[q] \notin {"fill", "publish"}
=============================================================================
