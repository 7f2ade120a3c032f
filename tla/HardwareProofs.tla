--------------------------- MODULE HardwareProofs ---------------------------
(***************************************************************************)
(* Proofs about HardwareInterface, for any four names of its threads: what *)
(* the manager, the services, the scheduler's worker and the bridge's      *)
(* threads each are at constrains the others (IInv), and that is enough    *)
(* for a hardware that is quiet when down, for a flag simulation_started_  *)
(* that tells the truth and for the gate of the services.                  *)
(***************************************************************************)
EXTENDS HardwareInterface, TLAPS

IInv ==
  TypeOK /\ ManagerIsAt /\ BridgeOfManager /\ ServiceOnExecutor /\ StatusOfRequests /\ WorkerOwes

\* The threads differ; abbreviations of control and of tuples are always expanded.
USE ThreadsAssumption
    DEF Goto, KeepBridge, KeepRequest, KeepOutput, KeepService, schedulerVars, requestVars, bridgeVars,
        Requesters, Producers, Services, MutexFree, Answered, NextState, ClearStarted,
        ExecutorJoined, ServiceAllowed, Produce, Publisher, Down, Up, Scheduler!SimulationStatus, TypeOK, IInv

\* A hardware that on_init() has made: nothing runs.
LEMMA Initially == Init => IInv
<1>. SUFFICES ASSUME Init PROVE IInv
  OBVIOUS
<1>. USE DEF Init
<1>1. TypeOK
  BY DEF SchedulerTypes, RequestTypes, BridgeTypes, Locations, SystemState
<1>2. ManagerIsAt /\ BridgeOfManager /\ ServiceOnExecutor
  BY DEF ManagerIsAt, BridgeOfManager, ServiceOnExecutor
<1>3. StatusOfRequests /\ WorkerOwes
  BY DEF StatusOfRequests, WorkerOwes
<1>. QED BY <1>1, <1>2, <1>3

\* The requests of the manager and of the services, under the control mutex.
LEMMA RequestKeeps ==
  ASSUME IInv, NEW r \in Requesters, Requests(r)
  PROVE  IInv'
<1>1. CASE RequestStart(r)
  <2>. USE <1>1 DEF RequestStart, Scheduler!Spawn
  <2>1. TypeOK'
    <3>1. SchedulerTypes'
      BY DEF SchedulerTypes
    <3>2. RequestTypes'
      BY DEF RequestTypes, Locations, SystemState
    <3>3. BridgeTypes'
      BY DEF BridgeTypes
    <3>. QED BY <3>1, <3>2, <3>3
  <2>2. (ManagerIsAt /\ BridgeOfManager /\ ServiceOnExecutor)'
    BY DEF RequestTypes, ManagerIsAt, BridgeOfManager, ServiceOnExecutor
  <2>3. (StatusOfRequests /\ WorkerOwes)'
    BY DEF SchedulerTypes, RequestTypes, ManagerIsAt, BridgeOfManager,
           ServiceOnExecutor, StatusOfRequests, WorkerOwes
  <2>. QED BY <2>1, <2>2, <2>3
<1>2. CASE RequestStop(r)
  <2>. USE <1>2 DEF RequestStop, Scheduler!Become
  <2>1. TypeOK'
    BY DEF SchedulerTypes, RequestTypes, BridgeTypes, Locations, SystemState
  <2>2. (ManagerIsAt /\ BridgeOfManager /\ ServiceOnExecutor)'
    BY DEF RequestTypes, ManagerIsAt, BridgeOfManager, ServiceOnExecutor
  <2>3. (StatusOfRequests /\ WorkerOwes)'
    BY DEF SchedulerTypes, RequestTypes, ManagerIsAt, BridgeOfManager,
           ServiceOnExecutor, StatusOfRequests, WorkerOwes
  <2>. QED BY <2>1, <2>2, <2>3
<1>3. CASE StopSimulation(r)
  <2>. USE <1>3 DEF StopSimulation, Scheduler!Reap, Scheduler!StopReturns, Scheduler!Become
  <2>1. TypeOK'
    <3>1. SchedulerTypes'
      BY DEF SchedulerTypes
    <3>2. RequestTypes'
      BY DEF RequestTypes, Locations, SystemState
    <3>3. BridgeTypes'
      BY DEF BridgeTypes
    <3>. QED BY <3>1, <3>2, <3>3
  <2>2. (ManagerIsAt /\ BridgeOfManager /\ ServiceOnExecutor)'
    BY DEF RequestTypes, ManagerIsAt, BridgeOfManager, ServiceOnExecutor
  <2>3. (StatusOfRequests /\ WorkerOwes)'
    BY DEF SchedulerTypes, RequestTypes, ManagerIsAt, BridgeOfManager,
           ServiceOnExecutor, StatusOfRequests, WorkerOwes
  <2>. QED BY <2>1, <2>2, <2>3
<1>4. CASE RequestPauseOrResume(r)
  <2>. USE <1>4 DEF RequestPauseOrResume, Scheduler!Become
  <2>1. TypeOK'
    BY DEF SchedulerTypes, RequestTypes, BridgeTypes, Locations, SystemState
  <2>2. (ManagerIsAt /\ BridgeOfManager /\ ServiceOnExecutor)'
    BY DEF RequestTypes, ManagerIsAt, BridgeOfManager, ServiceOnExecutor
  <2>3. (StatusOfRequests /\ WorkerOwes)'
    BY DEF SchedulerTypes, RequestTypes, ManagerIsAt, BridgeOfManager,
           ServiceOnExecutor, StatusOfRequests, WorkerOwes
  <2>. QED BY <2>1, <2>2, <2>3
<1>. QED BY <1>1, <1>2, <1>3, <1>4 DEF Requests

\* on_activate(): the bridge is started, and stopped again if a step fails.
LEMMA ActivationKeeps ==
  ASSUME IInv, OnActivate \/ StartBridge \/ Activate \/ ReadState \/ InitialPublished
  PROVE  IInv'
<1>1. CASE OnActivate
  <2>. USE <1>1 DEF OnActivate
  <2>1. TypeOK'
    BY DEF SchedulerTypes, RequestTypes, BridgeTypes, Locations, SystemState
  <2>2. (ManagerIsAt /\ BridgeOfManager /\ ServiceOnExecutor)'
    BY DEF RequestTypes, ManagerIsAt, BridgeOfManager, ServiceOnExecutor
  <2>3. (StatusOfRequests /\ WorkerOwes)'
    BY DEF SchedulerTypes, RequestTypes, ManagerIsAt, BridgeOfManager,
           ServiceOnExecutor, StatusOfRequests, WorkerOwes
  <2>. QED BY <2>1, <2>2, <2>3
<1>2. CASE StartBridge
  <2>. USE <1>2 DEF StartBridge
  <2>1. TypeOK'
    BY DEF SchedulerTypes, RequestTypes, BridgeTypes, Locations, SystemState
  <2>2. (ManagerIsAt /\ BridgeOfManager /\ ServiceOnExecutor)'
    BY DEF RequestTypes, ManagerIsAt, BridgeOfManager, ServiceOnExecutor
  <2>3. (StatusOfRequests /\ WorkerOwes)'
    BY DEF SchedulerTypes, RequestTypes, ManagerIsAt, BridgeOfManager,
           ServiceOnExecutor, StatusOfRequests, WorkerOwes
  <2>. QED BY <2>1, <2>2, <2>3
<1>3. CASE Activate
  <2>. USE <1>3 DEF Activate
  <2>1. TypeOK'
    BY DEF SchedulerTypes, RequestTypes, BridgeTypes, Locations, SystemState
  <2>2. (ManagerIsAt /\ BridgeOfManager /\ ServiceOnExecutor)'
    BY DEF RequestTypes, ManagerIsAt, BridgeOfManager, ServiceOnExecutor
  <2>3. (StatusOfRequests /\ WorkerOwes)'
    BY DEF SchedulerTypes, RequestTypes, ManagerIsAt, BridgeOfManager,
           ServiceOnExecutor, StatusOfRequests, WorkerOwes
  <2>. QED BY <2>1, <2>2, <2>3
<1>4. CASE ReadState
  <2>. USE <1>4 DEF ReadState
  <2>1. TypeOK'
    BY DEF SchedulerTypes, RequestTypes, BridgeTypes, Locations, SystemState
  <2>2. (ManagerIsAt /\ BridgeOfManager /\ ServiceOnExecutor)'
    BY DEF RequestTypes, ManagerIsAt, BridgeOfManager, ServiceOnExecutor
  <2>3. (StatusOfRequests /\ WorkerOwes)'
    BY DEF SchedulerTypes, RequestTypes, ManagerIsAt, BridgeOfManager,
           ServiceOnExecutor, StatusOfRequests, WorkerOwes
  <2>. QED BY <2>1, <2>2, <2>3
<1>5. CASE InitialPublished
  <2>. USE <1>5 DEF InitialPublished
  <2>1. TypeOK'
    BY DEF SchedulerTypes, RequestTypes, BridgeTypes, Locations, SystemState
  <2>2. (ManagerIsAt /\ BridgeOfManager /\ ServiceOnExecutor)'
    BY DEF RequestTypes, ManagerIsAt, BridgeOfManager, ServiceOnExecutor
  <2>3. (StatusOfRequests /\ WorkerOwes)'
    BY DEF SchedulerTypes, RequestTypes, ManagerIsAt, BridgeOfManager,
           ServiceOnExecutor, StatusOfRequests, WorkerOwes
  <2>. QED BY <2>1, <2>2, <2>3
<1>. QED BY <1>1, <1>2, <1>3, <1>4, <1>5

\* on_deactivate(): the bridge is stopped, its two threads joined in turn.
LEMMA DeactivationKeeps ==
  ASSUME IInv, OnDeactivate \/ StopBridge \/ CancelExecutor \/ JoinExecutor \/ JoinPublisher
  PROVE  IInv'
<1>1. CASE OnDeactivate
  <2>. USE <1>1 DEF OnDeactivate
  <2>1. TypeOK'
    BY DEF SchedulerTypes, RequestTypes, BridgeTypes, Locations, SystemState
  <2>2. (ManagerIsAt /\ BridgeOfManager /\ ServiceOnExecutor)'
    BY DEF RequestTypes, ManagerIsAt, BridgeOfManager, ServiceOnExecutor
  <2>3. (StatusOfRequests /\ WorkerOwes)'
    BY DEF SchedulerTypes, RequestTypes, ManagerIsAt, BridgeOfManager,
           ServiceOnExecutor, StatusOfRequests, WorkerOwes
  <2>. QED BY <2>1, <2>2, <2>3
<1>2. CASE StopBridge
  <2>. USE <1>2 DEF StopBridge
  <2>1. TypeOK'
    <3>1. SchedulerTypes'
      BY DEF SchedulerTypes
    <3>2. RequestTypes'
      BY DEF RequestTypes, Locations, SystemState
    <3>3. BridgeTypes'
      BY DEF BridgeTypes
    <3>. QED BY <3>1, <3>2, <3>3
  <2>2. (ManagerIsAt /\ BridgeOfManager /\ ServiceOnExecutor)'
    BY DEF RequestTypes, ManagerIsAt, BridgeOfManager, ServiceOnExecutor
  <2>3. (StatusOfRequests /\ WorkerOwes)'
    BY DEF SchedulerTypes, RequestTypes, ManagerIsAt, BridgeOfManager,
           ServiceOnExecutor, StatusOfRequests, WorkerOwes
  <2>. QED BY <2>1, <2>2, <2>3
<1>3. CASE CancelExecutor
  <2>. USE <1>3 DEF CancelExecutor
  <2>1. TypeOK'
    BY DEF SchedulerTypes, RequestTypes, BridgeTypes, Locations, SystemState
  <2>2. (ManagerIsAt /\ BridgeOfManager /\ ServiceOnExecutor)'
    BY DEF RequestTypes, ManagerIsAt, BridgeOfManager, ServiceOnExecutor
  <2>3. (StatusOfRequests /\ WorkerOwes)'
    BY DEF SchedulerTypes, RequestTypes, ManagerIsAt, BridgeOfManager,
           ServiceOnExecutor, StatusOfRequests, WorkerOwes
  <2>. QED BY <2>1, <2>2, <2>3
<1>4. CASE JoinExecutor
  <2>. USE <1>4 DEF JoinExecutor
  <2>1. TypeOK'
    BY DEF SchedulerTypes, RequestTypes, BridgeTypes, Locations, SystemState
  <2>2. (ManagerIsAt /\ BridgeOfManager /\ ServiceOnExecutor)'
    BY DEF RequestTypes, ManagerIsAt, BridgeOfManager, ServiceOnExecutor
  <2>3. (StatusOfRequests /\ WorkerOwes)'
    BY DEF SchedulerTypes, RequestTypes, ManagerIsAt, BridgeOfManager,
           ServiceOnExecutor, StatusOfRequests, WorkerOwes
  <2>. QED BY <2>1, <2>2, <2>3
<1>5. CASE JoinPublisher
  <2>. USE <1>5 DEF JoinPublisher
  <2>1. TypeOK'
    BY DEF SchedulerTypes, RequestTypes, BridgeTypes, Locations, SystemState
  <2>2. (ManagerIsAt /\ BridgeOfManager /\ ServiceOnExecutor)'
    BY DEF RequestTypes, ManagerIsAt, BridgeOfManager, ServiceOnExecutor
  <2>3. (StatusOfRequests /\ WorkerOwes)'
    BY DEF SchedulerTypes, RequestTypes, ManagerIsAt, BridgeOfManager,
           ServiceOnExecutor, StatusOfRequests, WorkerOwes
  <2>. QED BY <2>1, <2>2, <2>3
<1>. QED BY <1>1, <1>2, <1>3, <1>4, <1>5

\* A service begins while the executor spins, and passes the gate or not.
LEMMA ServiceKeeps ==
  ASSUME IInv, NEW o \in Services, CallService(o) \/ Gate \/ ExecutorEnds
  PROVE  IInv'
<1>1. CASE CallService(o)
  <2>. USE <1>1 DEF CallService
  <2>1. TypeOK'
    BY DEF SchedulerTypes, RequestTypes, BridgeTypes, Locations, SystemState
  <2>2. (ManagerIsAt /\ BridgeOfManager /\ ServiceOnExecutor)'
    BY DEF RequestTypes, ManagerIsAt, BridgeOfManager, ServiceOnExecutor
  <2>3. (StatusOfRequests /\ WorkerOwes)'
    BY DEF SchedulerTypes, RequestTypes, ManagerIsAt, BridgeOfManager,
           ServiceOnExecutor, StatusOfRequests, WorkerOwes
  <2>. QED BY <2>1, <2>2, <2>3
<1>2. CASE Gate
  <2>. USE <1>2 DEF Gate
  <2>1. TypeOK'
    BY DEF SchedulerTypes, RequestTypes, BridgeTypes, Locations, SystemState
  <2>2. (ManagerIsAt /\ BridgeOfManager /\ ServiceOnExecutor)'
    BY DEF RequestTypes, ManagerIsAt, BridgeOfManager, ServiceOnExecutor
  <2>3. (StatusOfRequests /\ WorkerOwes)'
    BY DEF SchedulerTypes, RequestTypes, ManagerIsAt, BridgeOfManager,
           ServiceOnExecutor, StatusOfRequests, WorkerOwes
  <2>. QED BY <2>1, <2>2, <2>3
<1>3. CASE ExecutorEnds
  <2>. USE <1>3 DEF ExecutorEnds
  <2>1. TypeOK'
    BY DEF SchedulerTypes, RequestTypes, BridgeTypes, Locations, SystemState
  <2>2. (ManagerIsAt /\ BridgeOfManager /\ ServiceOnExecutor)'
    BY DEF RequestTypes, ManagerIsAt, BridgeOfManager, ServiceOnExecutor
  <2>3. (StatusOfRequests /\ WorkerOwes)'
    BY DEF SchedulerTypes, RequestTypes, ManagerIsAt, BridgeOfManager,
           ServiceOnExecutor, StatusOfRequests, WorkerOwes
  <2>. QED BY <2>1, <2>2, <2>3
<1>. QED BY <1>1, <1>2, <1>3

\* A bundle is filled and put into the channel, by the manager or the worker.
LEMMA ProductionKeeps ==
  ASSUME IInv, NEW p \in Producers, FillBundle(p) \/ Enqueue(p) \/ PublishBundle(p)
  PROVE  IInv'
<1>1. CASE FillBundle(p)
  <2>. USE <1>1 DEF FillBundle
  <2>1. TypeOK'
    BY DEF SchedulerTypes, RequestTypes, BridgeTypes, Locations, SystemState
  <2>2. (ManagerIsAt /\ BridgeOfManager /\ ServiceOnExecutor)'
    BY DEF RequestTypes, ManagerIsAt, BridgeOfManager, ServiceOnExecutor
  <2>3. (StatusOfRequests /\ WorkerOwes)'
    BY DEF SchedulerTypes, RequestTypes, ManagerIsAt, BridgeOfManager,
           ServiceOnExecutor, StatusOfRequests, WorkerOwes
  <2>. QED BY <2>1, <2>2, <2>3
<1>2. CASE Enqueue(p)
  <2>. USE <1>2 DEF Enqueue
  <2>1. TypeOK'
    BY DEF SchedulerTypes, RequestTypes, BridgeTypes, Locations, SystemState
  <2>2. (ManagerIsAt /\ BridgeOfManager /\ ServiceOnExecutor)'
    BY DEF RequestTypes, ManagerIsAt, BridgeOfManager, ServiceOnExecutor
  <2>3. (StatusOfRequests /\ WorkerOwes)'
    BY DEF SchedulerTypes, RequestTypes, ManagerIsAt, BridgeOfManager,
           ServiceOnExecutor, StatusOfRequests, WorkerOwes
  <2>. QED BY <2>1, <2>2, <2>3
<1>3. CASE PublishBundle(p)
  <2>. USE <1>3 DEF PublishBundle
  <2>1. TypeOK'
    <3>1. SchedulerTypes'
      BY DEF SchedulerTypes
    <3>2. RequestTypes'
      BY DEF RequestTypes, Locations, SystemState
    <3>3. BridgeTypes'
      BY DEF BridgeTypes
    <3>. QED BY <3>1, <3>2, <3>3
  <2>2. (ManagerIsAt /\ BridgeOfManager /\ ServiceOnExecutor)'
    BY DEF RequestTypes, ManagerIsAt, BridgeOfManager, ServiceOnExecutor
  <2>3. (StatusOfRequests /\ WorkerOwes)'
    BY DEF SchedulerTypes, RequestTypes, ManagerIsAt, BridgeOfManager,
           ServiceOnExecutor, StatusOfRequests, WorkerOwes
  <2>. QED BY <2>1, <2>2, <2>3
<1>. QED BY <1>1, <1>2, <1>3

\* The scheduler's worker, around the snapshot observer.
LEMMA WorkerKeeps ==
  ASSUME IInv, GrantExecution \/ BeginExecution \/ Observe \/ ExecutionEnds \/ ReportError \/ RetireWorker
  PROVE  IInv'
<1>1. CASE GrantExecution
  <2>. USE <1>1 DEF GrantExecution, Scheduler!Grant
  <2>1. TypeOK'
    BY DEF SchedulerTypes, RequestTypes, BridgeTypes, Locations, SystemState
  <2>2. (ManagerIsAt /\ BridgeOfManager /\ ServiceOnExecutor)'
    BY DEF RequestTypes, ManagerIsAt, BridgeOfManager, ServiceOnExecutor
  <2>3. (StatusOfRequests /\ WorkerOwes)'
    BY DEF SchedulerTypes, RequestTypes, ManagerIsAt, BridgeOfManager,
           ServiceOnExecutor, StatusOfRequests, WorkerOwes
  <2>. QED BY <2>1, <2>2, <2>3
<1>2. CASE BeginExecution
  <2>. USE <1>2 DEF BeginExecution, Scheduler!Begin
  <2>1. TypeOK'
    BY DEF SchedulerTypes, RequestTypes, BridgeTypes, Locations, SystemState
  <2>2. (ManagerIsAt /\ BridgeOfManager /\ ServiceOnExecutor)'
    BY DEF RequestTypes, ManagerIsAt, BridgeOfManager, ServiceOnExecutor
  <2>3. (StatusOfRequests /\ WorkerOwes)'
    BY DEF SchedulerTypes, RequestTypes, ManagerIsAt, BridgeOfManager,
           ServiceOnExecutor, StatusOfRequests, WorkerOwes
  <2>. QED BY <2>1, <2>2, <2>3
<1>3. CASE Observe
  <2>. USE <1>3 DEF Observe
  <2>1. TypeOK'
    BY DEF SchedulerTypes, RequestTypes, BridgeTypes, Locations, SystemState
  <2>2. (ManagerIsAt /\ BridgeOfManager /\ ServiceOnExecutor)'
    BY DEF RequestTypes, ManagerIsAt, BridgeOfManager, ServiceOnExecutor
  <2>3. (StatusOfRequests /\ WorkerOwes)'
    BY DEF SchedulerTypes, RequestTypes, ManagerIsAt, BridgeOfManager,
           ServiceOnExecutor, StatusOfRequests, WorkerOwes
  <2>. QED BY <2>1, <2>2, <2>3
<1>4. CASE ExecutionEnds
  <2>. USE <1>4 DEF ExecutionEnds, Scheduler!End
  <2>1. TypeOK'
    BY DEF SchedulerTypes, RequestTypes, BridgeTypes, Locations, SystemState
  <2>2. (ManagerIsAt /\ BridgeOfManager /\ ServiceOnExecutor)'
    BY DEF RequestTypes, ManagerIsAt, BridgeOfManager, ServiceOnExecutor
  <2>3. (StatusOfRequests /\ WorkerOwes)'
    <3>1. StatusOfRequests'
      BY DEF SchedulerTypes, StatusOfRequests
    <3>2. WorkerOwes'
      BY DEF SchedulerTypes, StatusOfRequests, WorkerOwes
    <3>. QED BY <3>1, <3>2
  <2>. QED BY <2>1, <2>2, <2>3
<1>5. CASE ReportError
  <2>. USE <1>5 DEF ReportError, Scheduler!Fail, Scheduler!Become
  <2>1. TypeOK'
    BY DEF SchedulerTypes, RequestTypes, BridgeTypes, Locations, SystemState
  <2>2. (ManagerIsAt /\ BridgeOfManager /\ ServiceOnExecutor)'
    BY DEF RequestTypes, ManagerIsAt, BridgeOfManager, ServiceOnExecutor
  <2>3. (StatusOfRequests /\ WorkerOwes)'
    BY DEF SchedulerTypes, RequestTypes, ManagerIsAt, BridgeOfManager,
           ServiceOnExecutor, StatusOfRequests, WorkerOwes
  <2>. QED BY <2>1, <2>2, <2>3
<1>6. CASE RetireWorker
  <2>. USE <1>6 DEF RetireWorker, Scheduler!Retire, Scheduler!Become
  <2>1. TypeOK'
    BY DEF SchedulerTypes, RequestTypes, BridgeTypes, Locations, SystemState
  <2>2. (ManagerIsAt /\ BridgeOfManager /\ ServiceOnExecutor)'
    BY DEF RequestTypes, ManagerIsAt, BridgeOfManager, ServiceOnExecutor
  <2>3. (StatusOfRequests /\ WorkerOwes)'
    BY DEF SchedulerTypes, RequestTypes, ManagerIsAt, BridgeOfManager,
           ServiceOnExecutor, StatusOfRequests, WorkerOwes
  <2>. QED BY <2>1, <2>2, <2>3
<1>. QED BY <1>1, <1>2, <1>3, <1>4, <1>5, <1>6

\* The publish worker empties the channel, and ends after worker_running_ was cleared.
LEMMA PublishingKeeps ==
  ASSUME IInv, Publishing
  PROVE  IInv'
<1>1. CASE TakeBundle
  <2>. USE <1>1 DEF TakeBundle
  <2>1. TypeOK'
    <3>1. SchedulerTypes'
      BY DEF SchedulerTypes
    <3>2. RequestTypes'
      BY DEF RequestTypes, Locations, SystemState
    <3>3. BridgeTypes'
      BY DEF BridgeTypes
    <3>. QED BY <3>1, <3>2, <3>3
  <2>2. (ManagerIsAt /\ BridgeOfManager /\ ServiceOnExecutor)'
    BY DEF RequestTypes, ManagerIsAt, BridgeOfManager, ServiceOnExecutor
  <2>3. (StatusOfRequests /\ WorkerOwes)'
    BY DEF SchedulerTypes, RequestTypes, ManagerIsAt, BridgeOfManager,
           ServiceOnExecutor, StatusOfRequests, WorkerOwes
  <2>. QED BY <2>1, <2>2, <2>3
<1>2. CASE FindNothing
  <2>. USE <1>2 DEF FindNothing
  <2>1. TypeOK'
    BY DEF SchedulerTypes, RequestTypes, BridgeTypes, Locations, SystemState
  <2>2. (ManagerIsAt /\ BridgeOfManager /\ ServiceOnExecutor)'
    BY DEF RequestTypes, ManagerIsAt, BridgeOfManager, ServiceOnExecutor
  <2>3. (StatusOfRequests /\ WorkerOwes)'
    BY DEF SchedulerTypes, RequestTypes, ManagerIsAt, BridgeOfManager,
           ServiceOnExecutor, StatusOfRequests, WorkerOwes
  <2>. QED BY <2>1, <2>2, <2>3
<1>3. CASE PublisherTurns
  <2>. USE <1>3 DEF PublisherTurns
  <2>1. TypeOK'
    BY DEF SchedulerTypes, RequestTypes, BridgeTypes, Locations, SystemState
  <2>2. (ManagerIsAt /\ BridgeOfManager /\ ServiceOnExecutor)'
    BY DEF RequestTypes, ManagerIsAt, BridgeOfManager, ServiceOnExecutor
  <2>3. (StatusOfRequests /\ WorkerOwes)'
    BY DEF SchedulerTypes, RequestTypes, ManagerIsAt, BridgeOfManager,
           ServiceOnExecutor, StatusOfRequests, WorkerOwes
  <2>. QED BY <2>1, <2>2, <2>3
<1>. QED BY <1>1, <1>2, <1>3 DEF Publishing

\* No interleaving of the threads breaks the invariant.
LEMMA StepKeeps == IInv /\ [Next]_vars => IInv'
<1>. SUFFICES ASSUME IInv, [Next]_vars PROVE IInv'
  OBVIOUS
<1>1. CASE UNCHANGED vars
  <2>. USE <1>1 DEF vars
  <2>1. TypeOK'
    BY DEF SchedulerTypes, RequestTypes, BridgeTypes
  <2>2. (ManagerIsAt /\ BridgeOfManager /\ ServiceOnExecutor)'
    BY DEF ManagerIsAt, BridgeOfManager, ServiceOnExecutor
  <2>3. (StatusOfRequests /\ WorkerOwes)'
    BY DEF StatusOfRequests, WorkerOwes
  <2>. QED BY <2>1, <2>2, <2>3
<1>. QED
  BY <1>1, RequestKeeps, ActivationKeeps, DeactivationKeeps, ServiceKeeps, ProductionKeeps,
     WorkerKeeps, PublishingKeeps DEF Next, Managing, Serving, Working

\* A hardware that is down: who could hold the mutex, owe an execution or serve
\* a request is not there.
LEMMA DownIsQuiet == IInv => QuietWhenDown
<1>. SUFFICES ASSUME IInv, pc[Manager] = "idle", systemState \in {"Inactive", "Error"}
              PROVE  QuietWhenDown
  BY DEF QuietWhenDown
<1>1. ~started /\ ~workerRunning /\ executor = "none" /\ publisher = "none" /\ pc[Service] = "idle"
  BY DEF StatusOfRequests, BridgeOfManager, ServiceOnExecutor
<1>2. control = NoThread
  BY <1>1 DEF RequestTypes, StatusOfRequests
<1>3. status = "Stopped" /\ ~live
  BY <1>1, <1>2 DEF StatusOfRequests
<1>4. producing[Worker] = "idle"
  BY <1>3 DEF SchedulerTypes, WorkerOwes
<1>. QED BY <1>1, <1>3, <1>4 DEF QuietWhenDown

-----------------------------------------------------------------------------
\* In every reachable state the threads are where the others may expect them,
\* and a hardware that is down has no thread and no started simulation left.
THEOREM HardwareIsSound == Spec => []HardwareInv
<1>1. IInv => HardwareInv
  BY DownIsQuiet DEF HardwareInv
<1>. QED BY Initially, StepKeeps, <1>1, PTL DEF Spec

\* Once on_deactivate() or a failed on_activate() has returned nothing runs.
THEOREM DownHardwareIsQuiet == Spec => []QuietWhenDown
BY Initially, StepKeeps, DownIsQuiet, PTL DEF Spec

\* simulation_started_ is TRUE exactly when the scheduler has to be stopped,
\* whenever a request could look at it.
THEOREM StartedTellsTheTruth == Spec => []StartedIsHonest
<1>1. IInv => StartedIsHonest
  BY DEF StatusOfRequests, StartedIsHonest
<1>. QED BY Initially, StepKeeps, <1>1, PTL DEF Spec

\* The gate keeps every service out of a simulation that is not active yet.
THEOREM GateHolds == Spec => []NoServiceBeforeActive
<1>1. IInv => NoServiceBeforeActive
  BY DEF RequestTypes, BridgeTypes, ManagerIsAt, BridgeOfManager, ServiceOnExecutor,
         NoServiceBeforeActive
<1>. QED BY Initially, StepKeeps, <1>1, PTL DEF Spec

\* The hardware interface, through its requests and the worker around its observer,
\* takes the scheduler through no steps but those of the lifecycle.
THEOREM FollowsLifecycle == Spec => [][Scheduler!LifecycleNext]_(Scheduler!lifecycleVars)
<1>1. [Next]_vars => [Scheduler!LifecycleNext]_(Scheduler!lifecycleVars)
  <2>. SUFFICES ASSUME [Next]_vars PROVE Scheduler!LifecycleNext \/ UNCHANGED Scheduler!lifecycleVars
    OBVIOUS
  <2>. USE DEF Scheduler!LifecycleNext, Scheduler!lifecycleVars, Scheduler!Control
  <2>1. ASSUME NEW r \in Requesters, Requests(r) PROVE Scheduler!LifecycleNext \/ UNCHANGED Scheduler!lifecycleVars
    BY <2>1 DEF Requests, RequestStart, RequestStop, StopSimulation, RequestPauseOrResume
  <2>2. CASE \E p \in Producers : FillBundle(p) \/ Enqueue(p) \/ PublishBundle(p)
    BY <2>2 DEF FillBundle, Enqueue, PublishBundle
  <2>3. CASE \/ OnActivate \/ OnDeactivate \/ StartBridge \/ Activate \/ ReadState \/ InitialPublished
             \/ StopBridge \/ CancelExecutor \/ JoinExecutor \/ JoinPublisher
    BY <2>3 DEF OnActivate, OnDeactivate, StartBridge, Activate, ReadState, InitialPublished,
                StopBridge, CancelExecutor, JoinExecutor, JoinPublisher
  <2>4. CASE (\E o \in Services : CallService(o)) \/ Gate \/ ExecutorEnds \/ Publishing
    BY <2>4 DEF CallService, Gate, ExecutorEnds, Publishing, TakeBundle, FindNothing, PublisherTurns
  <2>5. CASE GrantExecution \/ BeginExecution \/ Observe \/ ExecutionEnds \/ ReportError \/ RetireWorker
    BY <2>5 DEF GrantExecution, BeginExecution, Observe, ExecutionEnds, ReportError, RetireWorker
  <2>6. CASE UNCHANGED vars
    BY <2>6 DEF vars
  <2>. QED BY <2>1, <2>2, <2>3, <2>4, <2>5, <2>6 DEF Next, Managing, Serving, Working
<1>. QED BY <1>1, PTL DEF Spec

-----------------------------------------------------------------------------
(***************************************************************************)
(* Who fills the bundle.                                                   *)
(***************************************************************************)
InProduction(p) == producing[p] \in {"fill", "enqueue", "publish"}
ManagerProduces == producing[Manager] # "idle" => pc[Manager] = "publish"

\* Two threads are in publish_snapshot_to_channel at one time only while
\* on_activate() publishes the initial snapshot of an Active hardware.
OneProducerElsewhere ==
  InProduction(Manager) /\ InProduction(Worker) =>
    /\ pc[Manager] = "publish" /\ op[Manager] = "activate"
    /\ systemState = "Active" /\ workerRunning /\ executing = Worker

\* publish_bundle_ has one producer, as PublishChannel assumes, but for the initial
\* snapshot of on_activate(), where the observer may fill it too: whatever services and
\* deactivations come in between, there is no other way to have two.
THEOREM OneProducerIsEnough == Spec => []OneProducerElsewhere
<1>1. Init => ManagerProduces
  BY DEF Init, ManagerProduces
<1>2. IInv /\ ManagerProduces /\ [Next]_vars => ManagerProduces'
  <2>. SUFFICES ASSUME IInv, ManagerProduces, [Next]_vars PROVE ManagerProduces'
    OBVIOUS
  <2>. USE DEF ManagerProduces, SchedulerTypes, RequestTypes, ManagerIsAt
  <2>1. ASSUME NEW r \in Requesters, Requests(r) PROVE ManagerProduces'
    BY <2>1 DEF Requests, RequestStart, RequestStop, StopSimulation, RequestPauseOrResume
  <2>2. CASE \E p \in Producers : FillBundle(p) \/ Enqueue(p) \/ PublishBundle(p)
    BY <2>2 DEF FillBundle, Enqueue, PublishBundle
  <2>3. CASE \/ OnActivate \/ OnDeactivate \/ StartBridge \/ Activate \/ ReadState \/ InitialPublished
             \/ StopBridge \/ CancelExecutor \/ JoinExecutor \/ JoinPublisher
    BY <2>3 DEF OnActivate, OnDeactivate, StartBridge, Activate, ReadState, InitialPublished,
                StopBridge, CancelExecutor, JoinExecutor, JoinPublisher, KeepOutput
  <2>4. CASE (\E o \in Services : CallService(o)) \/ Gate \/ ExecutorEnds \/ Publishing
    BY <2>4 DEF CallService, Gate, ExecutorEnds, Publishing, TakeBundle, FindNothing, PublisherTurns
  <2>5. CASE GrantExecution \/ BeginExecution \/ Observe \/ ExecutionEnds \/ ReportError \/ RetireWorker
    BY <2>5 DEF GrantExecution, BeginExecution, Observe, ExecutionEnds, ReportError, RetireWorker
  <2>6. CASE UNCHANGED vars
    BY <2>6 DEF vars
  <2>. QED BY <2>1, <2>2, <2>3, <2>4, <2>5, <2>6 DEF Next, Managing, Serving, Working
<1>3. IInv /\ ManagerProduces => OneProducerElsewhere
  BY DEF ManagerProduces, OneProducerElsewhere, InProduction, ManagerIsAt, BridgeOfManager, WorkerOwes
<1>. QED BY Initially, StepKeeps, <1>1, <1>2, <1>3, PTL DEF Spec
=============================================================================
