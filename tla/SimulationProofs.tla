-------------------------- MODULE SimulationProofs --------------------------
(***************************************************************************)
(* Proofs about Simulation for any configurations and any bounds on steps, *)
(* resets and commands: SimulationInv, the observer's invariant and the    *)
(* coherence of a snapshot are inductive together, and the two action      *)
(* properties follow from them.                                            *)
(***************************************************************************)
EXTENDS Simulation, Integers, TLAPS

\* What every step of simulation.cpp keeps.
IInv == SimulationInv /\ EverySnapshotObserved /\ SnapshotCoherent

\* The part that the control operations and the scheduler are about ...
LifecycleInv == LifecycleTypes /\ ExecutionIsGranted /\ StatusTells /\ FailedWorkerEnds

\* ... and the part that the data and the records of it are about.
RecordInv ==
  /\ DataTypes /\ RecordTypes
  /\ CountersAgree /\ SnapshotIsBehind /\ SampleIsBehind /\ CommandIsLatest
  /\ EverySnapshotObserved /\ SnapshotCoherent

-----------------------------------------------------------------------------
\* Abbreviations: always expanded.
USE DEF schedulerVars, objectVars, dataVars, recordVars, observerVars, Seen, PcGoto, KeepRecords, Phase,
        KeepScheduler, RuntimeFree, ViewerFree, Scheduler!Become

\* The two parts are the whole.
LEMMA Parts == IInv <=> LifecycleInv /\ RecordInv
BY DEF IInv, LifecycleInv, RecordInv, SimulationInv, TypeOK

\* The bounds are natural numbers and a configuration has a viewer or not and a
\* period.
LEMMA Bounds ==
  /\ MaxStep \in Nat /\ MaxReset \in Nat /\ MaxCommand \in Nat
  /\ Worker # NoThread
  /\ \A c \in Configs : c.viewer \in BOOLEAN /\ c.period \in Nat
BY BoundsAssumption

\* An object that has not been initialized satisfies the invariant.
LEMMA Initially == Init => IInv
<1>. SUFFICES ASSUME Init PROVE LifecycleInv /\ RecordInv
  BY Parts
<1>. USE Bounds DEF Init, Scheduler!LifecycleInit
<1>1. LifecycleInv
  BY DEF LifecycleInv, LifecycleTypes, ExecutionIsGranted, StatusTells, FailedWorkerEnds,
         Scheduler!SimulationStatus, ControlLocations, Phases
<1>2. DataTypes /\ RecordTypes
  <2>1. NoCommand \in Commands /\ NoSample \in Samples
    BY DEF Commands, NoCommand, Samples, NoSample
  <2>2. NoSnapshot \in Snapshots
    BY <2>1 DEF Snapshots, NoSnapshot
  <2>3. DataTypes
    BY <2>1 DEF DataTypes, NoCommand
  <2>4. step \in 0..MaxStep /\ sequence \in 0..MaxStep + 1 /\ observed \in 0..MaxStep + 1 /\ nextTime \in Nat
    OBVIOUS
  <2>5. observer \in BOOLEAN /\ taken \in BOOLEAN /\ sample \in Samples /\ snapshot \in Snapshots
    BY <2>1, <2>2
  <2>. QED BY <2>3, <2>4, <2>5 DEF RecordTypes
<1>3. CountersAgree /\ SnapshotIsBehind /\ SampleIsBehind /\ CommandIsLatest
  BY DEF CountersAgree, SnapshotIsBehind, SampleIsBehind, CommandIsLatest, NoCommand, NoSample,
         NoSnapshot
<1>4. EverySnapshotObserved /\ SnapshotCoherent
  BY DEF EverySnapshotObserved, SnapshotCoherent, NoSample, NoSnapshot
<1>. QED BY <1>1, <1>2, <1>3, <1>4 DEF RecordInv

-----------------------------------------------------------------------------
(***************************************************************************)
(* The lifecycle.                                                          *)
(***************************************************************************)
\* A step of a control operation keeps the lifecycle.
LEMMA ControlKeepsLifecycle ==
  ASSUME LifecycleInv,
         \/ Initialize \/ Call("start") \/ Call("stop") \/ Control
         \/ PauseOrResume("Running", "Paused") \/ PauseOrResume("Paused", "Running")
  PROVE  LifecycleInv'
<1>. USE Bounds DEF LifecycleInv, Scheduler!SimulationStatus, ControlLocations, Phases
<1>1. CASE Initialize
  <2>. USE <1>1 DEF Initialize, Scheduler!Configure
  <2>1. LifecycleTypes'
    BY DEF LifecycleTypes
  <2>2. ExecutionIsGranted' /\ StatusTells' /\ FailedWorkerEnds'
    BY DEF LifecycleTypes, ExecutionIsGranted, StatusTells, FailedWorkerEnds
  <2>. QED BY <2>1, <2>2
<1>2. CASE Call("start") \/ Call("stop")
  BY <1>2 DEF Call, LifecycleTypes, ExecutionIsGranted, StatusTells, FailedWorkerEnds
<1>3. CASE PauseOrResume("Running", "Paused") \/ PauseOrResume("Paused", "Running")
  BY <1>3 DEF PauseOrResume, LifecycleTypes, ExecutionIsGranted, StatusTells, FailedWorkerEnds
<1>4. CASE StartLooks \/ StartViewer \/ StoreViewer \/ ClearFailed
  <2>. USE <1>4 DEF StartLooks, StartViewer, StoreViewer, ClearFailed
  <2>1. LifecycleTypes'
    BY DEF LifecycleTypes
  <2>2. ExecutionIsGranted' /\ StatusTells' /\ FailedWorkerEnds'
    BY DEF LifecycleTypes, ExecutionIsGranted, StatusTells, FailedWorkerEnds
  <2>. QED BY <2>1, <2>2
<1>5. CASE SpawnWorker
  <2>. USE <1>5 DEF SpawnWorker, Scheduler!Spawn
  <2>1. LifecycleTypes'
    BY DEF LifecycleTypes
  <2>2. ExecutionIsGranted' /\ StatusTells' /\ FailedWorkerEnds'
    BY DEF LifecycleTypes, ExecutionIsGranted, StatusTells, FailedWorkerEnds
  <2>. QED BY <2>1, <2>2
<1>6. CASE StopScheduler
  <2>. USE <1>6 DEF StopScheduler
  <2>1. LifecycleTypes'
    BY DEF LifecycleTypes
  <2>2. ExecutionIsGranted' /\ StatusTells' /\ FailedWorkerEnds'
    BY DEF LifecycleTypes, ExecutionIsGranted, StatusTells, FailedWorkerEnds
  <2>. QED BY <2>1, <2>2
<1>7. CASE JoinWorker \/ SchedulerStopped
  <2>. USE <1>7 DEF JoinWorker, SchedulerStopped, Scheduler!Reap, Scheduler!StopReturns
  <2>1. LifecycleTypes'
    BY DEF LifecycleTypes
  <2>2. ExecutionIsGranted' /\ StatusTells' /\ FailedWorkerEnds'
    BY DEF LifecycleTypes, ExecutionIsGranted, StatusTells, FailedWorkerEnds
  <2>. QED BY <2>1, <2>2
<1>8. CASE Unfail \/ StopViewer
  <2>. USE <1>8 DEF Unfail, StopViewer
  <2>1. LifecycleTypes'
    BY DEF LifecycleTypes
  <2>2. ExecutionIsGranted' /\ StatusTells' /\ FailedWorkerEnds'
    BY DEF LifecycleTypes, ExecutionIsGranted, StatusTells, FailedWorkerEnds
  <2>. QED BY <2>1, <2>2
<1>9. CASE TearDown
  <2>. USE <1>9 DEF TearDown, Scheduler!Configure
  <2>1. LifecycleTypes'
    BY DEF LifecycleTypes
  <2>2. ExecutionIsGranted' /\ StatusTells' /\ FailedWorkerEnds'
    BY DEF LifecycleTypes, ExecutionIsGranted, StatusTells, FailedWorkerEnds
  <2>. QED BY <2>1, <2>2
<1>. QED
  BY <1>1, <1>2, <1>3, <1>4, <1>5, <1>6, <1>7, <1>8, <1>9 DEF Control

\* Within an execution only the place of the worker changes ...
LEMMA MovingOnKeepsLifecycle ==
  ASSUME LifecycleInv, UNCHANGED <<schedulerVars, objectVars, pc, failed>>,
         phase \in Phases \ {"idle", "report"}, phase' \in Phases \ {"idle", "report"},
         viewer' \in {"none", "ready", "closed"}
  PROVE  LifecycleInv'
BY DEF LifecycleInv, LifecycleTypes, ExecutionIsGranted, StatusTells, FailedWorkerEnds

\* ... and its end gives the permission back.
LEMMA EndingKeepsLifecycle ==
  ASSUME LifecycleInv, UNCHANGED <<objectVars, pc, viewer>>,
         phase \in Phases \ {"idle", "report"}, phase' \in {"idle", "report"},
         Scheduler!End(Worker),
         failed' \in BOOLEAN, failed' # failed => phase' = "report"
  PROVE  LifecycleInv'
<1>1. LifecycleTypes'
  BY DEF LifecycleInv, LifecycleTypes, Scheduler!End, Phases
<1>2. ExecutionIsGranted' /\ StatusTells' /\ FailedWorkerEnds'
  BY Bounds DEF LifecycleInv, LifecycleTypes, ExecutionIsGranted, StatusTells, FailedWorkerEnds,
         Scheduler!End, Phases
<1>. QED BY <1>1, <1>2 DEF LifecycleInv

\* A step of the worker keeps the lifecycle.
LEMMA WorkerKeepsLifecycle ==
  ASSUME LifecycleInv, GrantExecution \/ Execution
  PROVE  LifecycleInv'
<1>. USE DEF LifecycleInv, Phases
<1>1. CASE GrantExecution \/ BeginExecution \/ ReportError \/ RetireWorker
  <2>. USE <1>1, Bounds DEF GrantExecution, BeginExecution, ReportError, RetireWorker,
           Scheduler!Grant, Scheduler!Begin, Scheduler!Fail, Scheduler!Retire,
           Scheduler!SimulationStatus
  <2>1. LifecycleTypes'
    BY DEF LifecycleTypes
  <2>2. ExecutionIsGranted' /\ StatusTells'
    BY DEF LifecycleTypes, ExecutionIsGranted, StatusTells
  <2>3. FailedWorkerEnds'
    BY DEF LifecycleTypes, ExecutionIsGranted, StatusTells, FailedWorkerEnds
  <2>. QED BY <2>1, <2>2, <2>3
<1>2. CASE WriteCommands \/ StepPhysics \/ UpdateComponents \/ WriteSnapshot \/ Observe
           \/ ViewerDue \/ ViewerLost \/ SyncViewer
  BY <1>2, MovingOnKeepsLifecycle DEF WriteCommands, StepPhysics, UpdateComponents, WriteSnapshot,
     Observe, ViewerDue, ViewerLost, SyncViewer, LifecycleTypes
<1>3. CASE WriteCommandsFails \/ UpdateFails \/ WriteSnapshotFails \/ ObserveFails
  BY <1>3, EndingKeepsLifecycle DEF WriteCommandsFails, UpdateFails, WriteSnapshotFails,
     ObserveFails, FailsIn, LifecycleTypes
<1>4. CASE NotDue \/ NoViewer \/ SyncDone
  BY <1>4, EndingKeepsLifecycle DEF NotDue, NoViewer, SyncDone, Completes, LifecycleTypes
<1>5. CASE MarkFailed
  BY <1>5, EndingKeepsLifecycle DEF MarkFailed, FailMarked, FailsIn, LifecycleTypes
<1>. QED
  BY <1>1, <1>2, <1>3, <1>4, <1>5 DEF Execution

-----------------------------------------------------------------------------
(***************************************************************************)
(* The data and the records of it.                                         *)
(***************************************************************************)
\* A number is its multiples below it and less than one more.
LEMMA DivisionBounds ==
  ASSUME NEW n \in Nat, NEW p \in Nat \ {0}
  PROVE  /\ n \div p \in Nat
         /\ p * (n \div p) <= n
         /\ n < p * (n \div p + 1)
<1>1. n = p * (n \div p) + (n % p) /\ (n % p) \in 0..(p - 1) /\ n \div p \in Int
  OBVIOUS
<1>2. n \div p >= 0
  OBVIOUS
<1>. DEFINE q == n \div p
<1>3. p * (q + 1) = p * q + p
  BY <1>1
<1>. QED BY <1>1, <1>2, <1>3

\* poll_update: a due component's next time is after the time it was due at, by
\* at most its period.
LEMMA NextDueIsNext ==
  ASSUME LifecycleTypes, DataTypes, RecordTypes, Due
  PROVE  /\ NextDue \in Nat
         /\ config.period > 0 => time < NextDue /\ NextDue <= time + config.period
<1>. DEFINE p == config.period
            q == (time - nextTime) \div p
<1>1. p \in Nat /\ time \in Nat /\ nextTime \in Nat
  BY Bounds DEF LifecycleTypes, DataTypes, RecordTypes
<1>2. CASE p = 0
  BY <1>2 DEF NextDue
<1>3. CASE p # 0
  <2>1. time - nextTime \in Nat /\ p \in Nat \ {0}
    BY <1>1, <1>3 DEF Due
  <2>2. q \in Nat /\ p * q <= time - nextTime /\ time - nextTime < p * (q + 1)
    BY <2>1, DivisionBounds
  <2>3. p * (q + 1) = p * q + p /\ p * q \in Nat /\ p * (q + 1) \in Nat
    BY <2>1, <2>2
  <2>4. NextDue = nextTime + p * (q + 1)
    BY <1>3 DEF NextDue
  <2>. QED BY ONLY <1>1, <2>2, <2>3, <2>4
<1>. QED BY <1>2, <1>3

\* The records stay sound as long as nothing they are about changes.
LEMMA RecordsStay ==
  ASSUME RecordInv,
         UNCHANGED <<objectVars, phase, granted, dataVars, cmd, begun, recordVars>>
  PROVE  RecordInv'
<1>1. DataTypes' /\ RecordTypes' /\ CountersAgree' /\ SnapshotIsBehind'
  BY DEF RecordInv, DataTypes, RecordTypes, CountersAgree, SnapshotIsBehind
<1>2. SampleIsBehind' /\ CommandIsLatest' /\ EverySnapshotObserved' /\ SnapshotCoherent'
  BY DEF RecordInv, SampleIsBehind, CommandIsLatest, EverySnapshotObserved, SnapshotCoherent
<1>. QED BY <1>1, <1>2 DEF RecordInv

\* initialize() builds everything anew and takes the first snapshot.
LEMMA InitializeKeepsRecords ==
  ASSUME LifecycleInv, RecordInv, Initialize
  PROVE  RecordInv'
<1>. USE DEF Initialize
<1>1. /\ step = 0 /\ phase = "idle" /\ ~granted' /\ phase' = "idle" /\ built' = TRUE
      /\ config' \in Configs /\ config'.period \in Nat
  BY Bounds DEF LifecycleInv, StatusTells, RecordInv, CountersAgree, Scheduler!Configure
<1>2. /\ sample' = [time |-> 0, epoch |-> epoch, missed |-> FALSE]
      /\ snapshot' = [sequence |-> 1, step |-> 0, time |-> 0, epoch |-> epoch,
                      sample |-> [time |-> 0, epoch |-> epoch, missed |-> FALSE]]
  BY DEF NoSample, NoSnapshot
<1>3. /\ time' = 0 /\ epoch' = epoch /\ ctrl' = NoCommand /\ cmd' = cmd /\ begun' = begun
      /\ step' = 0 /\ sequence' = 1 /\ observed' = (IF observer THEN 1 ELSE 0)
      /\ nextTime' = config'.period /\ UNCHANGED <<observer, taken>>
  BY <1>1
<1>4. DataTypes' /\ RecordTypes'
  BY ONLY RecordInv, <1>1, <1>2, <1>3, Bounds
     DEF RecordInv, DataTypes, RecordTypes, Commands, NoCommand, Samples, Snapshots
<1>5. CountersAgree' /\ SnapshotIsBehind'
  BY ONLY RecordInv, <1>1, <1>2, <1>3, Bounds
     DEF RecordInv, DataTypes, CountersAgree, SnapshotIsBehind
<1>6. SampleIsBehind' /\ CommandIsLatest'
  BY ONLY RecordInv, <1>1, <1>2, <1>3, Bounds
     DEF RecordInv, DataTypes, SampleIsBehind, CommandIsLatest
<1>7. EverySnapshotObserved' /\ SnapshotCoherent'
  BY ONLY RecordInv, <1>1, <1>2, <1>3 DEF RecordInv, EverySnapshotObserved, SnapshotCoherent
<1>. QED BY <1>4, <1>5, <1>6, <1>7 DEF RecordInv

\* The rest of shutdown() leaves nothing that a later initialize() could find.
LEMMA TearDownKeepsRecords ==
  ASSUME LifecycleInv, RecordInv, TearDown
  PROVE  RecordInv'
<1>. USE DEF TearDown
<1>1. /\ phase = "idle" /\ ~granted' /\ phase' = "idle" /\ built' = FALSE
      /\ config' = config /\ config.period \in Nat
  BY Bounds DEF LifecycleInv, LifecycleTypes, StatusTells, Scheduler!Configure
<1>2. snapshot' = [sequence |-> 0, step |-> 0, time |-> 0, epoch |-> 0,
                   sample |-> [time |-> 0, epoch |-> 0, missed |-> FALSE]]
  BY DEF NoSample, NoSnapshot
<1>3. DataTypes' /\ RecordTypes'
  BY <1>1, <1>2, Bounds DEF RecordInv, DataTypes, RecordTypes, Commands, NoCommand, Samples, Snapshots
<1>4. CountersAgree' /\ SnapshotIsBehind'
  BY <1>1, <1>2, Bounds DEF RecordInv, DataTypes, CountersAgree, SnapshotIsBehind
<1>5. SampleIsBehind' /\ CommandIsLatest'
  BY <1>1, <1>2, Bounds DEF RecordInv, SampleIsBehind, CommandIsLatest
<1>6. EverySnapshotObserved' /\ SnapshotCoherent'
  BY <1>1, <1>2 DEF RecordInv, EverySnapshotObserved, SnapshotCoherent
<1>. QED BY <1>3, <1>4, <1>5, <1>6 DEF RecordInv

\* The observer begins with the snapshots after the present one, also when it is set
\* between a snapshot and the turn of the observer that was not there for it.
LEMMA ObserverKeepsRecords ==
  ASSUME RecordInv, SetSnapshotObserver
  PROVE  RecordInv'
<1>. USE DEF RecordInv, SetSnapshotObserver
<1>1. DataTypes' /\ RecordTypes' /\ CountersAgree' /\ SnapshotIsBehind'
  BY DEF DataTypes, RecordTypes, CountersAgree, SnapshotIsBehind
<1>2. SampleIsBehind' /\ CommandIsLatest' /\ EverySnapshotObserved' /\ SnapshotCoherent'
  BY DEF SampleIsBehind, CommandIsLatest, EverySnapshotObserved, SnapshotCoherent
<1>. QED BY <1>1, <1>2

\* A reset takes the time back and the epoch forward: what was recorded before
\* it is of an earlier epoch.
LEMMA ResetKeepsRecords ==
  ASSUME RecordInv, Reset
  PROVE  RecordInv'
<1>. USE Bounds DEF RecordInv, Reset
<1>1. DataTypes' /\ RecordTypes'
  BY DEF DataTypes, RecordTypes, Commands, NoCommand
<1>2. CountersAgree' /\ EverySnapshotObserved' /\ SnapshotCoherent'
  BY DEF CountersAgree, EverySnapshotObserved, SnapshotCoherent
<1>3. SnapshotIsBehind'
  BY DEF SnapshotIsBehind, DataTypes, RecordTypes, Snapshots
<1>4. SampleIsBehind'
  BY DEF SampleIsBehind, DataTypes, RecordTypes, Samples
<1>5. CommandIsLatest'
  BY DEF CommandIsLatest, DataTypes, Commands
<1>. QED BY <1>1, <1>2, <1>3, <1>4, <1>5

\* Commands only become newer.
LEMMA WriteCommandKeepsRecords ==
  ASSUME RecordInv, WriteCommand
  PROVE  RecordInv'
<1>. USE Bounds DEF RecordInv, WriteCommand
<1>1. DataTypes' /\ RecordTypes'
  BY DEF DataTypes, RecordTypes, Commands
<1>2. CountersAgree' /\ EverySnapshotObserved' /\ SnapshotCoherent' /\ SnapshotIsBehind'
  BY DEF CountersAgree, EverySnapshotObserved, SnapshotCoherent, SnapshotIsBehind
<1>3. SampleIsBehind' /\ CommandIsLatest'
  BY DEF SampleIsBehind, CommandIsLatest, DataTypes, Commands
<1>. QED BY <1>1, <1>2, <1>3

\* An execution is granted only below the bound on steps ...
LEMMA GrantKeepsRecords ==
  ASSUME RecordInv, GrantExecution
  PROVE  RecordInv'
<1>. USE DEF RecordInv, GrantExecution, Scheduler!Grant
<1>1. DataTypes' /\ RecordTypes' /\ CountersAgree' /\ SnapshotIsBehind'
  BY DEF DataTypes, RecordTypes, CountersAgree, SnapshotIsBehind
<1>2. SampleIsBehind' /\ CommandIsLatest' /\ EverySnapshotObserved' /\ SnapshotCoherent'
  BY DEF SampleIsBehind, CommandIsLatest, EverySnapshotObserved, SnapshotCoherent
<1>. QED BY <1>1, <1>2

\* ... and begins with what the command buffer has then.
LEMMA BeginKeepsRecords ==
  ASSUME LifecycleInv, RecordInv, BeginExecution
  PROVE  RecordInv'
<1>. USE Bounds DEF RecordInv, BeginExecution, Scheduler!Begin
<1>1. granted /\ built
  BY DEF LifecycleInv, StatusTells, ExecutionIsGranted, LifecycleTypes, Scheduler!SimulationStatus
<1>2. DataTypes' /\ RecordTypes'
  BY DEF DataTypes, RecordTypes, Commands
<1>3. CountersAgree' /\ SnapshotIsBehind' /\ SampleIsBehind'
  BY <1>1 DEF CountersAgree, SnapshotIsBehind, SampleIsBehind
<1>4. CommandIsLatest' /\ EverySnapshotObserved' /\ SnapshotCoherent'
  BY DEF CommandIsLatest, EverySnapshotObserved, SnapshotCoherent, DataTypes, Commands
<1>. QED BY <1>2, <1>3, <1>4

\* The commands: the whole of the buffer's, or what was written before a
\* component rejected its own.
LEMMA CommandsKeepRecords ==
  ASSUME LifecycleInv, RecordInv, WriteCommands \/ WriteCommandsFails
  PROVE  RecordInv'
<1>. USE Bounds DEF RecordInv, WriteCommands, WriteCommandsFails, FailsIn, Scheduler!End
<1>1. /\ ctrl' \in {ctrl, Latest}
      /\ phase = "commands" /\ phase' \in {"physics", "report"}
      /\ phase' = "physics" => ctrl' = Latest
      /\ phase' = "physics" => granted' = granted
      /\ phase' = "report" => ~granted'
  BY DEF Flushed
<1>2. UNCHANGED <<objectVars, time, epoch, cmd, begun, recordVars>>
  OBVIOUS
<1>3. granted
  BY <1>1 DEF LifecycleInv, ExecutionIsGranted
<1>4. DataTypes' /\ RecordTypes'
  BY ONLY RecordInv, <1>1, <1>2 DEF RecordInv, DataTypes, RecordTypes, Latest
<1>5. CountersAgree' /\ SnapshotIsBehind' /\ SampleIsBehind'
  BY ONLY RecordInv, <1>1, <1>2, <1>3 DEF RecordInv, CountersAgree, SnapshotIsBehind, SampleIsBehind
<1>6. CommandIsLatest'
  BY ONLY RecordInv, Bounds, <1>1, <1>2 DEF RecordInv, CommandIsLatest, DataTypes, Commands, Latest, NoCommand
<1>7. EverySnapshotObserved' /\ SnapshotCoherent'
  BY ONLY RecordInv, <1>1, <1>2 DEF RecordInv, EverySnapshotObserved, SnapshotCoherent
<1>. QED BY <1>4, <1>5, <1>6, <1>7

\* mj_step: the data is a step ahead of every snapshot.
LEMMA StepKeepsRecords ==
  ASSUME LifecycleInv, RecordInv, StepPhysics
  PROVE  RecordInv'
<1>. USE Bounds DEF RecordInv, StepPhysics
<1>1. granted /\ built /\ granted' = granted /\ step < MaxStep /\ step' = step + 1
  BY DEF LifecycleInv, StatusTells, ExecutionIsGranted, LifecycleTypes, Scheduler!SimulationStatus,
         CountersAgree, NextStep
<1>2. time <= step
  BY <1>1 DEF SnapshotIsBehind
<1>3. DataTypes' /\ RecordTypes'
  BY <1>1, <1>2 DEF DataTypes, RecordTypes
<1>4. CountersAgree'
  BY <1>1 DEF CountersAgree, RecordTypes
<1>5. SnapshotIsBehind'
  BY <1>1 DEF SnapshotIsBehind, RecordTypes, DataTypes, Snapshots
<1>6. SampleIsBehind' /\ CommandIsLatest'
  BY <1>1 DEF SampleIsBehind, CommandIsLatest, RecordTypes, DataTypes, Samples
<1>7. EverySnapshotObserved' /\ SnapshotCoherent'
  BY DEF EverySnapshotObserved, SnapshotCoherent
<1>. QED BY <1>3, <1>4, <1>5, <1>6, <1>7

\* poll_update and update_all: a due sensor has a new sample, or none until it
\* is due again.
LEMMA UpdateKeepsRecords ==
  ASSUME LifecycleInv, RecordInv, UpdateComponents \/ UpdateFails
  PROVE  RecordInv'
<1>. USE Bounds DEF RecordInv
<1>1. /\ phase = "components" /\ phase' \in {"snapshot", "report"}
      /\ UNCHANGED <<objectVars, time, epoch, cmd, begun, ctrl, step, sequence, snapshot, observerVars>>
      /\ granted' => granted
      /\ \/ ~Due /\ UNCHANGED <<sample, nextTime>>
         \/ /\ Due /\ nextTime' = NextDue
            /\ phase' = "snapshot" => sample' = NewSample
            /\ phase' = "report" => sample' = [sample EXCEPT !.missed = TRUE]
  <2>1. CASE UpdateComponents
    BY <2>1 DEF UpdateComponents
  <2>2. CASE UpdateFails
    <3>1. granted' => granted
      BY <2>2 DEF UpdateFails, FailsIn, Scheduler!End
    <3>. QED BY <2>2, <3>1 DEF UpdateFails, FailsIn
  <2>. QED BY <2>1, <2>2
<1>2. config.period \in Nat /\ built
  BY <1>1 DEF LifecycleInv, LifecycleTypes, StatusTells, Scheduler!SimulationStatus
<1>3. Due => /\ NextDue \in Nat
             /\ config.period > 0 => time < NextDue /\ NextDue <= time + config.period
  BY NextDueIsNext DEF LifecycleInv
<1>4. \/ ~Due /\ UNCHANGED <<sample, nextTime>>
      \/ Due /\ nextTime' = NextDue /\ phase' = "snapshot"
           /\ sample' = [time |-> time, epoch |-> epoch, missed |-> FALSE]
      \/ Due /\ nextTime' = NextDue /\ phase' = "report"
           /\ sample' = [time |-> sample.time, epoch |-> sample.epoch, missed |-> TRUE]
  BY <1>1 DEF NewSample, RecordTypes, Samples
<1>5. DataTypes' /\ RecordTypes'
  <2>1. sample' \in Samples
    <3>1. /\ sample \in Samples /\ time \in 0..MaxStep /\ epoch \in 0..MaxReset
          /\ sample.time \in 0..MaxStep /\ sample.epoch \in 0..MaxReset
      BY DEF DataTypes, RecordTypes, Samples
    <3>2. \/ sample' = sample
          \/ sample' = [time |-> time, epoch |-> epoch, missed |-> FALSE]
          \/ sample' = [time |-> sample.time, epoch |-> sample.epoch, missed |-> TRUE]
      BY ONLY <1>4
    <3>3. [time |-> time, epoch |-> epoch, missed |-> FALSE] \in Samples
      BY ONLY <3>1 DEF Samples
    <3>4. [time |-> sample.time, epoch |-> sample.epoch, missed |-> TRUE] \in Samples
      BY ONLY <3>1 DEF Samples
    <3>. QED BY ONLY <3>1, <3>2, <3>3, <3>4
  <2>2. nextTime' \in Nat
    BY <1>3, <1>4 DEF RecordTypes
  <2>. QED BY ONLY RecordInv, <1>1, <2>1, <2>2 DEF RecordInv, DataTypes, RecordTypes
<1>6. CountersAgree' /\ SnapshotIsBehind' /\ EverySnapshotObserved' /\ SnapshotCoherent' /\ CommandIsLatest'
  BY <1>1 DEF CountersAgree, SnapshotIsBehind, EverySnapshotObserved, SnapshotCoherent, CommandIsLatest
<1>7. SampleIsBehind'
  <2>1. CASE ~Due
    BY <2>1, <1>1, <1>2, <1>4 DEF SampleIsBehind, Due, RecordTypes, DataTypes, Samples
  <2>2. CASE Due
    BY <2>2, <1>1, <1>2, <1>3, <1>4 DEF SampleIsBehind, RecordTypes, DataTypes, Samples
  <2>. QED BY <2>1, <2>2
<1>. QED BY <1>5, <1>6, <1>7

\* The snapshot takes the counters, the time and the sample as they are.
LEMMA SnapshotKeepsRecords ==
  ASSUME LifecycleInv, RecordInv, WriteSnapshot
  PROVE  RecordInv'
<1>. USE Bounds DEF RecordInv
<1>1. /\ phase = "snapshot" /\ phase' = "observe"
      /\ UNCHANGED <<objectVars, time, epoch, cmd, begun, ctrl, step, nextTime, sample, observer, observed>>
      /\ sequence' = sequence + 1 /\ taken' = observer
      /\ snapshot' = [sequence |-> sequence', step |-> step, time |-> time, epoch |-> epoch,
                      sample |-> sample]
  BY DEF WriteSnapshot
<1>2. config.period \in Nat /\ built
  BY <1>1 DEF LifecycleInv, LifecycleTypes, StatusTells, Scheduler!SimulationStatus
<1>3. sequence + 1 \in 0..MaxStep + 1 /\ sequence <= step
  BY <1>1 DEF CountersAgree, RecordTypes
<1>4. DataTypes' /\ RecordTypes'
  BY <1>1, <1>3 DEF DataTypes, RecordTypes, Snapshots
<1>5. CountersAgree' /\ EverySnapshotObserved'
  BY <1>1, <1>2, <1>3 DEF CountersAgree, EverySnapshotObserved, RecordTypes
<1>6. SnapshotIsBehind'
  BY <1>1, <1>2 DEF SnapshotIsBehind, RecordTypes, DataTypes
<1>7. SampleIsBehind' /\ CommandIsLatest'
  BY <1>1 DEF SampleIsBehind, CommandIsLatest
<1>8. SnapshotCoherent'
  BY <1>1, <1>2 DEF SnapshotCoherent, SampleIsBehind, RecordTypes, DataTypes, Samples
<1>. QED BY <1>4, <1>5, <1>6, <1>7, <1>8

\* From the snapshot on the worker changes no record but the observer's.
LEMMA AfterSnapshotKeepsRecords ==
  ASSUME LifecycleInv, RecordInv,
         \/ WriteSnapshotFails \/ Observe \/ ObserveFails
         \/ NotDue \/ ViewerDue \/ NoViewer \/ ViewerLost \/ SyncViewer \/ SyncDone
         \/ MarkFailed \/ ReportError \/ RetireWorker
  PROVE  RecordInv'
<1>1. /\ UNCHANGED <<objectVars, dataVars, cmd, begun, step, sequence, nextTime, sample, snapshot>>
      /\ \/ phase \notin {"commands", "physics", "components", "observe"}
              /\ UNCHANGED <<taken, observed>> /\ phase' # "observe"
         \/ phase = "observe" /\ observed' = Seen /\ taken' = FALSE /\ phase' \notin {"observe", "idle"}
      /\ observer' = observer
      /\ phase' \notin {"commands", "physics", "components", "snapshot"}
      /\ phase' # "idle" => phase # "idle"
      /\ granted' /\ phase' = "idle" => granted /\ phase = "idle"
  <2>1. CASE WriteSnapshotFails \/ ObserveFails \/ MarkFailed
    BY <2>1 DEF WriteSnapshotFails, SameSequence, ObserveFails, MarkFailed, FailMarked, FailsIn
  <2>2. CASE Observe \/ ViewerDue \/ ViewerLost \/ SyncViewer
    BY <2>2 DEF Observe, ViewerDue, ViewerLost, SyncViewer
  <2>3. CASE NotDue \/ NoViewer \/ SyncDone
    <3>1. ~granted'
      BY <2>3 DEF NotDue, NoViewer, SyncDone, Completes, Scheduler!End
    <3>. QED BY <2>3, <3>1 DEF NotDue, NoViewer, SyncDone, Completes
  <2>4. CASE ReportError \/ RetireWorker
    <3>1. granted' = granted /\ (RetireWorker => phase' = phase) /\ (ReportError => ~granted)
      BY <2>4 DEF ReportError, RetireWorker, Scheduler!Fail, Scheduler!Retire, LifecycleInv,
         ExecutionIsGranted
    <3>. QED BY <2>4, <3>1 DEF ReportError, RetireWorker
  <2>. QED BY <2>1, <2>2, <2>3, <2>4
<1>2. DataTypes' /\ RecordTypes'
  <2>1. snapshot.sequence \in 0..MaxStep + 1 /\ observed \in 0..MaxStep + 1 /\ taken \in BOOLEAN
    BY DEF RecordInv, RecordTypes, CountersAgree
  <2>2. taken' \in BOOLEAN /\ observed' \in {observed, snapshot.sequence}
    BY <1>1, <2>1
  <2>3. observed' \in 0..MaxStep + 1
    BY <2>1, <2>2
  <2>. QED BY <1>1, <2>2, <2>3 DEF RecordInv, DataTypes, RecordTypes
<1>3. CountersAgree' /\ SnapshotIsBehind' /\ SampleIsBehind' /\ CommandIsLatest'
  BY <1>1 DEF RecordInv, CountersAgree, SnapshotIsBehind, SampleIsBehind, CommandIsLatest
<1>4. EverySnapshotObserved' /\ SnapshotCoherent'
  BY <1>1 DEF RecordInv, EverySnapshotObserved, SnapshotCoherent, CountersAgree
<1>. QED BY <1>2, <1>3, <1>4 DEF RecordInv

-----------------------------------------------------------------------------
(***************************************************************************)
(* The theorems.                                                           *)
(***************************************************************************)
\* Every step keeps the invariant.
LEMMA StepKeeps == IInv /\ [Next]_vars => IInv'
<1>. SUFFICES ASSUME LifecycleInv, RecordInv, [Next]_vars PROVE LifecycleInv' /\ RecordInv'
  BY Parts DEF IInv, LifecycleInv, RecordInv, SimulationInv, TypeOK
<1>1. CASE \/ Initialize \/ Call("start") \/ Call("stop") \/ Control
           \/ PauseOrResume("Running", "Paused") \/ PauseOrResume("Paused", "Running")
  <2>1. LifecycleInv'
    BY <1>1, ControlKeepsLifecycle
  <2>2. CASE Initialize
    BY <2>1, <2>2, InitializeKeepsRecords
  <2>3. CASE TearDown
    BY <2>1, <2>3, TearDownKeepsRecords
  <2>4. CASE ~Initialize /\ ~TearDown
    <3>1. UNCHANGED <<objectVars, phase, granted, dataVars, cmd, begun, recordVars>>
      <4>1. CASE \/ Call("start") \/ Call("stop")
                 \/ PauseOrResume("Running", "Paused") \/ PauseOrResume("Paused", "Running")
        BY <4>1 DEF Call, PauseOrResume
      <4>2. CASE StartLooks \/ StartViewer \/ StoreViewer \/ ClearFailed \/ Unfail \/ StopViewer
        BY <4>2 DEF StartLooks, StartViewer, StoreViewer, ClearFailed, Unfail, StopViewer
      <4>3. CASE SpawnWorker \/ StopScheduler \/ JoinWorker \/ SchedulerStopped
        BY <4>3 DEF SpawnWorker, StopScheduler, JoinWorker, SchedulerStopped,
           Scheduler!Spawn, Scheduler!Reap, Scheduler!StopReturns
      <4>. QED BY <1>1, <2>4, <4>1, <4>2, <4>3 DEF Control
    <3>. QED BY <2>1, <3>1, RecordsStay
  <2>. QED BY <2>1, <2>2, <2>3, <2>4
<1>2. CASE Reset
  BY <1>2, ResetKeepsRecords DEF Reset, LifecycleInv, LifecycleTypes, ExecutionIsGranted,
     StatusTells, FailedWorkerEnds
<1>3. CASE WriteCommand
  BY <1>3, WriteCommandKeepsRecords DEF WriteCommand, LifecycleInv, LifecycleTypes,
     ExecutionIsGranted, StatusTells, FailedWorkerEnds
<1>4. CASE SetSnapshotObserver
  BY <1>4, ObserverKeepsRecords DEF SetSnapshotObserver, LifecycleInv, LifecycleTypes,
     ExecutionIsGranted, StatusTells, FailedWorkerEnds
<1>6. CASE UserClosesViewer \/ UNCHANGED vars
  <2>1. UNCHANGED <<objectVars, phase, granted, dataVars, cmd, begun, recordVars>>
    BY <1>6 DEF UserClosesViewer, vars
  <2>2. LifecycleInv'
    BY <1>6 DEF UserClosesViewer, vars, LifecycleInv, LifecycleTypes, ExecutionIsGranted,
       StatusTells, FailedWorkerEnds
  <2>. QED BY <2>1, <2>2, RecordsStay
<1>5. CASE GrantExecution \/ Execution
  <2>1. LifecycleInv'
    BY <1>5, WorkerKeepsLifecycle
  <2>2. RecordInv'
    BY <1>5, GrantKeepsRecords, BeginKeepsRecords, CommandsKeepRecords, StepKeepsRecords,
       UpdateKeepsRecords, SnapshotKeepsRecords, AfterSnapshotKeepsRecords DEF Execution
  <2>. QED BY <2>1, <2>2
<1>. QED BY <1>1, <1>2, <1>3, <1>4, <1>5, <1>6 DEF Next

\* IInv holds in every state of simulation.cpp, whatever the configurations and
\* however many steps, resets and commands.
THEOREM Invariance == Spec => []IInv
<1>. QED BY Initially, StepKeeps, PTL DEF Spec

\* The object, its scheduler and its records fit together in every state: a
\* worker in the task owes its execution to a start() that no shutdown() has
\* overtaken, and runtime_failed_ is never set beside one that goes on.
THEOREM SimulationIsSound == Spec => []SimulationInv
<1>1. IInv => SimulationInv
  BY DEF IInv
<1>. QED BY <1>1, Invariance, PTL

\* From when it is set, write_state_snapshot gives its observer every snapshot once
\* and in order.
THEOREM ObserverMissesNothing == Spec => []EverySnapshotObserved
<1>1. IInv => EverySnapshotObserved
  BY DEF IInv
<1>. QED BY <1>1, Invariance, PTL

\* No snapshot has a sample from after its time, and none lags by a period
\* unless a reset or a failed update came between.
THEOREM SnapshotsAreCoherent == Spec => []SnapshotCoherent
<1>1. IInv => SnapshotCoherent
  BY DEF IInv
<1>. QED BY <1>1, Invariance, PTL

\* state_buffer_ takes snapshots of ever later steps, and of ever later times
\* but for a reset.
THEOREM LaterSnapshotsOnly == Spec => SnapshotsAdvance
<1>. DEFINE Advance == snapshot' # snapshot /\ snapshot.sequence > 0 /\ snapshot'.sequence > 0 =>
                         /\ snapshot'.step > snapshot.step
                         /\ snapshot'.epoch = snapshot.epoch => snapshot'.time > snapshot.time
<1>1. ASSUME IInv, [Next]_vars PROVE Advance
  <2>. SUFFICES ASSUME snapshot' # snapshot, snapshot.sequence > 0, snapshot'.sequence > 0
                PROVE  /\ snapshot'.step > snapshot.step
                       /\ snapshot'.epoch = snapshot.epoch => snapshot'.time > snapshot.time
    OBVIOUS
  <2>1. WriteSnapshot \/ Initialize \/ TearDown
    BY <1>1 DEF vars, Next, Call, PauseOrResume, SetSnapshotObserver, Reset, WriteCommand, UserClosesViewer, Control,
       StartLooks, StartViewer, StoreViewer, ClearFailed, SpawnWorker, StopScheduler, JoinWorker,
       SchedulerStopped, Unfail, StopViewer, GrantExecution, Execution, BeginExecution,
       WriteCommands, WriteCommandsFails, StepPhysics, UpdateComponents, UpdateFails,
       WriteSnapshotFails, Observe, ObserveFails, NotDue, ViewerDue, NoViewer, ViewerLost,
       SyncViewer, SyncDone, MarkFailed, FailMarked, ReportError, RetireWorker, Completes, FailsIn
  <2>2. ~Initialize
    BY <1>1 DEF Initialize, IInv, SimulationInv, CountersAgree, NoSnapshot
  <2>3. ~TearDown
    BY DEF TearDown, NoSnapshot
  <2>4. CASE WriteSnapshot
    BY <1>1, <2>4, Bounds DEF WriteSnapshot, IInv, SimulationInv, SnapshotIsBehind, TypeOK, RecordTypes,
       DataTypes, Snapshots
  <2>. QED BY <2>1, <2>2, <2>3, <2>4
<1>2. IInv /\ [Next]_vars => [Advance]_vars
  BY <1>1
<1>. QED BY <1>2, Invariance, PTL DEF Spec, SnapshotsAdvance

\* A physics step never takes a command older than the one its execution found
\* in command_buffer_, unless a reset has cleared it since.
THEOREM LatestCommandIsTaken == Spec => LatestCommandDrives
<1>. DEFINE Drives == step' > step => \/ ctrl.version >= begun.version
                                      \/ ctrl = NoCommand /\ epoch > begun.epoch
<1>1. ASSUME IInv, [Next]_vars PROVE Drives
  <2>. SUFFICES ASSUME step' > step PROVE \/ ctrl.version >= begun.version
                                          \/ ctrl = NoCommand /\ epoch > begun.epoch
    OBVIOUS
  <2>1. step \in Nat
    BY <1>1, Bounds DEF IInv, SimulationInv, TypeOK, RecordTypes
  <2>2. ~(step' = step) /\ ~(step' = 0)
    BY <2>1
  <2>3. StepPhysics
    BY <1>1, <2>2 DEF vars, Next, Initialize, Call, PauseOrResume, SetSnapshotObserver, Reset, WriteCommand, UserClosesViewer,
       Control, TearDown, StartLooks, StartViewer, StoreViewer, ClearFailed, SpawnWorker, StopScheduler,
       JoinWorker, SchedulerStopped, Unfail, StopViewer, GrantExecution, Execution, BeginExecution,
       WriteCommands, WriteCommandsFails, UpdateComponents, UpdateFails, WriteSnapshot,
       WriteSnapshotFails, Observe, ObserveFails, NotDue, ViewerDue, NoViewer, ViewerLost,
       SyncViewer, SyncDone, MarkFailed, FailMarked, ReportError, RetireWorker, Completes, FailsIn
  <2>. QED BY <1>1, <2>3 DEF StepPhysics, IInv, SimulationInv, CommandIsLatest
<1>2. IInv /\ [Next]_vars => [Drives]_vars
  BY <1>1
<1>. QED BY <1>2, Invariance, PTL DEF Spec, LatestCommandDrives

\* The abstract lifecycle takes the scheduler's place here: no step of simulation.cpp
\* does to the scheduler what SchedulerLifecycle, and so SimulationScheduler, would
\* not do, and none changes its state in passing.
THEOREM FollowsLifecycle == Spec => Scheduler!LifecycleSpec
<1>1. Init => Scheduler!LifecycleInit
  BY DEF Init
<1>2. [Next]_vars => [Scheduler!LifecycleNext]_(Scheduler!lifecycleVars)
  <2>. SUFFICES ASSUME [Next]_vars PROVE Scheduler!LifecycleNext \/ UNCHANGED Scheduler!lifecycleVars
    OBVIOUS
  <2>. USE DEF Scheduler!LifecycleNext, Scheduler!lifecycleVars
  <2>1. CASE Control
    <3>1. CASE SpawnWorker \/ StopScheduler \/ JoinWorker \/ SchedulerStopped \/ TearDown
      BY <3>1 DEF SpawnWorker, StopScheduler, JoinWorker, SchedulerStopped, TearDown, Scheduler!Control
    <3>2. CASE StartLooks \/ StartViewer \/ StoreViewer \/ ClearFailed \/ Unfail \/ StopViewer
      BY <3>2 DEF StartLooks, StartViewer, StoreViewer, ClearFailed, Unfail, StopViewer
    <3>. QED BY <2>1, <3>1, <3>2 DEF Control
  <2>2. CASE Execution
    BY <2>2 DEF Execution, BeginExecution, WriteCommands, WriteCommandsFails, StepPhysics, UpdateComponents,
       UpdateFails, WriteSnapshot, WriteSnapshotFails, Observe, ObserveFails, NotDue, ViewerDue, NoViewer,
       ViewerLost, SyncViewer, SyncDone, MarkFailed, ReportError, RetireWorker, FailsIn,
       Completes, FailMarked
  <2>3. CASE \/ Initialize \/ Call("start") \/ Call("stop") \/ SetSnapshotObserver \/ Reset
             \/ WriteCommand \/ UserClosesViewer
             \/ PauseOrResume("Running", "Paused") \/ PauseOrResume("Paused", "Running") \/ GrantExecution
    BY <2>3 DEF Initialize, Call, SetSnapshotObserver, Reset, WriteCommand, UserClosesViewer, PauseOrResume, GrantExecution,
       Scheduler!Control
  <2>4. CASE UNCHANGED vars
    BY <2>4 DEF vars
  <2>. QED BY <2>1, <2>2, <2>3, <2>4 DEF Next
<1>. QED BY <1>1, <1>2, PTL DEF Spec, Scheduler!LifecycleSpec
=============================================================================
