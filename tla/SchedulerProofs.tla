-------------------------- MODULE SchedulerProofs --------------------------
(***************************************************************************)
(* Proofs about SimulationScheduler for any sets of callers and steppers   *)
(* and any bound on the count of step(): IInv of SchedulerInvariant is     *)
(* inductive, and with it the invariants, the action properties and the    *)
(* refinement of SchedulerLifecycle hold.                                  *)
(***************************************************************************)
EXTENDS SchedulerInvariant, TLAPS

-----------------------------------------------------------------------------
\* Abbreviations of guards and values: always expanded.
USE DEF ControlFree, SpawnFails, ResumeNotifies, Woken, JoinIfJoinable, ClearStopRequest,
        StillRunning, ExecutionFree, AfterTask, ExitStatus, MoreSteps

\* A scheduler as its constructor leaves it satisfies the invariant.
LEMMA Initially == Init => IInv
<1>. SUFFICES ASSUME Init PROVE IInv
  OBVIOUS
<1>. USE ThreadsAssumption, CountAssumption, TasksAssumption DEF Init, InStop, StopInProgress, Joinable
<1>1. TypeOK
  <2>1. 0 \in 0..MaxCount /\ 0 \in 0..2
    OBVIOUS
  <2>2. remaining \in [Steppers -> 0..MaxCount] /\ late \in 0..2
    BY <2>1
  <2>3. op \in [Callers -> Operations \cup {"none"}] /\ pc \in [Callers -> CallerLocations]
    BY DEF Operations, CallerLocations
  <2>. QED
    BY <2>2, <2>3 DEF TypeOK, SimulationStatus, WorkerLocations, StepLocations
<1>2. ControlMutex /\ CallShape /\ StopKnows /\ StoppingIsOwned /\ ExitHasCause
  BY DEF ControlMutex, CallShape, StopKnows, StoppingIsOwned, ExitHasCause
<1>3. OwesSteps /\ LateSpent /\ TaskExclusive
  BY DEF OwesSteps, LateSpent, TaskExclusive
<1>4. StopRequestIsOwned /\ RunningHasWorker /\ StoppedIsQuiescent
  BY DEF StopRequestIsOwned, RunningHasWorker, StoppedIsQuiescent
<1>. QED BY <1>1, <1>2, <1>3, <1>4 DEF IInv

\* A call begins only when no other call is in progress.
LEMMA InvokeKeeps ==
  ASSUME IInv, NEW c \in Callers, NEW o \in Operations, Invoke(c, o)
  PROVE  IInv'
<1>1. \A d \in Callers : pc[d] = "idle"
  BY ThreadsAssumption DEF IInv, ControlMutex, Invoke
<1>. USE <1>1 DEF Invoke, IInv, stepVars, InStop, StopInProgress, Joinable, InLoop,
       SimulationStatus, WorkerLocations, CallerLocations, StepLocations,
       Operations
<1>2. TypeOK'
  BY DEF TypeOK
<1>3. ControlMutex' /\ CallShape'
  BY DEF ControlMutex, CallShape, TypeOK
<1>4. StopKnows' /\ StoppingIsOwned' /\ ExitHasCause'
  BY DEF StopKnows, StoppingIsOwned, ExitHasCause, TypeOK
<1>5. OwesSteps' /\ LateSpent' /\ TaskExclusive'
  BY DEF OwesSteps, LateSpent, TaskExclusive, TypeOK
<1>6. StopRequestIsOwned' /\ RunningHasWorker' /\ StoppedIsQuiescent'
  BY DEF StopRequestIsOwned, RunningHasWorker, StoppedIsQuiescent, TypeOK
<1>. QED BY <1>2, <1>3, <1>4, <1>5, <1>6
\* A control operation moves on while every other caller is idle.
LEMMA ControlKeeps ==
  ASSUME IInv, NEW c \in Callers, ControlStep(c)
  PROVE  IInv'
<1>1. \A d \in Callers \ {c} : pc[d] = "idle"
  BY ThreadsAssumption DEF IInv, ControlMutex, ControlStep, At, Initialize, RegisterTask, Start,
       Pause, Resume, Shutdown, RequestStop, NotifyAll, TestJoinable, Join, FinishStop, Clear
<1>. USE <1>1, ThreadsAssumption DEF IInv, stepVars, controlVars, InStop, StopInProgress, Joinable,
       InLoop, SimulationStatus, WorkerLocations, CallerLocations, StepLocations, Operations, At, Goto, Return, RegistrationAllowed
<1>2. CASE Initialize(c)
  <2>. USE <1>2 DEF Initialize
  <2>1. TypeOK' /\ ControlMutex' /\ CallShape'
    BY DEF TypeOK, ControlMutex, CallShape
  <2>2. StopKnows' /\ StoppingIsOwned' /\ ExitHasCause'
    BY DEF StopKnows, StoppingIsOwned, ExitHasCause, TypeOK, StopRequestIsOwned, RunningHasWorker, StoppedIsQuiescent, CallShape
  <2>3. OwesSteps' /\ LateSpent' /\ TaskExclusive'
    BY DEF OwesSteps, LateSpent, TaskExclusive, TypeOK
  <2>4. StopRequestIsOwned' /\ RunningHasWorker' /\ StoppedIsQuiescent'
    BY DEF StopRequestIsOwned, RunningHasWorker, StoppedIsQuiescent, TypeOK, CallShape, StopKnows, StoppingIsOwned, ExitHasCause
  <2>. QED BY <2>1, <2>2, <2>3, <2>4
<1>3. CASE RegisterTask(c)
  <2>. USE <1>3 DEF RegisterTask
  <2>1. TypeOK' /\ ControlMutex' /\ CallShape'
    BY DEF TypeOK, ControlMutex, CallShape
  <2>2. StopKnows' /\ StoppingIsOwned' /\ ExitHasCause'
    BY DEF StopKnows, StoppingIsOwned, ExitHasCause, TypeOK, StopRequestIsOwned, RunningHasWorker, StoppedIsQuiescent, CallShape
  <2>3. OwesSteps' /\ LateSpent' /\ TaskExclusive'
    BY DEF OwesSteps, LateSpent, TaskExclusive, TypeOK
  <2>4. StopRequestIsOwned' /\ RunningHasWorker' /\ StoppedIsQuiescent'
    BY DEF StopRequestIsOwned, RunningHasWorker, StoppedIsQuiescent, TypeOK, CallShape, StopKnows, StoppingIsOwned, ExitHasCause
  <2>. QED BY <2>1, <2>2, <2>3, <2>4
<1>4. CASE Start(c)
  <2>. USE <1>4 DEF Start
  <2>0. TypeOK'
    <3>1. late' \in 0..2 /\ status' \in SimulationStatus /\ wpc' \in WorkerLocations
      BY DEF TypeOK
    <3>2. op' \in [Callers -> Operations \cup {"none"}] /\ pc' \in [Callers -> CallerLocations]
      BY DEF TypeOK
    <3>. QED BY <3>1, <3>2 DEF TypeOK
  <2>1. ControlMutex' /\ CallShape'
    BY DEF TypeOK, ControlMutex, CallShape
  <2>2. StopKnows' /\ StoppingIsOwned' /\ ExitHasCause'
    BY DEF StopKnows, StoppingIsOwned, ExitHasCause, TypeOK, StopRequestIsOwned, RunningHasWorker, StoppedIsQuiescent, CallShape
  <2>3. OwesSteps' /\ LateSpent' /\ TaskExclusive'
    BY DEF OwesSteps, LateSpent, TaskExclusive, TypeOK, StoppedIsQuiescent
  <2>4. StopRequestIsOwned' /\ RunningHasWorker' /\ StoppedIsQuiescent'
    BY DEF StopRequestIsOwned, RunningHasWorker, StoppedIsQuiescent, TypeOK, CallShape, StopKnows, StoppingIsOwned, ExitHasCause
  <2>. QED BY <2>0, <2>1, <2>2, <2>3, <2>4
<1>5. CASE Pause(c)
  <2>. USE <1>5 DEF Pause
  <2>1. TypeOK' /\ ControlMutex' /\ CallShape'
    BY DEF TypeOK, ControlMutex, CallShape
  <2>2. StopKnows' /\ StoppingIsOwned' /\ ExitHasCause'
    BY DEF StopKnows, StoppingIsOwned, ExitHasCause, TypeOK, StopRequestIsOwned, RunningHasWorker, StoppedIsQuiescent, CallShape
  <2>3. OwesSteps' /\ LateSpent' /\ TaskExclusive'
    BY DEF OwesSteps, LateSpent, TaskExclusive, TypeOK
  <2>4. StopRequestIsOwned' /\ RunningHasWorker' /\ StoppedIsQuiescent'
    BY DEF StopRequestIsOwned, RunningHasWorker, StoppedIsQuiescent, TypeOK, CallShape, StopKnows, StoppingIsOwned, ExitHasCause
  <2>. QED BY <2>1, <2>2, <2>3, <2>4
<1>6. CASE Resume(c)
  <2>. USE <1>6 DEF Resume
  <2>1. TypeOK' /\ ControlMutex' /\ CallShape'
    BY DEF TypeOK, ControlMutex, CallShape
  <2>2. StopKnows' /\ StoppingIsOwned' /\ ExitHasCause'
    BY DEF StopKnows, StoppingIsOwned, ExitHasCause, TypeOK, StopRequestIsOwned, RunningHasWorker, StoppedIsQuiescent, CallShape
  <2>3. OwesSteps' /\ LateSpent' /\ TaskExclusive'
    BY DEF OwesSteps, LateSpent, TaskExclusive, TypeOK
  <2>4. StopRequestIsOwned' /\ RunningHasWorker' /\ StoppedIsQuiescent'
    BY DEF StopRequestIsOwned, RunningHasWorker, StoppedIsQuiescent, TypeOK, CallShape, StopKnows, StoppingIsOwned, ExitHasCause
  <2>. QED BY <2>1, <2>2, <2>3, <2>4
<1>7. CASE Shutdown(c)
  <2>. USE <1>7 DEF Shutdown
  <2>1. TypeOK' /\ ControlMutex' /\ CallShape'
    BY DEF TypeOK, ControlMutex, CallShape
  <2>2. StopKnows' /\ StoppingIsOwned' /\ ExitHasCause'
    BY DEF StopKnows, StoppingIsOwned, ExitHasCause, TypeOK, StopRequestIsOwned, RunningHasWorker, StoppedIsQuiescent, CallShape
  <2>3. OwesSteps' /\ LateSpent' /\ TaskExclusive'
    BY DEF OwesSteps, LateSpent, TaskExclusive, TypeOK
  <2>4. StopRequestIsOwned' /\ RunningHasWorker' /\ StoppedIsQuiescent'
    BY DEF StopRequestIsOwned, RunningHasWorker, StoppedIsQuiescent, TypeOK, CallShape, StopKnows, StoppingIsOwned, ExitHasCause
  <2>. QED BY <2>1, <2>2, <2>3, <2>4
<1>8. CASE RequestStop(c)
  <2>. USE <1>8 DEF RequestStop
  <2>0. TypeOK'
    BY DEF TypeOK, Goto, Return
  <2>1. ControlMutex' /\ CallShape'
    BY DEF TypeOK, ControlMutex, CallShape
  <2>2. StopKnows' /\ StoppingIsOwned' /\ ExitHasCause'
    BY DEF StopKnows, StoppingIsOwned, ExitHasCause, TypeOK, StopRequestIsOwned, RunningHasWorker, StoppedIsQuiescent, CallShape
  <2>3. OwesSteps' /\ LateSpent' /\ TaskExclusive'
    BY DEF OwesSteps, LateSpent, TaskExclusive, TypeOK
  <2>4. StopRequestIsOwned' /\ RunningHasWorker' /\ StoppedIsQuiescent'
    BY DEF StopRequestIsOwned, RunningHasWorker, StoppedIsQuiescent, TypeOK, CallShape, StopKnows, StoppingIsOwned, ExitHasCause
  <2>. QED BY <2>0, <2>1, <2>2, <2>3, <2>4
<1>9. CASE NotifyAll(c)
  <2>. USE <1>9 DEF NotifyAll
  <2>1. TypeOK' /\ ControlMutex' /\ CallShape'
    BY DEF TypeOK, ControlMutex, CallShape
  <2>2. StopKnows' /\ StoppingIsOwned' /\ ExitHasCause'
    BY DEF StopKnows, StoppingIsOwned, ExitHasCause, TypeOK, StopRequestIsOwned, RunningHasWorker, StoppedIsQuiescent, CallShape
  <2>3. OwesSteps' /\ LateSpent' /\ TaskExclusive'
    BY DEF OwesSteps, LateSpent, TaskExclusive, TypeOK
  <2>4. StopRequestIsOwned' /\ RunningHasWorker' /\ StoppedIsQuiescent'
    BY DEF StopRequestIsOwned, RunningHasWorker, StoppedIsQuiescent, TypeOK, CallShape, StopKnows, StoppingIsOwned, ExitHasCause
  <2>. QED BY <2>1, <2>2, <2>3, <2>4
<1>10. CASE TestJoinable(c)
  <2>. USE <1>10 DEF TestJoinable
  <2>1. TypeOK' /\ ControlMutex' /\ CallShape'
    BY DEF TypeOK, ControlMutex, CallShape
  <2>2. StopKnows' /\ StoppingIsOwned' /\ ExitHasCause'
    BY DEF StopKnows, StoppingIsOwned, ExitHasCause, TypeOK, StopRequestIsOwned, RunningHasWorker, StoppedIsQuiescent, CallShape
  <2>3. OwesSteps' /\ LateSpent' /\ TaskExclusive'
    BY DEF OwesSteps, LateSpent, TaskExclusive, TypeOK
  <2>4. StopRequestIsOwned' /\ RunningHasWorker' /\ StoppedIsQuiescent'
    BY DEF StopRequestIsOwned, RunningHasWorker, StoppedIsQuiescent, TypeOK, CallShape, StopKnows, StoppingIsOwned, ExitHasCause
  <2>. QED BY <2>1, <2>2, <2>3, <2>4
<1>11. CASE Join(c)
  <2>. USE <1>11 DEF Join
  <2>1. TypeOK' /\ ControlMutex' /\ CallShape'
    BY DEF TypeOK, ControlMutex, CallShape
  <2>2. StopKnows' /\ StoppingIsOwned' /\ ExitHasCause'
    BY DEF StopKnows, StoppingIsOwned, ExitHasCause, TypeOK, StopRequestIsOwned, RunningHasWorker, StoppedIsQuiescent, CallShape
  <2>3. OwesSteps' /\ LateSpent' /\ TaskExclusive'
    BY DEF OwesSteps, LateSpent, TaskExclusive, TypeOK
  <2>4. StopRequestIsOwned' /\ RunningHasWorker' /\ StoppedIsQuiescent'
    BY DEF StopRequestIsOwned, RunningHasWorker, StoppedIsQuiescent, TypeOK, CallShape, StopKnows, StoppingIsOwned, ExitHasCause
  <2>. QED BY <2>1, <2>2, <2>3, <2>4
<1>12. CASE FinishStop(c)
  <2>. USE <1>12 DEF FinishStop
  <2>0. TypeOK'
    BY DEF TypeOK, Goto, Return
  <2>1. ControlMutex' /\ CallShape'
    BY DEF TypeOK, ControlMutex, CallShape
  <2>2. StopKnows' /\ StoppingIsOwned' /\ ExitHasCause'
    BY DEF StopKnows, StoppingIsOwned, ExitHasCause, TypeOK, StopRequestIsOwned, RunningHasWorker, StoppedIsQuiescent, CallShape
  <2>3. OwesSteps' /\ LateSpent' /\ TaskExclusive'
    BY DEF OwesSteps, LateSpent, TaskExclusive, TypeOK
  <2>4. StopRequestIsOwned' /\ RunningHasWorker' /\ StoppedIsQuiescent'
    BY DEF StopRequestIsOwned, RunningHasWorker, StoppedIsQuiescent, TypeOK, CallShape, StopKnows, StoppingIsOwned, ExitHasCause
  <2>. QED BY <2>0, <2>1, <2>2, <2>3, <2>4
<1>13. CASE Clear(c)
  <2>. USE <1>13 DEF Clear
  <2>1. TypeOK' /\ ControlMutex' /\ CallShape'
    BY DEF TypeOK, ControlMutex, CallShape
  <2>2. StopKnows' /\ StoppingIsOwned' /\ ExitHasCause'
    BY DEF StopKnows, StoppingIsOwned, ExitHasCause, TypeOK, StopRequestIsOwned, RunningHasWorker, StoppedIsQuiescent, CallShape
  <2>3. OwesSteps' /\ LateSpent' /\ TaskExclusive'
    BY DEF OwesSteps, LateSpent, TaskExclusive, TypeOK, CallShape
  <2>4. StopRequestIsOwned' /\ RunningHasWorker' /\ StoppedIsQuiescent'
    BY DEF StopRequestIsOwned, RunningHasWorker, StoppedIsQuiescent, TypeOK, CallShape, StopKnows, StoppingIsOwned, ExitHasCause
  <2>. QED BY <2>1, <2>2, <2>3, <2>4
<1>. QED BY <1>2, <1>3, <1>4, <1>5, <1>6, <1>7, <1>8, <1>9, <1>10, <1>11, <1>12, <1>13 DEF ControlStep

\* The worker: what it writes, a caller of stop() tolerates.
LEMMA WorkerKeeps ==
  ASSUME IInv, WorkerStep \/ SpuriousWakeup
  PROVE  IInv'
<1>. USE ThreadsAssumption, TasksAssumption DEF IInv, controlVars, stepVars, InStop, StopInProgress, Joinable, InLoop,
       SimulationStatus, WorkerLocations, CallerLocations, StepLocations, WorkerGoto
<1>1. CASE EvaluateWait
  <2>. USE <1>1 DEF EvaluateWait
  <2>1. TypeOK'
    BY DEF TypeOK
  <2>2. ControlMutex' /\ CallShape' /\ StopKnows' /\ StoppingIsOwned' /\ ExitHasCause'
    BY DEF ControlMutex, CallShape, StopKnows, StoppingIsOwned, ExitHasCause, StopRequestIsOwned, RunningHasWorker, TypeOK
  <2>3. OwesSteps' /\ LateSpent' /\ TaskExclusive'
    BY DEF OwesSteps, LateSpent, TaskExclusive, TypeOK
  <2>4. StopRequestIsOwned' /\ RunningHasWorker' /\ StoppedIsQuiescent'
    BY DEF StopRequestIsOwned, RunningHasWorker, StoppedIsQuiescent, StoppingIsOwned, ExitHasCause, StopKnows, TypeOK
  <2>. QED BY <2>1, <2>2, <2>3, <2>4
<1>2. CASE SpuriousWakeup
  <2>. USE <1>2 DEF SpuriousWakeup
  <2>1. TypeOK'
    BY DEF TypeOK
  <2>2. ControlMutex' /\ CallShape' /\ StopKnows' /\ StoppingIsOwned' /\ ExitHasCause'
    BY DEF ControlMutex, CallShape, StopKnows, StoppingIsOwned, ExitHasCause, StopRequestIsOwned, RunningHasWorker, TypeOK
  <2>3. OwesSteps' /\ LateSpent' /\ TaskExclusive'
    BY DEF OwesSteps, LateSpent, TaskExclusive, TypeOK
  <2>4. StopRequestIsOwned' /\ RunningHasWorker' /\ StoppedIsQuiescent'
    BY DEF StopRequestIsOwned, RunningHasWorker, StoppedIsQuiescent, StoppingIsOwned, ExitHasCause, TypeOK
  <2>. QED BY <2>1, <2>2, <2>3, <2>4
<1>3. CASE CheckRunning
  <2>. USE <1>3 DEF CheckRunning
  <2>1. TypeOK'
    BY DEF TypeOK
  <2>2. ControlMutex' /\ CallShape' /\ StopKnows' /\ StoppingIsOwned' /\ ExitHasCause'
    BY DEF ControlMutex, CallShape, StopKnows, StoppingIsOwned, ExitHasCause, StopRequestIsOwned, RunningHasWorker, TypeOK
  <2>3. OwesSteps' /\ LateSpent' /\ TaskExclusive'
    BY DEF OwesSteps, LateSpent, TaskExclusive, TypeOK
  <2>4. StopRequestIsOwned' /\ RunningHasWorker' /\ StoppedIsQuiescent'
    BY DEF StopRequestIsOwned, RunningHasWorker, StoppedIsQuiescent, StoppingIsOwned, ExitHasCause, TypeOK
  <2>. QED BY <2>1, <2>2, <2>3, <2>4
<1>4. CASE BeginTask
  <2>. USE <1>4 DEF BeginTask
  <2>1. TypeOK'
    BY DEF TypeOK
  <2>2. ControlMutex' /\ CallShape' /\ StopKnows' /\ StoppingIsOwned' /\ ExitHasCause'
    BY DEF ControlMutex, CallShape, StopKnows, StoppingIsOwned, ExitHasCause, StopRequestIsOwned, RunningHasWorker, TypeOK
  <2>3. OwesSteps' /\ LateSpent' /\ TaskExclusive'
    BY DEF OwesSteps, LateSpent, TaskExclusive, TypeOK
  <2>4. StopRequestIsOwned' /\ RunningHasWorker' /\ StoppedIsQuiescent'
    BY DEF StopRequestIsOwned, RunningHasWorker, StoppedIsQuiescent, StoppingIsOwned, ExitHasCause, TypeOK
  <2>. QED BY <2>1, <2>2, <2>3, <2>4
<1>5. CASE WorkerFail
  <2>. USE <1>5 DEF WorkerFail
  <2>1. TypeOK'
    BY DEF TypeOK
  <2>2. ControlMutex' /\ CallShape' /\ StopKnows' /\ StoppingIsOwned' /\ ExitHasCause'
    BY DEF ControlMutex, CallShape, StopKnows, StoppingIsOwned, ExitHasCause, StopRequestIsOwned, RunningHasWorker, TypeOK
  <2>3. OwesSteps' /\ LateSpent' /\ TaskExclusive'
    BY DEF OwesSteps, LateSpent, TaskExclusive, TypeOK
  <2>4. StopRequestIsOwned' /\ RunningHasWorker' /\ StoppedIsQuiescent'
    BY DEF StopRequestIsOwned, RunningHasWorker, StoppedIsQuiescent, StoppingIsOwned, ExitHasCause, TypeOK
  <2>. QED BY <2>1, <2>2, <2>3, <2>4
<1>6. CASE WorkerExit
  <2>. USE <1>6 DEF WorkerExit
  <2>1. TypeOK'
    BY DEF TypeOK
  <2>2. ControlMutex' /\ CallShape' /\ StopKnows' /\ StoppingIsOwned' /\ ExitHasCause'
    BY DEF ControlMutex, CallShape, StopKnows, StoppingIsOwned, ExitHasCause, StopRequestIsOwned, RunningHasWorker, TypeOK
  <2>3. OwesSteps' /\ LateSpent' /\ TaskExclusive'
    BY DEF OwesSteps, LateSpent, TaskExclusive, TypeOK
  <2>4. StopRequestIsOwned' /\ RunningHasWorker' /\ StoppedIsQuiescent'
    BY DEF StopRequestIsOwned, RunningHasWorker, StoppedIsQuiescent, StoppingIsOwned, ExitHasCause, TypeOK
  <2>. QED BY <2>1, <2>2, <2>3, <2>4
<1>7. CASE \E ok \in BOOLEAN : EndTask(ok)
  <2>. USE <1>7 DEF EndTask
  <2>1. TypeOK'
    BY DEF TypeOK
  <2>2. ControlMutex' /\ CallShape' /\ StopKnows' /\ StoppingIsOwned' /\ ExitHasCause'
    BY DEF ControlMutex, CallShape, StopKnows, StoppingIsOwned, ExitHasCause, StopRequestIsOwned, RunningHasWorker, TypeOK
  <2>3. OwesSteps' /\ LateSpent' /\ TaskExclusive'
    BY DEF OwesSteps, LateSpent, TaskExclusive, TypeOK
  <2>4. StopRequestIsOwned' /\ RunningHasWorker' /\ StoppedIsQuiescent'
    BY DEF StopRequestIsOwned, RunningHasWorker, StoppedIsQuiescent, StoppingIsOwned, ExitHasCause, TypeOK
  <2>. QED BY <2>1, <2>2, <2>3, <2>4
<1>. QED BY <1>1, <1>2, <1>3, <1>4, <1>5, <1>6, <1>7 DEF WorkerStep

\* step() in a caller's thread.
LEMMA StepKeeps ==
  ASSUME IInv, NEW s \in Steppers,
         StepProgress(s) \/ (\E n \in 1..MaxCount : StepCall(s, n))
  PROVE  IInv'
<1>. USE ThreadsAssumption, CountAssumption, TasksAssumption DEF IInv, controlVars, InStop, StopInProgress, Joinable, InLoop,
       SimulationStatus, WorkerLocations, CallerLocations, StepLocations
<1>1. CASE StepBegin(s)
  <2>. USE <1>1 DEF StepBegin
  <2>1. TypeOK'
    BY DEF TypeOK, OwesSteps
  <2>2. ControlMutex' /\ CallShape' /\ StopKnows' /\ StoppingIsOwned' /\ ExitHasCause'
    BY DEF ControlMutex, CallShape, StopKnows, StoppingIsOwned, ExitHasCause, TypeOK
  <2>3. OwesSteps' /\ LateSpent' /\ TaskExclusive'
    BY DEF OwesSteps, LateSpent, TaskExclusive, TypeOK
  <2>4. StopRequestIsOwned' /\ RunningHasWorker' /\ StoppedIsQuiescent'
    BY DEF StopRequestIsOwned, RunningHasWorker, StoppedIsQuiescent, TypeOK
  <2>. QED BY <2>1, <2>2, <2>3, <2>4
<1>2. CASE StepFail(s)
  <2>. USE <1>2 DEF StepFail
  <2>1. TypeOK'
    BY DEF TypeOK, OwesSteps
  <2>2. ControlMutex' /\ CallShape' /\ StopKnows' /\ StoppingIsOwned' /\ ExitHasCause'
    BY DEF ControlMutex, CallShape, StopKnows, StoppingIsOwned, ExitHasCause, TypeOK
  <2>3. OwesSteps' /\ LateSpent' /\ TaskExclusive'
    BY DEF OwesSteps, LateSpent, TaskExclusive, TypeOK
  <2>4. StopRequestIsOwned' /\ RunningHasWorker' /\ StoppedIsQuiescent'
    BY DEF StopRequestIsOwned, RunningHasWorker, StoppedIsQuiescent, TypeOK
  <2>. QED BY <2>1, <2>2, <2>3, <2>4
<1>3. CASE \E ok \in BOOLEAN : StepEnd(s, ok)
  <2>. USE <1>3 DEF StepEnd
  <2>1. TypeOK'
    BY DEF TypeOK, OwesSteps
  <2>2. ControlMutex' /\ CallShape' /\ StopKnows' /\ StoppingIsOwned' /\ ExitHasCause'
    BY DEF ControlMutex, CallShape, StopKnows, StoppingIsOwned, ExitHasCause, TypeOK
  <2>3. OwesSteps' /\ LateSpent' /\ TaskExclusive'
    BY DEF OwesSteps, LateSpent, TaskExclusive, TypeOK
  <2>4. StopRequestIsOwned' /\ RunningHasWorker' /\ StoppedIsQuiescent'
    BY DEF StopRequestIsOwned, RunningHasWorker, StoppedIsQuiescent, TypeOK
  <2>. QED BY <2>1, <2>2, <2>3, <2>4
<1>4. CASE \E n \in 1..MaxCount : StepCall(s, n)
  <2>. USE <1>4 DEF StepCall
  <2>1. TypeOK'
    BY DEF TypeOK, OwesSteps
  <2>2. ControlMutex' /\ CallShape' /\ StopKnows' /\ StoppingIsOwned' /\ ExitHasCause'
    BY DEF ControlMutex, CallShape, StopKnows, StoppingIsOwned, ExitHasCause, TypeOK
  <2>3. OwesSteps' /\ LateSpent' /\ TaskExclusive'
    BY DEF OwesSteps, LateSpent, TaskExclusive, TypeOK
  <2>4. StopRequestIsOwned' /\ RunningHasWorker' /\ StoppedIsQuiescent'
    BY DEF StopRequestIsOwned, RunningHasWorker, StoppedIsQuiescent, TypeOK
  <2>. QED BY <2>1, <2>2, <2>3, <2>4
<1>. QED BY <1>1, <1>2, <1>3, <1>4 DEF StepProgress

\* Every step of a caller, the worker or a stepper keeps the invariant.
LEMMA Inductive == IInv /\ [Next]_vars => IInv'
<1>. SUFFICES ASSUME IInv, [Next]_vars PROVE IInv'
  OBVIOUS
<1>1. CASE Next
  BY <1>1, InvokeKeeps, ControlKeeps, WorkerKeeps, StepKeeps DEF Next
<1>2. CASE UNCHANGED vars
  BY <1>2 DEF vars, IInv, TypeOK, ControlMutex, CallShape, StopKnows, StoppingIsOwned,
       ExitHasCause, OwesSteps, LateSpent, TaskExclusive,
       StopRequestIsOwned, RunningHasWorker, StoppedIsQuiescent, InStop, StopInProgress,
       Joinable, InLoop
<1>. QED BY <1>1, <1>2

\* The inductive invariant holds in every reachable state of the scheduler: no order of
\* start(), stop(), pause(), resume(), reset() and step() of simulation_scheduler.cpp leaves it.
THEOREM Invariance == Spec => []IInv
BY Initially, Inductive, PTL DEF Spec

-----------------------------------------------------------------------------
\* Every variable keeps its type, whatever the interleaving.
THEOREM TypeCorrect == Spec => []TypeOK
BY Invariance, PTL DEF IInv

\* Behind simulation_control_mutex_ the std::thread is never assigned to while
\* joinable, and never joined while it is not (start() at simulation_scheduler
\* .cpp:94, stop() at 121).
THEOREM ThreadHandle == Spec => []ThreadHandleSafe
<1>1. IInv => ThreadHandleSafe
  <2>. SUFFICES ASSUME IInv, NEW c \in Callers
                PROVE  /\ At(c, "start", "enter") /\ status = "Stopped" => ~Joinable
                       /\ pc[c] = "join" => Joinable
    BY DEF ThreadHandleSafe
  <2>1. pc[c] = "enter" => \A d \in Callers : ~InStop(d)
    BY DEF IInv, ControlMutex, InStop
  <2>. QED
    BY <2>1 DEF IInv, StopKnows, StoppedIsQuiescent, StopInProgress, At
<1>. QED BY <1>1, Invariance, PTL

\* When stop() has returned there is no worker left.
THEOREM Quiescence == Spec => []StoppedIsQuiescent
BY Invariance, PTL DEF IInv

\* Running and Paused are reported only while a worker is in its loop.
THEOREM WorkerPresent == Spec => []RunningHasWorker
BY Invariance, PTL DEF IInv

\* No stop request survives the stop() that made it.
THEOREM StopRequest == Spec => []StopRequestIsOwned
BY Invariance, PTL DEF IInv

\* The worker and the step() callers exclude each other inside the task.
THEOREM MutualExclusion == Spec => []TaskExclusive
BY Invariance, PTL DEF IInv

\* After the status was last Running the worker begins at most one more execution,
\* whether a pause(), a stop() or the failure of a step() has ended it.
THEOREM BoundedLateness == Spec => []AtMostOneLateTask
BY Invariance, PTL DEF IInv, LateSpent, AtMostOneLateTask

\* Only the last sections of stop() and of shutdown() leave Error.
THEOREM ErrorKept == Spec => ErrorIsSticky
<1>1. IInv /\ [Next]_vars
        => [status = "Error" /\ status' # "Error" => \E c \in Callers : pc[c] \in {"finish", "clear"}]_vars
  BY DEF IInv, StopKnows, Next, Invoke, ControlStep, At, Initialize, RegisterTask, Start, Pause,
         Resume, Shutdown, RequestStop, NotifyAll, TestJoinable, Join, FinishStop, Clear,
         WorkerStep, WorkerGoto, EvaluateWait, SpuriousWakeup, CheckRunning, BeginTask, EndTask,
         WorkerFail, WorkerExit, StepCall, StepProgress, StepBegin, StepEnd, StepFail
<1>. QED BY <1>1, Invariance, PTL DEF Spec, ErrorIsSticky

\* Whatever register_task, initialize and shutdown write to task_, one callable for
\* another or none, they write it while there is no worker to execute it.
THEOREM TaskStable == Spec => TaskStableWhileExecuting
<1>1. IInv /\ [Next]_vars => [task' # task => ~Joinable /\ owner # Worker]_vars
  <2>. SUFFICES ASSUME IInv, Next, task' # task
                PROVE  ~Joinable /\ owner # Worker
    OBVIOUS
  <2>1. PICK c \in Callers : Initialize(c) \/ RegisterTask(c) \/ Clear(c)
    BY DEF Next, Invoke, ControlStep, Start, Pause, Resume, Shutdown, RequestStop, NotifyAll,
           TestJoinable, Join, FinishStop, WorkerStep, WorkerGoto, EvaluateWait, SpuriousWakeup,
           CheckRunning, BeginTask, EndTask, WorkerFail, WorkerExit, StepCall, StepProgress,
           StepBegin, StepEnd, StepFail
  <2>2. ~Joinable
    <3>1. \A d \in Callers : InStop(d) => d = c
      BY <2>1, ThreadsAssumption
         DEF Initialize, RegisterTask, Clear, At, IInv, ControlMutex, InStop
    <3>2. ~InStop(c)
      BY <2>1 DEF Initialize, RegisterTask, Clear, At, InStop
    <3>3. CASE Initialize(c)
      BY <3>1, <3>2, <3>3 DEF Initialize, IInv, StoppedIsQuiescent, StopInProgress
    <3>4. CASE RegisterTask(c)
      BY <3>4 DEF RegisterTask, RegistrationAllowed
    <3>5. CASE Clear(c)
      BY <3>5 DEF Clear, IInv, StopKnows
    <3>. QED BY <2>1, <3>3, <3>4, <3>5
  <2>3. owner # Worker
    BY <2>2 DEF IInv, TaskExclusive, Joinable
  <2>. QED BY <2>2, <2>3
<1>. QED BY <1>1, Invariance, PTL DEF Spec, TaskStableWhileExecuting

\* The scheduler implements its abstract lifecycle: every critical section,
\* join and execution is one abstract step or none.
LEMMA LifecycleStep ==
  ASSUME IInv, [Next]_vars
  PROVE  [Lifecycle!LifecycleNext]_(Lifecycle!lifecycleVars)
<1>. USE DEF Lifecycle!lifecycleVars, Lifecycle!LifecycleNext, Lifecycle!Become, Joinable
<1>1. CASE UNCHANGED vars
  BY <1>1 DEF vars
<1>2. ASSUME NEW c \in Callers, NEW o \in Operations, Invoke(c, o)
      PROVE  UNCHANGED Lifecycle!lifecycleVars
  BY <1>2 DEF Invoke
<1>3. ASSUME NEW c \in Callers, ControlStep(c)
      PROVE  [Lifecycle!LifecycleNext]_(Lifecycle!lifecycleVars)
  <2>0. \A d \in Callers : d # c => ~InStop(d)
    BY <1>3, ThreadsAssumption
       DEF IInv, ControlMutex, InStop, ControlStep, At, Initialize, RegisterTask, Start, Pause,
           Resume, Shutdown, RequestStop, NotifyAll, TestJoinable, Join, FinishStop, Clear
  <2>1. CASE Initialize(c)
    BY <2>0, <2>1 DEF Initialize, At, IInv, StoppedIsQuiescent, StopInProgress, InStop, Lifecycle!Configure
  <2>2. CASE RegisterTask(c) \/ Shutdown(c) \/ NotifyAll(c) \/ TestJoinable(c)
    BY <2>2 DEF RegisterTask, Shutdown, NotifyAll, TestJoinable
  <2>3. CASE Start(c)
    BY <2>0, <2>3 DEF Start, At, IInv, TypeOK, TaskExclusive, StoppedIsQuiescent, StopInProgress, InStop,
                      Lifecycle!Spawn
  <2>4. CASE Pause(c) \/ Resume(c)
    BY <2>4 DEF Pause, Resume, Lifecycle!Control
  <2>5. CASE RequestStop(c)
    BY <2>5 DEF RequestStop, IInv, TypeOK, SimulationStatus, Lifecycle!Control,
                StoppingIsOwned
  <2>6. CASE Join(c)
    BY <2>6 DEF Join, IInv, StopKnows, StoppingIsOwned, InStop, CallShape, Lifecycle!Reap
  <2>7. CASE FinishStop(c)
    BY <2>7 DEF FinishStop, IInv, StopKnows, StoppingIsOwned, InStop, CallShape,
                Lifecycle!StopReturns
  <2>8. CASE Clear(c)
    BY <2>8 DEF Clear, IInv, StopKnows, StoppingIsOwned, Lifecycle!Configure
  <2>. QED BY <1>3, <2>1, <2>2, <2>3, <2>4, <2>5, <2>6, <2>7, <2>8 DEF ControlStep
<1>4. ASSUME WorkerStep \/ SpuriousWakeup
      PROVE  [Lifecycle!LifecycleNext]_(Lifecycle!lifecycleVars)
  <2>. USE DEF WorkerGoto
  <2>1. CASE EvaluateWait \/ SpuriousWakeup
    BY <2>1 DEF EvaluateWait, SpuriousWakeup
  <2>2. CASE CheckRunning
    BY <2>2 DEF CheckRunning, Lifecycle!Grant
  <2>3. CASE BeginTask
    <3>1. Lifecycle!Begin(Worker)
      BY <2>3 DEF BeginTask, Lifecycle!Begin
    <3>. QED BY <3>1
  <2>4. CASE \E ok \in BOOLEAN : EndTask(ok)
    <3>1. Lifecycle!End(Worker)
      BY <2>4 DEF EndTask, IInv, TaskExclusive, Lifecycle!End
    <3>. QED BY <3>1
  <2>5. CASE WorkerFail
    <3>1. Lifecycle!Fail
      BY <2>5 DEF WorkerFail, IInv, TypeOK, Lifecycle!Fail, Lifecycle!SimulationStatus, SimulationStatus
    <3>. QED BY <3>1
  <2>6. CASE WorkerExit
    BY <2>6 DEF WorkerExit, IInv, ExitHasCause, StopKnows, StopInProgress, TypeOK,
                SimulationStatus, Lifecycle!Retire
  <2>. QED BY <1>4, <2>1, <2>2, <2>3, <2>4, <2>5, <2>6 DEF WorkerStep
<1>5. ASSUME NEW s \in Steppers, StepProgress(s) \/ (\E n \in 1..MaxCount : StepCall(s, n))
      PROVE  [Lifecycle!LifecycleNext]_(Lifecycle!lifecycleVars)
  <2>1. CASE \E n \in 1..MaxCount : StepCall(s, n)
    BY <2>1 DEF StepCall
  <2>2. CASE StepBegin(s)
    <3>1. Lifecycle!Begin(s)
      BY <2>2, ThreadsAssumption DEF StepBegin, Lifecycle!Begin
    <3>. QED BY <3>1
  <2>3. CASE \E ok \in BOOLEAN : StepEnd(s, ok)
    <3>1. Lifecycle!End(s)
      BY <2>3, ThreadsAssumption DEF StepEnd, IInv, TaskExclusive, Lifecycle!End
    <3>. QED BY <3>1
  <2>4. CASE StepFail(s)
    <3>1. Lifecycle!Fail
      BY <2>4 DEF StepFail, IInv, TypeOK, Lifecycle!Fail, Lifecycle!SimulationStatus, SimulationStatus
    <3>. QED BY <3>1
  <2>. QED BY <1>5, <2>1, <2>2, <2>3, <2>4 DEF StepProgress
<1>. QED BY <1>1, <1>2, <1>3, <1>4, <1>5 DEF Next

\* The scheduler of simulation_scheduler.cpp implements the lifecycle that its callers see:
\* every step is one of the abstract transitions of the status, or leaves it alone.
THEOREM ImplementsLifecycle == Spec => LifecycleSpec
<1>1. Init => Lifecycle!LifecycleInit
  BY DEF Init, Lifecycle!LifecycleInit, Joinable
<1>2. IInv /\ [Next]_vars => [Lifecycle!LifecycleNext]_(Lifecycle!lifecycleVars)
  BY LifecycleStep
<1>. QED BY <1>1, <1>2, Invariance, PTL DEF Spec, LifecycleSpec, Lifecycle!LifecycleSpec
=============================================================================
