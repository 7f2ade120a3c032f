------------------------ MODULE SimulationScheduler ------------------------
(***************************************************************************)
(* mujoco_simulation/src/runtime/simulation_scheduler.cpp: the worker      *)
(* thread that executes the registered task, and the operations that other *)
(* threads call on it.                                                     *)
(*                                                                         *)
(* One action is one critical section of mutex_ (which nothing blocks      *)
(* inside of), one acquisition or release of execution_mutex_, one         *)
(* notify_all, one joinable() test or one join().  Control operations are  *)
(* issued by Callers that hold simulation_control_mutex_ for the whole     *)
(* call, as MuJoCoHardwareInterface::request_* do; step() is issued by     *)
(* Steppers that hold nothing.                                             *)
(***************************************************************************)
EXTENDS Naturals

CONSTANTS
  Callers,    \* threads that issue lifecycle operations
  Steppers,   \* threads that issue step(count)
  MaxCount,   \* bound: the largest count given to step()
  Tasks,      \* callables that register_task() may be given
  NoTask,     \* an empty std::function
  Worker,     \* the thread stored in worker_thread_
  NoThread    \* nobody: the value of a free mutex

ASSUME ThreadsAssumption ==
  /\ Worker # NoThread
  /\ Worker \notin Steppers
  /\ NoThread \notin Callers \cup Steppers
ASSUME CountAssumption == MaxCount \in Nat \ {0}
ASSUME TasksAssumption == NoTask \notin Tasks

VARIABLES
  status,         \* status_
  stopRequested,  \* stop_requested_
  task,           \* task_
  called,         \* what task_ was when the thread in the task invoked it, or NoTask
  wpc,            \* where worker_thread_ is; "none" is a thread that is not joinable
  owner,          \* holder of execution_mutex_
  control,        \* holder of simulation_control_mutex_
  op,             \* the operation each caller is in, or "none"
  pc,             \* where in that operation it is
  spc,            \* where in step() each stepper is
  remaining,      \* executions its step() still owes
  late            \* history: executions the worker began since the status was Running,
                  \* up to 2

controlVars == <<control, op, pc>>
stepVars    == <<spc, remaining>>
vars == <<status, stopRequested, task, called, wpc, owner, control, op, pc,
          spc, remaining, late>>

SimulationStatus ==
  {"Uninitialized", "Stopped", "Running", "Paused", "Stopping", "Error"}
Operations ==
  {"initialize", "register_task", "start", "stop", "pause", "resume", "shutdown"}

WorkerLocations == {"none", "wait", "blocked", "check", "acquire", "task",
                    "fail", "exit", "done"}
CallerLocations == {"idle", "enter", "stop", "notify", "joinable", "join",
                    "finish", "clear"}
StepLocations   == {"idle", "acquire", "task", "fail"}

Joinable == wpc # "none"

Init ==
  /\ status = "Uninitialized"
  /\ stopRequested = FALSE
  /\ task = NoTask /\ called = NoTask
  /\ wpc = "none"
  /\ owner = NoThread
  /\ control = NoThread
  /\ op = [c \in Callers |-> "none"]
  /\ pc = [c \in Callers |-> "idle"]
  /\ spc = [s \in Steppers |-> "idle"]
  /\ remaining = [s \in Steppers |-> 0]
  /\ late = 0

(***************************************************************************)
(* Control operations.                                                     *)
(***************************************************************************)
Goto(c, loc) == pc' = [pc EXCEPT ![c] = loc] /\ UNCHANGED <<control, op>>

\* Returning releases simulation_control_mutex_.
Return(c) ==
  /\ pc' = [pc EXCEPT ![c] = "idle"]
  /\ control' = NoThread
  /\ op' = [op EXCEPT ![c] = "none"]

At(c, o, loc) == pc[c] = loc /\ op[c] = o

AnyoneEnters == TRUE                      \* mutant: the control mutex is not taken
ControlFree == control = NoThread

Invoke(c, o) ==
  /\ pc[c] = "idle"
  /\ ControlFree
  /\ control' = c
  /\ op' = [op EXCEPT ![c] = o]
  /\ pc' = [pc EXCEPT ![c] = IF o = "stop" THEN "stop" ELSE "enter"]
  /\ UNCHANGED <<status, stopRequested, task, called, wpc, owner, late, stepVars>>

Initialize(c) ==
  /\ At(c, "initialize", "enter")
  /\ IF status = "Uninitialized"
     THEN status' = "Stopped" /\ task' = NoTask /\ stopRequested' = FALSE
     ELSE UNCHANGED <<status, task, stopRequested>>
  /\ Return(c)
  /\ UNCHANGED <<called, wpc, owner, late, stepVars>>

RegistrationUnguarded == status # "Uninitialized"  \* mutant: only the first guard
RegistrationAllowed == ~Joinable /\ status = "Stopped"

RegisterTask(c) ==
  /\ At(c, "register_task", "enter")
  /\ IF RegistrationAllowed THEN task' \in Tasks ELSE UNCHANGED task
  /\ Return(c)
  /\ UNCHANGED <<status, stopRequested, called, wpc, owner, late, stepVars>>

\* std::thread creation may throw, which puts the status back to Stopped.
SpawnFails == UNCHANGED <<status, wpc, late>>

Start(c) ==
  /\ At(c, "start", "enter")
  /\ IF status = "Stopped"
     THEN /\ stopRequested' = FALSE
          /\ \/ status' = "Running" /\ wpc' = "wait" /\ late' = 0
             \/ SpawnFails
     ELSE UNCHANGED <<status, stopRequested, wpc, late>>
  /\ Return(c)
  /\ UNCHANGED <<task, called, owner, stepVars>>

Pause(c) ==
  /\ At(c, "pause", "enter")
  /\ IF status = "Running"
     THEN status' = "Paused"
     ELSE UNCHANGED status
  /\ Return(c)
  /\ UNCHANGED <<stopRequested, task, called, wpc, owner, late, stepVars>>

ResumeDone(c) == Return(c)                \* mutant: no notify_all
ResumeNotifies(c) == Goto(c, "notify")

Resume(c) ==
  /\ At(c, "resume", "enter")
  /\ IF status = "Paused"
     THEN status' = "Running" /\ late' = 0 /\ ResumeNotifies(c)
     ELSE UNCHANGED <<status, late>> /\ Return(c)
  /\ UNCHANGED <<stopRequested, task, called, wpc, owner, stepVars>>

\* shutdown() leaves early on an uninitialized scheduler, else calls stop().
Shutdown(c) ==
  /\ At(c, "shutdown", "enter")
  /\ IF status = "Uninitialized" THEN Return(c) ELSE Goto(c, "stop")
  /\ UNCHANGED <<status, stopRequested, task, called, wpc, owner, late, stepVars>>

RequestStop(c) ==
  /\ pc[c] = "stop"
  /\ IF status \in {"Uninitialized", "Stopped"}
     THEN /\ IF op[c] = "shutdown" /\ status = "Stopped"
             THEN Goto(c, "clear")
             ELSE Return(c)
          /\ UNCHANGED <<status, stopRequested>>
     ELSE /\ stopRequested' = TRUE
          /\ status' = IF status = "Error" THEN "Error" ELSE "Stopping"
          /\ Goto(c, "notify")
  /\ UNCHANGED <<task, called, wpc, owner, late, stepVars>>

NotWoken == wpc                           \* mutant: the notification is lost
Woken == IF wpc = "blocked" THEN "wait" ELSE wpc

\* cv_.notify_all(), outside mutex_, from stop() and from resume().
NotifyAll(c) ==
  /\ pc[c] = "notify"
  /\ wpc' = Woken
  /\ IF op[c] = "resume" THEN Return(c) ELSE Goto(c, "joinable")
  /\ UNCHANGED <<status, stopRequested, task, called, owner, late, stepVars>>

JoinIfJoinable == IF Joinable THEN "join" ELSE "finish"

\* worker_thread_.joinable(), read without mutex_.
TestJoinable(c) ==
  /\ pc[c] = "joinable"
  /\ Goto(c, JoinIfJoinable)
  /\ UNCHANGED <<status, stopRequested, task, called, wpc, owner, late, stepVars>>

Join(c) ==
  /\ pc[c] = "join"
  /\ wpc = "done"
  /\ wpc' = "none"
  /\ Goto(c, "finish")
  /\ UNCHANGED <<status, stopRequested, task, called, owner, late, stepVars>>

ClearStopRequest == stopRequested' = FALSE

FinishStop(c) ==
  /\ pc[c] = "finish"
  /\ ClearStopRequest
  /\ status' = IF status = "Uninitialized" THEN status ELSE "Stopped"
  /\ IF op[c] = "shutdown" THEN Goto(c, "clear") ELSE Return(c)
  /\ UNCHANGED <<task, called, wpc, owner, late, stepVars>>

Clear(c) ==
  /\ pc[c] = "clear"
  /\ task' = NoTask
  /\ stopRequested' = FALSE
  /\ status' = "Uninitialized"
  /\ Return(c)
  /\ UNCHANGED <<called, wpc, owner, late, stepVars>>

ControlStep(c) ==
  \/ Initialize(c) \/ RegisterTask(c) \/ Start(c) \/ Pause(c) \/ Resume(c)
  \/ Shutdown(c) \/ RequestStop(c) \/ NotifyAll(c) \/ TestJoinable(c)
  \/ Join(c) \/ FinishStop(c) \/ Clear(c)

(***************************************************************************)
(* worker_loop.                                                            *)
(***************************************************************************)
WorkerGoto(loc) ==
  /\ wpc' = loc
  /\ UNCHANGED <<task, controlVars, stepVars>>

\* cv_.wait evaluates its predicate under mutex_, and blocks when it is false.
EvaluateWait ==
  /\ wpc = "wait"
  /\ WorkerGoto(IF stopRequested THEN "exit"
                ELSE IF status = "Running" THEN "check" ELSE "blocked")
  /\ UNCHANGED <<status, stopRequested, called, owner, late>>

SpuriousWakeup ==
  /\ wpc = "blocked"
  /\ WorkerGoto("wait")
  /\ UNCHANGED <<status, stopRequested, called, owner, late>>

LooksNoMore == TRUE                       \* mutant: the second look is ignored
StillRunning == status = "Running"

\* The second look at status_, in a critical section of its own.
CheckRunning ==
  /\ wpc = "check"
  /\ WorkerGoto(IF StillRunning THEN "acquire" ELSE "wait")
  /\ UNCHANGED <<status, stopRequested, called, owner, late>>

NoExecutionMutex == TRUE                  \* mutant: execution_mutex_ is not taken
ExecutionFree == owner = NoThread

BeginTask ==
  /\ wpc = "acquire"
  /\ ExecutionFree
  /\ owner' = Worker /\ called' = task
  /\ late' = IF status # "Running" /\ late < 2 THEN late + 1 ELSE late
  /\ WorkerGoto("task")
  /\ UNCHANGED <<status, stopRequested>>

AgainAfterTask(ok) == IF ok THEN "acquire" ELSE "fail"  \* mutant: status_ not read
AfterTask(ok) == IF ok THEN "wait" ELSE "fail"

\* invoke_task: an empty task fails, and so does one that throws.  One that is
\* written meanwhile may do anything.
Succeeds == called # NoTask \/ task # called

EndTask(ok) ==
  /\ wpc = "task"
  /\ ok => Succeeds
  /\ owner' = NoThread /\ called' = NoTask
  /\ WorkerGoto(AfterTask(ok))
  /\ UNCHANGED <<status, stopRequested, late>>

WorkerFail ==
  /\ wpc = "fail"
  /\ status' = "Error"
  /\ WorkerGoto("exit")
  /\ UNCHANGED <<stopRequested, called, owner, late>>

ExitForgets == IF status = "Uninitialized" THEN status ELSE "Stopped"  \* mutant
ExitStatus == IF status \in {"Error", "Uninitialized"} THEN status ELSE "Stopped"

WorkerExit ==
  /\ wpc = "exit"
  /\ stopRequested' = FALSE
  /\ status' = ExitStatus
  /\ WorkerGoto("done")
  /\ UNCHANGED <<called, owner, late>>

WorkerStep ==
  \/ EvaluateWait \/ CheckRunning \/ BeginTask \/ WorkerFail \/ WorkerExit
  \/ \E ok \in BOOLEAN : EndTask(ok)

(***************************************************************************)
(* step(count).  A rejected call (count 0, or a status it does not accept) *)
(* changes nothing and is left out.                                        *)
(***************************************************************************)
StepCall(s, count) ==
  /\ spc[s] = "idle"
  /\ status \in {"Stopped", "Paused"}
  /\ spc' = [spc EXCEPT ![s] = "acquire"]
  /\ remaining' = [remaining EXCEPT ![s] = count]
  /\ UNCHANGED <<status, stopRequested, task, called, wpc, owner, late, controlVars>>

StepBegin(s) ==
  /\ spc[s] = "acquire"
  /\ ExecutionFree
  /\ owner' = s /\ called' = task
  /\ spc' = [spc EXCEPT ![s] = "task"]
  /\ UNCHANGED <<status, stopRequested, task, wpc, late, remaining, controlVars>>

MoreSteps(s) == remaining[s] > 1

StepEnd(s, ok) ==
  /\ spc[s] = "task"
  /\ ok => Succeeds
  /\ owner' = NoThread /\ called' = NoTask
  /\ remaining' = [remaining EXCEPT ![s] = IF ok THEN @ - 1 ELSE 0]
  /\ spc' = [spc EXCEPT ![s] = IF ~ok THEN "fail"
                               ELSE IF MoreSteps(s) THEN "acquire" ELSE "idle"]
  /\ UNCHANGED <<status, stopRequested, task, wpc, late, controlVars>>

\* set_error_locked runs whatever the status has become since the check.
StepFail(s) ==
  /\ spc[s] = "fail"
  /\ status' = "Error"
  /\ spc' = [spc EXCEPT ![s] = "idle"]
  /\ UNCHANGED <<stopRequested, task, called, wpc, owner, late, remaining, controlVars>>

StepProgress(s) ==
  \/ StepBegin(s) \/ StepFail(s)
  \/ \E ok \in BOOLEAN : StepEnd(s, ok)

-----------------------------------------------------------------------------
Next ==
  \/ \E c \in Callers, o \in Operations : Invoke(c, o)
  \/ \E c \in Callers : ControlStep(c)
  \/ WorkerStep \/ SpuriousWakeup
  \/ \E s \in Steppers, n \in 1..MaxCount : StepCall(s, n)
  \/ \E s \in Steppers : StepProgress(s)

\* A call that has begun goes on, a thread that can run does, and the task
\* returns; nobody has to call anything, and spurious wakeups owe nothing.
Fairness ==
  /\ \A c \in Callers : WF_vars(ControlStep(c))
  /\ WF_vars(WorkerStep)
  /\ \A s \in Steppers : WF_vars(StepProgress(s))

Spec == Init /\ [][Next]_vars
FairSpec == Spec /\ Fairness

-----------------------------------------------------------------------------
(***************************************************************************)
(* Properties.                                                             *)
(***************************************************************************)
TypeOK ==
  /\ status \in SimulationStatus
  /\ stopRequested \in BOOLEAN
  /\ task \in Tasks \cup {NoTask} /\ called \in Tasks \cup {NoTask}
  /\ wpc \in WorkerLocations
  /\ owner \in Steppers \cup {Worker, NoThread}
  /\ control \in Callers \cup {NoThread}
  /\ op \in [Callers -> Operations \cup {"none"}]
  /\ pc \in [Callers -> CallerLocations]
  /\ spc \in [Steppers -> StepLocations]
  /\ remaining \in [Steppers -> 0..MaxCount]
  /\ late \in 0..2

\* A call of stop() (or of shutdown()) that has set stop_requested_ is under way.
InStop(c) == pc[c] \in {"notify", "joinable", "join", "finish"} /\ op[c] # "resume"
StopInProgress == \E c \in Callers : InStop(c)

\* start() never assigns to a std::thread that is still joinable, and stop()
\* never joins one that is not: either would end the process.  Nothing in
\* start() or stop() prevents it; the serialisation of the callers does.
ThreadHandleSafe ==
  \A c \in Callers :
    /\ At(c, "start", "enter") /\ status = "Stopped" => ~Joinable
    /\ pc[c] = "join" => Joinable

\* Once stop() has returned there is no worker left, whichever of the worker
\* and stop() wrote Stopped first: no task execution of it can follow.
StoppedIsQuiescent ==
  status \in {"Stopped", "Uninitialized"} /\ ~StopInProgress => ~Joinable

\* A scheduler that reports Running or Paused has a worker in its loop.
InLoop == wpc \in {"wait", "blocked", "check", "acquire", "task", "fail"}
RunningHasWorker == status \in {"Running", "Paused"} => InLoop

\* A stop request never outlives the stop() that made it, so it cannot end
\* the worker of a later start().
StopRequestIsOwned == stopRequested => StopInProgress

\* The worker and every step() caller exclude each other inside the task, and
\* execution_mutex_ is held exactly by the thread that is inside.
TaskExclusive ==
  /\ wpc = "task" <=> owner = Worker
  /\ \A s \in Steppers : spc[s] = "task" <=> owner = s

\* pause() returns, and stop() and a step() that fails begin, while the worker may
\* already have passed its second look at status_: one execution can still begin after
\* the scheduler has ceased to be Running, and no more than one.
AtMostOneLateTask == late <= 1

\* A failure stays visible in status() until a stop() or a shutdown() consumes it:
\* neither the worker's exit nor a control call overwrites Error.
ErrorIsSticky ==
  [][status = "Error" /\ status' # "Error" =>
       \E c \in Callers : pc[c] \in {"finish", "clear"}]_vars

\* The worker invokes task_ without mutex_: from its start() to its join nothing
\* replaces or clears what it executes.  (A step() has no such protection.)
TaskStableWhileExecuting ==
  [][task' # task => ~Joinable /\ owner # Worker]_vars

\* stop() returns: the worker is woken, leaves its loop and is joined.
StopTerminates == \A c \in Callers : InStop(c) ~> pc[c] = "idle"

\* A scheduler that stays Running executes its task: no wakeup is lost.
RunningExecutes == status = "Running" ~> (wpc = "task" \/ status # "Running")

\* The scheduler implements its abstract lifecycle.
Lifecycle == INSTANCE SchedulerLifecycle WITH
  Executors <- Steppers \cup {Worker},
  live      <- Joinable,
  granted   <- wpc \in {"acquire", "task"},
  executing <- owner
LifecycleSpec == Lifecycle!LifecycleSpec
=============================================================================
