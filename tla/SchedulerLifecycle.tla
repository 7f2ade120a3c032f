------------------------- MODULE SchedulerLifecycle -------------------------
(***************************************************************************)
(* What SimulationScheduler promises the code around it, with no locks and *)
(* no condition variable: a lifecycle, at most one worker at a time, and   *)
(* task executions that exclude each other.  SimulationScheduler.tla is    *)
(* shown to implement it, and Simulation.tla is built on its shape.        *)
(***************************************************************************)

CONSTANTS
  Executors,  \* threads that may execute the task: the worker and step() callers
  Worker,     \* the scheduler's own thread
  NoThread    \* nobody

VARIABLES
  status,     \* SimulationStatus as status() reports it
  live,       \* a worker thread exists (it runs, or has ended and is not yet joined)
  granted,    \* the worker saw Running and owes one execution of the task
  executing   \* the thread inside the task, or NoThread

lifecycleVars == <<status, live, granted, executing>>

SimulationStatus ==
  {"Uninitialized", "Stopped", "Running", "Paused", "Stopping", "Error"}

LifecycleInit ==
  /\ status = "Uninitialized"
  /\ live = FALSE
  /\ granted = FALSE
  /\ executing = NoThread

\* The scheduler comes into being, and goes out of it only with no worker left.
Become(from, to) ==
  /\ status \in from
  /\ status' = to
  /\ UNCHANGED <<live, granted, executing>>

Configure == ~live /\ ( \/ Become({"Uninitialized"}, "Stopped")
                        \/ Become({"Stopped", "Error"}, "Uninitialized") )

\* A worker is spawned only where none is left to be joined.
Spawn ==
  /\ status = "Stopped" /\ ~live
  /\ status' = "Running" /\ live' = TRUE
  /\ UNCHANGED <<granted, executing>>

Control ==
  \/ Become({"Running"}, "Paused")
  \/ Become({"Paused"}, "Running")
  \/ Become({"Running", "Paused"}, "Stopping")

\* The worker commits to one more execution: only while Running, and never
\* to a second one before the first has ended.
Grant ==
  /\ status = "Running" /\ live /\ ~granted
  /\ granted' = TRUE
  /\ UNCHANGED <<status, live, executing>>

Begin(t) ==
  /\ executing = NoThread
  /\ t = Worker => granted
  /\ executing' = t
  /\ UNCHANGED <<status, live, granted>>

End(t) ==
  /\ executing = t
  /\ executing' = NoThread
  /\ granted' = (granted /\ t # Worker)
  /\ UNCHANGED <<status, live>>

\* A failed execution is reported from every state: a step() may end after shutdown().
Fail == Become(SimulationStatus, "Error")

\* The worker ends with no execution owed; its last write may announce Stopped.
Retire == ~granted /\ live /\ Become({"Stopping"}, "Stopped")

\* The ended worker is joined, after which stop() announces Stopped.
Reap ==
  /\ live /\ ~granted
  /\ status \in {"Stopped", "Error"}
  /\ live' = FALSE
  /\ UNCHANGED <<status, granted, executing>>

StopReturns == ~live /\ Become({"Stopped", "Error"}, "Stopped")

LifecycleNext ==
  \/ Configure \/ Spawn \/ Control \/ Grant \/ Fail
  \/ Retire \/ Reap \/ StopReturns
  \/ \E t \in Executors : Begin(t) \/ End(t)

LifecycleSpec == LifecycleInit /\ [][LifecycleNext]_lifecycleVars
=============================================================================
