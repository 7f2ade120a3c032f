------------------------- MODULE SchedulerInvariant -------------------------
(***************************************************************************)
(* The inductive invariant of SimulationScheduler: checked by TLC on small *)
(* instances here, proved in SchedulerProofs.  None of the safety          *)
(* invariants is inductive on its own: each relies on where the one caller *)
(* behind simulation_control_mutex_ is, and on what the worker can have    *)
(* seen there.  IInv says both.                                            *)
(***************************************************************************)
EXTENDS SimulationScheduler

\* simulation_control_mutex_: whoever is in an operation holds it.
ControlMutex == \A c \in Callers : pc[c] # "idle" => control = c

\* The locations each operation passes through.
CallShape ==
  \A c \in Callers :
    /\ pc[c] = "notify" => op[c] \in {"stop", "shutdown", "resume"}
    /\ pc[c] \in {"stop", "joinable", "join", "finish"} => op[c] \in {"stop", "shutdown"}
    /\ pc[c] = "clear" => op[c] = "shutdown"

\* What a caller in stop() knows about the status and about the thread.
StopKnows ==
  \A c \in Callers :
    /\ InStop(c) \/ pc[c] = "clear" => status \in {"Stopping", "Stopped", "Error"}
    /\ pc[c] = "join" => Joinable
    /\ pc[c] \in {"finish", "clear"} => ~Joinable

StoppingIsOwned ==
  status = "Stopping" => StopInProgress /\ wpc \notin {"none", "done"}

\* The worker leaves its loop on a stop request or after reporting Error.
ExitHasCause == wpc \in {"exit", "done"} => status = "Error" \/ StopInProgress

OwesSteps == \A s \in Steppers : spc[s] \in {"acquire", "task"} => remaining[s] >= 1

\* A worker that has begun a late execution holds no further permission.
LateSpent ==
  /\ late <= 1
  /\ IF status = "Running" THEN late = 0 ELSE late = 1 => wpc # "acquire"

\* What holds in every state of simulation_scheduler.cpp and is kept by every step of it.
IInv ==
  /\ TypeOK
  /\ ControlMutex
  /\ CallShape
  /\ StopKnows
  /\ StoppingIsOwned
  /\ ExitHasCause
  /\ OwesSteps
  /\ LateSpent
  /\ TaskExclusive
  /\ StopRequestIsOwned
  /\ RunningHasWorker
  /\ StoppedIsQuiescent
=============================================================================
