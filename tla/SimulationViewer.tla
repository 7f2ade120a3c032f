-------------------------- MODULE SimulationViewer --------------------------
(***************************************************************************)
(* mujoco_simulation/src/viewer/simulation_viewer.cpp: one viewer, the     *)
(* render thread it starts and joins, the threads that start and stop it,  *)
(* and the scheduler's worker, which steps the data and syncs the viewer.  *)
(*                                                                         *)
(* An action is one critical section of mutex_, except that a sync keeps   *)
(* mutex_ while it waits for mtx, the lock of the render loop;             *)
(* lifecycle_mutex_ is held from the beginning of start() or stop() to its *)
(* end.  simulate_ is the object of Simulate that the render loop runs in. *)
(* The steps and resets of the data are those of Simulation, under its     *)
(* runtime_mutex_.                                                         *)
(***************************************************************************)
EXTENDS Simulate

VARIABLES
  state,     \* state_
  simulate,  \* simulate_ # nullptr
  handle,    \* render_thread_.joinable()
  render,    \* where the render thread is, or "none"
  pc,        \* where the holder of lifecycle_mutex_ is, or "idle"
  starting,  \* the holder is in start(), not in stop()
  worker,    \* where the worker is: stopped, paused or ended ("off"), between two
             \* executions ("idle"), or in one: in its physics step, past it ("due"),
             \* in sync() with mutex_ ("wait") or with mtx too ("sync")
  resetting  \* a control caller is in Simulation::reset()

threadVars == <<worker, resetting>>
lifeVars   == <<handle, pc, starting>>
vars == <<simulateVars, mj, state, simulate, render, lifeVars, threadVars>>

ViewerState == {"Stopped", "Starting", "Ready", "Stopping", "Failed"}
RenderLocations == {"none", "create", "publish", "ready", "loop", "load", "events", "render",
                    "free", "finish", "fail", "ended"}
WorkerLocations == {"off", "idle", "step", "due", "wait", "sync"}
LifecycleLocations == {"idle", "stop", "take", "join", "clean", "spawn", "wait"}

MutexFree   == worker \notin {"wait", "sync"}
MtxFree     == worker # "sync" /\ render \notin {"load", "events"}
RuntimeFree == pc = "idle" /\ worker # "step" /\ ~resetting

Init ==
  /\ exitrequest = 0 /\ model = FALSE /\ passive = "none"
  /\ pending = {} /\ touched = {} /\ shown = Default /\ prev = Default
  /\ mj = Default
  /\ state = "Stopped" /\ simulate = FALSE /\ handle = FALSE
  /\ render = "none"
  /\ pc = "idle" /\ starting = FALSE
  /\ worker = "off" /\ resetting = FALSE

(***************************************************************************)
(* start() and stop().                                                     *)
(***************************************************************************)
Goto(from, to) == pc = from /\ pc' = to
KeepThread == UNCHANGED <<render, mj, threadVars>>
KeepUi == UNCHANGED <<model, passive, pending, shown, prev, touched>>

\* A viewer that is ready is not started again.  Simulation::start_viewer holds
\* runtime_mutex_ for the whole call.
CallStart ==
  /\ RuntimeFree /\ MutexFree
  /\ state # "Ready"
  /\ Goto("idle", "stop") /\ starting' = TRUE
  /\ UNCHANGED <<state, simulate, handle, simulateVars>> /\ KeepThread

\* Simulation calls it with the worker joined, or from the worker.  That it comes in the
\* middle of a sync, which there viewer_mutex_ excludes, is allowed here.
CallStop ==
  /\ worker \in {"off", "wait", "sync"}
  /\ Goto("idle", "stop") /\ starting' = FALSE
  /\ UNCHANGED <<state, simulate, handle, simulateVars>> /\ KeepThread

Exit == IF simulate THEN 1 ELSE exitrequest

SetStop ==
  /\ Goto("stop", "take") /\ MutexFree
  /\ state' = IF state = "Stopped" THEN state ELSE "Stopping"
  /\ exitrequest' = Exit
  /\ UNCHANGED <<simulate, handle, starting>> /\ KeepThread /\ KeepUi

NotJoined == "clean"                     \* mutant: the thread is not joined
AfterTake == IF handle THEN "join" ELSE "clean"

TakeHandle ==
  /\ Goto("take", AfterTake) /\ MutexFree
  /\ handle' = FALSE
  /\ UNCHANGED <<state, simulate, starting, simulateVars>> /\ KeepThread

JoinRender ==
  /\ Goto("join", "clean")
  /\ render = "ended" /\ render' = "none"
  /\ UNCHANGED <<state, simulate, handle, starting, simulateVars, mj,
                 threadVars>>

\* start() cleans up what was there before, and goes on; so does a start() that
\* failed, and returns false.
Cleanup ==
  /\ simulate' = FALSE /\ NewSimulate(0) /\ MutexFree
  /\ \/ starting /\ Goto("clean", "spawn") /\ state' = "Starting"
        /\ UNCHANGED starting
     \/ ~starting /\ Goto("clean", "idle") /\ state' = "Stopped" /\ starting' = FALSE
  /\ UNCHANGED handle /\ KeepThread

Spawn ==
  /\ Goto("spawn", "wait") /\ MutexFree
  /\ handle' = TRUE /\ render' = "create"
  /\ UNCHANGED <<state, simulate, starting, simulateVars, mj, threadVars>>

\* No thread can be had: cleanup() and return false.
SpawnFails ==
  /\ Goto("spawn", "idle") /\ starting' = FALSE /\ MutexFree
  /\ state' = "Stopped" /\ simulate' = FALSE /\ NewSimulate(0)
  /\ UNCHANGED handle /\ KeepThread

WaitReady ==
  /\ Goto("wait", "idle") /\ starting' = FALSE /\ MutexFree
  /\ state = "Ready"
  /\ UNCHANGED <<state, simulate, handle, simulateVars>> /\ KeepThread

\* Failed, or the deadline has passed (which is looked at before the state).
WaitFails ==
  /\ Goto("wait", "stop") /\ starting' = FALSE /\ MutexFree
  /\ state # "Ready"
  /\ UNCHANGED <<state, simulate, handle, simulateVars>> /\ KeepThread

(***************************************************************************)
(* The render thread: render_task and RenderLoop.                          *)
(***************************************************************************)
Render(from, to) ==
  /\ render = from /\ render' = to
  /\ UNCHANGED <<lifeVars, threadVars, mj>>

KeepState == UNCHANGED <<state, simulate>>

CreateSimulate == Render("create", "publish") /\ KeepState /\ UNCHANGED simulateVars

ExitForgotten == 0                       \* mutant: a stop() before is not seen
ExitAtOnce == IF state = "Stopping" THEN 1 ELSE 0

PublishSimulate ==
  /\ Render("publish", "ready") /\ MutexFree
  /\ simulate' = TRUE /\ NewSimulate(ExitAtOnce)
  /\ UNCHANGED state

SetReady ==
  /\ Render("ready", "loop") /\ MutexFree
  /\ state' = IF state = "Starting" THEN "Ready" ELSE state
  /\ UNCHANGED <<simulate, simulateVars>>

\* The loop tests exitrequest without mtx, and takes mtx for one pass.
EnterLoad ==
  /\ LoadRequested /\ MtxFree /\ exitrequest = 0
  /\ Render("loop", "load") /\ BeginLoad /\ KeepState /\ UNCHANGED exitrequest

LoadOnRenderThread ==
  /\ Render("load", "events") /\ CopyOnLoad /\ KeepState /\ UNCHANGED exitrequest

EnterEvents ==
  /\ ~LoadRequested /\ MtxFree /\ exitrequest = 0
  /\ Render("loop", "events") /\ KeepState /\ UNCHANGED simulateVars

PollEvents == Render("events", "events") /\ UiEvent /\ KeepState

\* The scene is made from the copies; mtx is released.
UpdateScene == Render("events", "render") /\ KeepState /\ UNCHANGED simulateVars
RenderFrame == Render("render", "loop") /\ KeepState /\ UNCHANGED simulateVars

\* exitrequest, or the user closes the window.
LeaveLoop == Render("loop", "free") /\ KeepState /\ UNCHANGED simulateVars

EndLoop == MtxFree /\ Render("free", "finish") /\ FreeCopies /\ KeepState

FinishedState ==
  IF state \in {"Stopping", "Stopped"} THEN "Stopped" ELSE "Failed"

FinishRender ==
  /\ Render("finish", "ended") /\ MutexFree
  /\ state' = FinishedState
  /\ UNCHANGED <<simulate, simulateVars>>

\* The constructor, or the render loop, throws; mtx is released.
RenderThrows ==
  /\ \E from \in {"create", "load", "events", "render"} : Render(from, "fail")
  /\ KeepState /\ UNCHANGED simulateVars

SetFailed ==
  /\ Render("fail", "ended") /\ MutexFree
  /\ exitrequest' = Exit
  /\ state' = IF state \in {"Stopping", "Stopped"} THEN state ELSE "Failed"
  /\ UNCHANGED simulate /\ KeepUi

(***************************************************************************)
(* The users of the data: the worker's step and sync(), and a reset.       *)
(***************************************************************************)
KeepViewer == UNCHANGED <<state, simulate, render, lifeVars>>

WorkerGoto(from, to) ==
  /\ worker = from /\ worker' = to
  /\ KeepViewer /\ UNCHANGED <<simulateVars, mj, resetting>>

\* start() and resume(); pause(), stop() and an execution that fails.  What comes
\* during an execution takes effect after it.
Run  == WorkerGoto("off", "idle")
Halt == \E from \in {"idle", "due"} : WorkerGoto(from, "off")

\* An execution, in scheduler_run_task.  Its step is under runtime_mutex_, and moves
\* the state as far as it wants.
BeginStep == RuntimeFree /\ WorkerGoto("idle", "step")

EndStep ==
  /\ worker = "step" /\ worker' = "due"
  /\ \E f \in DataFields, v \in Values : mj' = [mj EXCEPT ![f] = v]
  /\ KeepViewer /\ UNCHANGED <<simulateVars, resetting>>

BeginReset ==
  /\ RuntimeFree /\ resetting' = TRUE
  /\ KeepViewer /\ UNCHANGED <<simulateVars, mj, worker>>

EndReset ==
  /\ resetting /\ resetting' = FALSE
  /\ mj' = [f \in Fields |-> IF f \in DataFields THEN "home" ELSE mj[f]]
  /\ KeepViewer /\ UNCHANGED <<simulateVars, worker>>

\* It ends with a sync, where next_sync_time_ has come.
NotDue == WorkerGoto("due", "idle")

Syncable  == state = "Ready" /\ simulate
BeginSync == Syncable /\ WorkerGoto("due", "wait")

\* A viewer that cannot be synced is taken out of viewer_, and the worker fails.
ViewerLost == ~Syncable /\ WorkerGoto("due", "off")

\* exitrequest is looked at under mtx.
EnterSync ==
  /\ MtxFree
  /\ WorkerGoto("wait", IF ~SyncSkips THEN "sync" ELSE IF exitrequest # 0 THEN "off" ELSE "idle")

EndSync ==
  /\ worker = "sync" /\ worker' = "idle"
  /\ Sync
  /\ KeepViewer /\ UNCHANGED resetting

-----------------------------------------------------------------------------
Lifecycle ==
  SetStop \/ TakeHandle \/ JoinRender \/ Cleanup \/ Spawn \/ SpawnFails \/ WaitReady \/ WaitFails

RenderThread ==
  \/ CreateSimulate \/ PublishSimulate \/ SetReady
  \/ EnterLoad \/ LoadOnRenderThread \/ EnterEvents \/ UpdateScene \/ RenderFrame
  \/ LeaveLoop \/ EndLoop \/ FinishRender \/ RenderThrows \/ SetFailed

Execution ==
  BeginStep \/ EndStep \/ NotDue \/ BeginSync \/ ViewerLost \/ EnterSync \/ EndSync

Data == Run \/ Halt \/ Execution \/ BeginReset \/ EndReset

Next ==
  \/ CallStart \/ CallStop \/ Lifecycle \/ RenderThread \/ PollEvents \/ Data

\* Threads are scheduled, also those that wait for a lock that comes free again and
\* again; a worker that goes on executing comes to an execution that is due for a sync,
\* as next_sync_time_ does not move until one was made.  Nobody has to do anything, and
\* the worker need not run.
Fairness ==
  /\ SF_vars(Lifecycle)
  /\ SF_vars(RenderThread)
  /\ SF_vars(Execution) /\ SF_vars(BeginSync)
  /\ WF_vars(EndReset)

Spec == Init /\ [][Next]_vars
FairSpec == Spec /\ Fairness

-----------------------------------------------------------------------------
(***************************************************************************)
(* Properties.                                                             *)
(***************************************************************************)
TypeOK ==
  /\ SimulateTypeOK
  /\ state \in ViewerState /\ render \in RenderLocations
  /\ simulate \in BOOLEAN /\ handle \in BOOLEAN /\ starting \in BOOLEAN /\ resetting \in BOOLEAN
  /\ pc \in LifecycleLocations
  /\ worker \in WorkerLocations

\* simulate_ is not destroyed under the render loop, which uses it without
\* mutex_ (cleanup only comes after the join), nor under a sync.
SimulateOutlivesLoop ==
  /\ render \in {"ready", "loop", "load", "events", "render", "free"} => simulate
  /\ worker \in {"wait", "sync"} => simulate

\* is_ready() never holds of a viewer whose render thread has ended.
ReadyHasThread == state = "Ready" => render \notin {"none", "create", "publish", "ended"}

\* The handle is of the one render thread there is, until stop() takes it to
\* join that thread; what stop() and start() do after that, they do alone.
HandleIsOfTheThread ==
  /\ IF pc = "join" THEN ~handle /\ render # "none" ELSE handle <=> render # "none"
  /\ pc \in {"clean", "spawn"} => ~handle
  /\ pc = "spawn" => state = "Starting"

\* The copies have been made once the model is there, or are being made, and
\* are deleted only behind exitrequest.
CopiesFollowTheModel ==
  /\ ~simulate => ~model /\ passive = "none"
  /\ passive = "live" \/ render = "load" => model
  /\ passive = "deleted" => exitrequest # 0
  /\ model /\ passive = "none" => render \in {"load", "fail"} \/ exitrequest # 0

\* The render thread is in its passes and sync() in the copies one at a time.
MtxIsOfOne == worker = "sync" => render \notin {"load", "events"}

\* What the user has not touched shows what the last sync left.
UntouchedIsAsSynced == \A f \in Fields \ touched : shown[f] = prev[f]

\* The type invariant, with what a render thread, its state, its object and the
\* copies it shows are to one another.
ViewerInv ==
  /\ TypeOK
  /\ SimulateOutlivesLoop /\ ReadyHasThread /\ HandleIsOfTheThread
  /\ CopiesFollowTheModel /\ MtxIsOfOne /\ UntouchedIsAsSynced

\* A sync that goes past its tests does so neither before the render thread has made
\* the copies of the model and the data nor after it has deleted them.  Not covered, as
\* the code does it: a load that throws leaves m_ set without copies, and a sync that
\* waits for mtx meanwhile works on the missing ones before set_failed() can be there.
SyncTouchesLiveCopies == worker = "sync" => passive = "live" \/ render = "fail"

\* A sync leaves a field that the user has not edited as the simulation has it, unless
\* one of the user's requests sets that very field: the window does not undo steps and
\* resets.  Not covered, as the code does it: a field shown as NaN, which is unequal to
\* itself, is written back over whatever the simulation has.
RequestSets(f) ==
  \/ f \in DataFields /\ pending \cap {"reset", "load_key"} # {}
  \/ f = "ctrl" /\ "zero_ctrl" \in pending
SyncKeepsUntouched ==
  [][EndSync =>
       \A f \in Fields \ touched :
         mj'[f] = mj[f] \/ shown[f] = "NaN" \/ RequestSets(f)]_vars

\* What the user has asked for is done while the worker executes, or given up with the
\* window: a paused or failed simulation serves nothing, and owes it when it goes on.
RequestsServed ==
  \A r \in Requests :
    r \in pending ~> r \notin pending \/ exitrequest # 0 \/ worker = "off"

\* stop() returns, and so does a start() that has to stop a viewer first.
StopReturns == pc = "stop" ~> pc = "idle"

\* Violated: mjData has a single writer, which is alone with it.  (A sync writes it
\* with no lock of the simulation, a reset with none of the viewer, and the render
\* thread copies it with only its own, after start() has returned.)
Using == ({worker, render} \cap {"step", "sync", "load"}) \cup {r \in {"reset"} : resetting}
WriterAlone == \A w \in Using \ {"load"} : Using = {w}
=============================================================================
