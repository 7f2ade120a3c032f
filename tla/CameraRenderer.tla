--------------------------- MODULE CameraRenderer ---------------------------
(***************************************************************************)
(* The offscreen renderer that all cameras share, and the cameras' update. *)
(* Its operations come from two threads, one after another: initialize()   *)
(* and shutdown() of the simulation run on the caller's, the updates on    *)
(* the worker's, always under runtime_mutex_.  Every call of GLFW, EGL or  *)
(* MuJoCo that can fail may fail here, and the code undoes what it did.    *)
(*                                                                         *)
(* `owned' is what the object has a handle of; `live', `current' and       *)
(* `buffer' are what the drivers hold.  A GL context is current on at most *)
(* one thread: making it current on a second fails there, which EGL        *)
(* reports and the code does not ask GLFW.                                 *)
(***************************************************************************)
EXTENDS Naturals

CONSTANTS
  Cameras,      \* camera -> [width, height, depth (enabled), fovy (in range)]
  DefaultSize,  \* offscreen buffer that mjr_makeContext makes: the model's
  MaxTime,      \* bound on mjData time
  None

VARIABLES
  allowed,         \* config_: the backends that may be tried
  pc, op, thread,  \* where the operation is, which it is, on which thread
  camera, due,     \* the camera rendered, the cameras still to be rendered
  result,          \* what the operation is about to return
  faulty,          \* history: has a call outside failed during the operation?
  backend, owned, initialized, size,   \* gl_context_, handles, offscreen_width_...
  live, current, buffer, glfw,         \* of the drivers; glfw: glfwInit() succeeded
  time, copied, state                  \* mjData time, of render_data_, of each image

operation == <<pc, op, thread, camera, due, result, faulty>>
renderer  == <<backend, owned, initialized, size>>
drivers   == <<live, current, buffer, glfw>>
world     == <<time, copied, state>>
vars == <<allowed, operation, renderer, drivers, world>>

Threads  == {"caller", "worker"}
Backends == {"glfw", "egl"}
Handles  == [none |-> {}, glfw |-> {"window"}, egl |-> {"display", "context", "surface"}]
Larger(m, n) == IF m > n THEN m ELSE n
NoSize == [width |-> 0, height |-> 0]
AllCameras == DOMAIN Cameras

Times == 0..MaxTime
Sizes == [width : Nat, height : Nat]

\* Widths and heights are counts of pixels: init() of a camera rejects others.
ASSUME CamerasAssumption ==
  /\ \A c \in AllCameras : Cameras[c] \in [width : Nat, height : Nat, depth : BOOLEAN, fovy : BOOLEAN]
  /\ DefaultSize \in Sizes /\ MaxTime \in Nat

Init ==
  /\ allowed \in SUBSET Backends
  /\ pc = "idle" /\ op = "none" /\ thread = "caller" /\ camera = None /\ due = {}
  /\ result = TRUE /\ faulty = FALSE
  /\ backend = "none" /\ owned = {} /\ initialized = FALSE /\ size = NoSize
  /\ live = {} /\ current = [t \in Threads |-> "none"] /\ buffer = NoSize /\ glfw = FALSE
  /\ time = 0 /\ copied = None /\ state = [c \in AllCameras |-> None]

-----------------------------------------------------------------------------
(***************************************************************************)
(* Control: the next step, the outcome of a call outside, the return.      *)
(***************************************************************************)
At(location) == pc = location /\ UNCHANGED <<allowed, op, thread>>
KeepOperation == UNCHANGED <<camera, due, result>>
Goto(location) == pc' = location /\ KeepOperation
Succeeds == UNCHANGED faulty
Fails == faulty' = TRUE

Return(r) == pc' = "idle" /\ result' = r /\ UNCHANGED <<camera, due>>

\* The end of initialize(): the operation that called it goes on, or fails too.
Initialized(r) ==
  IF ~r \/ op = "initialize" THEN Return(r)
  ELSE Goto("activate to copy")

Begin(t, o, location) ==
  /\ pc = "idle" /\ pc' = location /\ op' = o /\ thread' = t /\ result' = TRUE /\ faulty' = FALSE
  /\ camera' = None
  /\ UNCHANGED <<allowed, renderer, drivers, world>>

CallInitialize(t) == Begin(t, "initialize", "initialize") /\ due' = {}
CallRelease(t)    == Begin(t, "release", "release") /\ due' = {}
CallUpdate(t)     == Begin(t, "update", "initialize") /\ due' \in SUBSET AllCameras \ {{}}

\* The physics steps and resets the mjData between two operations.
SimulationMoves ==
  /\ pc = "idle" /\ time' \in {0, time + 1} \ {time} /\ time' <= MaxTime
  /\ UNCHANGED <<allowed, operation, renderer, drivers, copied, state>>

(***************************************************************************)
(* Making a context current.                                               *)
(***************************************************************************)
CurrentElsewhere == \E t \in Threads \ {thread} : current[t] = backend

\* Every call of activate_context() goes on at `yes' or at `no'.
Activate(yes, no) ==
  /\ IF backend # "none" /\ Handles[backend] \subseteq owned
     THEN \/ /\ ~CurrentElsewhere /\ Succeeds /\ yes
             /\ current' = [current EXCEPT ![thread] = backend]
          \/ /\ CurrentElsewhere /\ backend = "glfw" /\ Succeeds /\ yes
             /\ UNCHANGED current
          \/ /\ backend = "egl" /\ Fails /\ no
             /\ UNCHANGED current
     ELSE Succeeds /\ no /\ UNCHANGED current
  /\ UNCHANGED <<renderer, live, buffer, glfw, world>>

Deactivated == [current EXCEPT ![thread] = "none"]

\* Mutant: the guard of the context's scope is missing.
LeftCurrent == current

\* The guard ScopeExit deactivates the context on every path out of its scope.
LeaveContext == Deactivated

(***************************************************************************)
(* initialize().                                                           *)
(***************************************************************************)
Initialize ==
  /\ At("initialize")
  /\ IF initialized THEN Initialized(TRUE)
     ELSE IF backend # "none" THEN Goto("activate to create")
     ELSE IF "glfw" \in allowed THEN Goto("glfw")
     ELSE IF "egl" \in allowed THEN Goto("display") ELSE Initialized(FALSE)
  /\ faulty' = (faulty \/ allowed = {})
  /\ UNCHANGED <<renderer, drivers, world>>

WithoutGlfw == IF "egl" \in allowed THEN Goto("display") ELSE Initialized(FALSE)

\* glfwInit() once in the process; then a hidden window.
CreateWindow ==
  /\ At("glfw") /\ Succeeds
  /\ glfw' = TRUE /\ backend' = "glfw"
  /\ owned' = owned \union {"window"} /\ live' = live \union {"window"}
  /\ Goto("activate to create")
  /\ UNCHANGED <<initialized, size, current, buffer, world>>

CreateWindowFails ==
  /\ At("glfw") /\ Fails
  /\ glfw' \in {glfw, TRUE}
  /\ WithoutGlfw
  /\ UNCHANGED <<renderer, live, current, buffer, world>>

\* What an EGL step adds, and the one after it; "display" is eglInitialize(),
\* the choice of a configuration and eglBindAPI().
EglSteps == [display |-> "context", context |-> "surface", surface |-> "activate to create"]

CreateEgl(step) ==
  /\ At(step) /\ Succeeds
  /\ owned' = owned \union {step} /\ live' = live \union {step}
  /\ backend' = IF step = "surface" THEN "egl" ELSE backend
  /\ Goto(EglSteps[step])
  /\ UNCHANGED <<initialized, size, current, buffer, glfw, world>>

\* Mutant: a step that fails only clears the handles.
OnlyForgotten == live

\* destroy_egl_context(): what was made before the failure is destroyed again.
EglDestroyed == live \ Handles.egl

CreateEglFails(step) ==
  /\ At(step) /\ Fails
  /\ live' = EglDestroyed
  /\ owned' = owned \ Handles.egl
  /\ current' = Deactivated
  /\ Initialized(FALSE)
  /\ UNCHANGED <<backend, initialized, size, buffer, glfw, world>>

ActivateToCreate ==
  /\ At("activate to create")
  /\ Activate(Goto("create resources"), Goto("release"))

\* The scene and the mjrContext, with an offscreen buffer of the model's size.
CreateResources ==
  /\ At("create resources") /\ Succeeds
  /\ owned' = owned \union {"data", "scene"} /\ live' = live \union {"data", "scene"}
  /\ initialized' = TRUE /\ buffer' = DefaultSize /\ copied' = None
  /\ current' = LeaveContext
  /\ Initialized(TRUE)
  /\ UNCHANGED <<backend, size, glfw, time, state>>

CreateResourcesFails ==
  /\ At("create resources") /\ Fails
  /\ current' = LeaveContext
  /\ Goto("release")
  /\ UNCHANGED <<renderer, live, buffer, glfw, world>>

(***************************************************************************)
(* release(): an operation of its own, and the end of a failed initialize. *)
(***************************************************************************)
Released == Goto("destroy")

Release ==
  /\ At("release")
  /\ Activate(Released, Released)

\* Mutant: the backend is still the one of the context that was destroyed.
BackendKept == backend

NoBackend == "none"

\* Mutant: the size of a buffer that is gone is kept.
SizeKept == size

ClearedSize == NoSize

Destroy ==
  /\ At("destroy") /\ Succeeds
  /\ initialized' = FALSE /\ backend' = NoBackend /\ owned' = {} /\ size' = ClearedSize
  /\ live' = live \ owned
  /\ current' = Deactivated /\ buffer' = NoSize /\ copied' = None
  /\ IF op = "release" THEN Return(TRUE) ELSE Initialized(FALSE)
  /\ UNCHANGED <<glfw, time, state>>

(***************************************************************************)
(* An update: the mjData is copied once, then the due cameras rendered.    *)
(***************************************************************************)
ActivateToCopy ==
  /\ At("activate to copy")
  /\ Activate(Goto("copy"), Return(FALSE))

\* Mutant: the data are copied for the first image only.
CopiedOnce == IF copied = None THEN time ELSE copied

CopyOfData == time

CopySimulationData ==
  /\ At("copy") /\ Succeeds
  /\ copied' = CopyOfData
  /\ current' = LeaveContext
  /\ Goto("next camera")
  /\ UNCHANGED <<renderer, live, buffer, glfw, time, state>>

CopySimulationDataFails ==
  /\ At("copy") /\ Fails
  /\ current' = LeaveContext
  /\ Return(FALSE)
  /\ UNCHANGED <<renderer, live, buffer, glfw, world>>

NextCamera ==
  /\ At("next camera") /\ Succeeds
  /\ IF due = {} THEN Return(TRUE)
     ELSE \E c \in due : camera' = c /\ due' = due \ {c} /\ pc' = "activate to render" /\ UNCHANGED result
  /\ UNCHANGED <<renderer, drivers, world>>

\* What init() of the camera does not check: the model's field of view.
RenderRejected ==
  /\ At("activate to render") /\ ~Cameras[camera].fovy /\ Fails
  /\ Return(FALSE)
  /\ UNCHANGED <<renderer, drivers, world>>

ActivateToRender ==
  /\ At("activate to render") /\ Cameras[camera].fovy
  /\ Activate(Goto("resize"), Return(FALSE))

FitsBuffer(c) == c.width <= size.width /\ c.height <= size.height

ResizeOffscreenBuffer ==
  /\ At("resize") /\ Succeeds
  /\ size' = IF FitsBuffer(Cameras[camera]) THEN size
             ELSE [width  |-> Larger(size.width, Cameras[camera].width),
                   height |-> Larger(size.height, Cameras[camera].height)]
  /\ buffer' = IF size' = size THEN buffer ELSE size'
  /\ Goto("draw")
  /\ UNCHANGED <<backend, owned, initialized, live, current, glfw, world>>

Draw ==
  /\ At("draw") /\ Succeeds
  /\ state' = [state EXCEPT ![camera] = [timestamp |-> time, image |-> copied]]
  /\ current' = LeaveContext
  /\ Goto("next camera")
  /\ UNCHANGED <<renderer, live, buffer, glfw, time, copied>>

\* A depth that is not in the camera's range fails the render: no image.
DrawFails ==
  /\ At("draw") /\ Cameras[camera].depth /\ Fails
  /\ current' = LeaveContext
  /\ Return(FALSE)
  /\ UNCHANGED <<renderer, live, buffer, glfw, world>>

-----------------------------------------------------------------------------
Call == \E t \in Threads : CallInitialize(t) \/ CallRelease(t) \/ CallUpdate(t)

Create ==
  \/ Initialize \/ CreateWindow \/ CreateWindowFails
  \/ \E step \in DOMAIN EglSteps : CreateEgl(step) \/ CreateEglFails(step)
  \/ ActivateToCreate \/ CreateResources \/ CreateResourcesFails

Render ==
  \/ ActivateToCopy \/ CopySimulationData \/ CopySimulationDataFails
  \/ NextCamera \/ RenderRejected \/ ActivateToRender
  \/ ResizeOffscreenBuffer \/ Draw \/ DrawFails

Next == Call \/ SimulationMoves \/ Create \/ Release \/ Destroy \/ Render

Spec == Init /\ [][Next]_vars

-----------------------------------------------------------------------------
Objects == Handles.glfw \union Handles.egl \union {"data", "scene"}

Creating  == {"glfw", "display", "context", "surface", "activate to create", "create resources"}
Rendering == {"activate to copy", "copy", "next camera", "activate to render", "resize", "draw"}
Locations == {"idle", "initialize", "release", "destroy"} \union Creating \union Rendering

OperationTypes ==
  /\ pc \in Locations /\ op \in {"none", "initialize", "release", "update"} /\ thread \in Threads
  /\ camera \in AllCameras \union {None} /\ due \subseteq AllCameras
  /\ result \in BOOLEAN /\ faulty \in BOOLEAN

RendererTypes ==
  /\ allowed \subseteq Backends /\ backend \in Backends \union {"none"}
  /\ initialized \in BOOLEAN /\ glfw \in BOOLEAN
  /\ owned \subseteq Objects /\ live \subseteq Objects
  /\ current \in [Threads -> Backends \union {"none"}]
  /\ size \in Sizes /\ buffer \in Sizes

ImageTypes ==
  /\ time \in Times /\ copied \in Times \union {None}
  /\ state \in [AllCameras -> [timestamp : Times, image : Times \union {None}] \union {None}]

TypeOK == OperationTypes /\ RendererTypes /\ ImageTypes

(***************************************************************************)
(* Where an operation is says what the renderer has: the parts of the      *)
(* invariant that the others rest on.                                      *)
(***************************************************************************)
\* A renderer is made in the steps of initialize(), used by an update when it is
\* whole, and taken apart by release().
StageOfRenderer ==
  /\ pc \in Creating \union {"initialize"} => op \in {"initialize", "update"}
  /\ pc \in Rendering => op = "update"
  /\ pc \in {"idle", "initialize"} => (initialized <=> backend # "none")
  /\ pc \in {"glfw", "display", "context", "surface"} => backend = "none" /\ ~initialized
  /\ pc \in {"activate to create", "create resources"} => backend # "none" /\ ~initialized
  /\ pc \in Rendering => backend # "none" /\ initialized
  /\ pc \in {"release", "destroy"} =>
       IF op = "release" THEN initialized <=> backend # "none" ELSE backend # "none" /\ ~initialized

\* What the drivers hold is what the object has handles of, and that is the
\* backend's context, or the part of it made so far, and the scene.
OwnedIsLive ==
  /\ owned = live
  /\ owned = (CASE pc = "context" -> {"display"}
               [] pc = "surface" -> {"display", "context"}
               [] OTHER -> IF backend = "none" THEN {} ELSE Handles[backend])
             \union (IF initialized THEN {"data", "scene"} ELSE {})

\* A context is current inside its scope and on the operation's thread.
CurrentInScope ==
  \A t \in Threads :
    current[t] # "none" => /\ t = thread /\ current[t] = backend
                           /\ pc \in {"create resources", "destroy", "copy", "resize", "draw"}

\* The size the object remembers never exceeds the buffer's.
SizeIsOfBuffer ==
  IF initialized THEN size.width <= buffer.width /\ size.height <= buffer.height ELSE size = NoSize

\* The copy is of the present instant from when it is made to the end of the
\* update, and there is a camera to be rendered when one is.
CopyIsFresh ==
  /\ pc \in Rendering \ {"activate to copy", "copy"} => copied = time
  /\ pc \in {"activate to render", "resize", "draw"} => camera \in AllCameras

\* Only a failure leads an operation to a release it did not ask for, and
\* nothing is reported before the end.
FailureIsKnown ==
  /\ pc \in {"release", "destroy"} /\ op # "release" => faulty
  /\ pc # "idle" => result

\* No image is larger than the buffer it is drawn in and read from.
ImageFits ==
  pc = "draw" => /\ Cameras[camera].width <= size.width /\ size.width <= buffer.width
                 /\ Cameras[camera].height <= size.height /\ size.height <= buffer.height

\* The type invariant, and what the operation in progress has and has not yet.
RendererInv ==
  /\ TypeOK /\ StageOfRenderer /\ OwnedIsLive /\ CurrentInScope
  /\ SizeIsOfBuffer /\ CopyIsFresh /\ FailureIsKnown /\ ImageFits

\* Between two operations the drivers hold what the renderer has handles of, and
\* hold nothing unless it is initialized, whatever failed half-way before:
\* nothing is leaked, and nothing is used after it was destroyed.
NothingLeaks ==
  pc = "idle" => live = owned /\ (live # {} <=> initialized)

\* MuJoCo draws, and makes or resizes GL objects, only with the renderer's
\* context current on its thread, and no operation leaves it current: an update
\* on the worker's thread needs what initialize() used on the caller's.  That GL
\* objects are freed in their context is not said: a release() that cannot make it
\* current frees them without one.
DrawsInItsContext ==
  /\ pc \in {"create resources", "resize", "draw"} => current[thread] = backend
  /\ pc = "idle" => \A t \in Threads : current[t] = "none"

\* The image a camera has is of the instant it is stamped with.
ImageOfItsInstant ==
  \A c \in AllCameras : state[c] # None => state[c].image = state[c].timestamp

\* Failures leave no trace: an operation during which no call failed succeeds,
\* whatever failed in earlier ones.
FailuresLeaveNoTrace == pc = "idle" /\ ~faulty => result
=============================================================================
