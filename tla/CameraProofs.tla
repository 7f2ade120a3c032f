---------------------------- MODULE CameraProofs ----------------------------
(***************************************************************************)
(* Proofs about CameraRenderer for any cameras, any size of the model's    *)
(* buffer and any bound on time.  Where an operation is says what the      *)
(* renderer has (RendererInv); that no image is stale, that MuJoCo draws   *)
(* in its context and that a failure is never reported without a cause     *)
(* rest on it, and are inductive with it.                                  *)
(***************************************************************************)
EXTENDS CameraRenderer, TLAPS

IInv == RendererInv /\ DrawsInItsContext /\ ImageOfItsInstant /\ FailuresLeaveNoTrace

\* Abbreviations of control, of values and of tuples: always expanded.
USE DEF KeepOperation, Goto, Succeeds, Fails, Return, Initialized, At, Begin,
        Deactivated, LeaveContext, NoBackend, ClearedSize, CopyOfData, EglDestroyed,
        Released, WithoutGlfw, CurrentElsewhere, operation, renderer, drivers, world,
        TypeOK, RendererInv, IInv

\* The three steps of EGL, one after another, up to the activation.
LEMMA EglStepsAre ==
  ASSUME NEW step \in DOMAIN EglSteps
  PROVE  \/ step = "display" /\ EglSteps[step] = "context"
         \/ step = "context" /\ EglSteps[step] = "surface"
         \/ step = "surface" /\ EglSteps[step] = "activate to create"
<1>1. step \in {"display", "context", "surface"}
  BY DEF EglSteps
<1>2. /\ EglSteps["display"] = "context" /\ EglSteps["context"] = "surface"
      /\ EglSteps["surface"] = "activate to create"
  BY DEF EglSteps
<1>. QED BY <1>1, <1>2

\* Wherever activate_context() is called, no thread has the context current and
\* the renderer has all the handles of its backend: only EGL itself can refuse.
LEMMA ContextIsFree ==
  ASSUME IInv, pc \in {"activate to create", "activate to copy", "activate to render", "release"}
  PROVE  /\ \A t \in Threads : current[t] = "none"
         /\ backend # "none" => Handles[backend] \subseteq owned
BY DEF RendererTypes, OwnedIsLive, CurrentInScope

\* A renderer as its constructor leaves it satisfies the invariant.
LEMMA Initially == Init => IInv
<1>. SUFFICES ASSUME Init PROVE IInv
  OBVIOUS
<1>. USE DEF Init
<1>1. OperationTypes
  BY DEF OperationTypes, Locations, Threads
<1>2. RendererTypes
  <2>1. NoSize \in Sizes
    BY DEF NoSize, Sizes
  <2>. QED BY <2>1 DEF RendererTypes
<1>3. ImageTypes
  BY CamerasAssumption DEF ImageTypes, Times
<1>4. StageOfRenderer /\ OwnedIsLive /\ CurrentInScope
  BY DEF StageOfRenderer, OwnedIsLive, CurrentInScope, Threads, Creating, Rendering
<1>5. SizeIsOfBuffer /\ CopyIsFresh /\ FailureIsKnown /\ ImageFits
  BY DEF SizeIsOfBuffer, CopyIsFresh, FailureIsKnown, ImageFits, Rendering
<1>6. DrawsInItsContext /\ ImageOfItsInstant /\ FailuresLeaveNoTrace
  BY DEF DrawsInItsContext, ImageOfItsInstant, FailuresLeaveNoTrace
<1>. QED BY <1>1, <1>2, <1>3, <1>4, <1>5, <1>6

\* A call begins between two operations, on either thread.
LEMMA CallKeeps ==
  ASSUME IInv, NEW t \in Threads, CallInitialize(t) \/ CallRelease(t) \/ CallUpdate(t) PROVE IInv'
<1>1. CASE CallInitialize(t)
  <2>. USE <1>1 DEF CallInitialize
  <2>1. OperationTypes'
    BY DEF OperationTypes, Locations, Creating, Rendering, Threads
  <2>2. RendererTypes'
    BY DEF OperationTypes, RendererTypes, Threads, Backends, Objects, Handles
  <2>3. ImageTypes'
    BY DEF OperationTypes, ImageTypes
  <2>4. StageOfRenderer'
    BY DEF OperationTypes, RendererTypes, StageOfRenderer, Creating, Rendering
  <2>5. OwnedIsLive'
    BY DEF OwnedIsLive, StageOfRenderer, Handles
  <2>6. (CurrentInScope /\ DrawsInItsContext)'
    BY DEF OperationTypes, RendererTypes, StageOfRenderer, OwnedIsLive,
           CurrentInScope, DrawsInItsContext
  <2>7. (SizeIsOfBuffer /\ ImageFits)'
    BY DEF RendererTypes, StageOfRenderer, SizeIsOfBuffer, ImageFits
  <2>8. (CopyIsFresh /\ ImageOfItsInstant)'
    BY DEF OperationTypes, ImageTypes, Rendering, CopyIsFresh, ImageOfItsInstant
  <2>9. (FailureIsKnown /\ FailuresLeaveNoTrace)'
    BY DEF OperationTypes, RendererTypes, StageOfRenderer, Creating, Rendering,
           FailureIsKnown, FailuresLeaveNoTrace
  <2>. QED BY <2>1, <2>2, <2>3, <2>4, <2>5, <2>6, <2>7, <2>8, <2>9
<1>2. CASE CallRelease(t)
  <2>. USE <1>2 DEF CallRelease
  <2>1. OperationTypes'
    BY DEF OperationTypes, Locations, Creating, Rendering, Threads
  <2>2. RendererTypes'
    BY DEF OperationTypes, RendererTypes, Threads, Backends, Objects, Handles
  <2>3. ImageTypes'
    BY DEF OperationTypes, ImageTypes
  <2>4. StageOfRenderer'
    BY DEF OperationTypes, RendererTypes, StageOfRenderer, Creating, Rendering
  <2>5. OwnedIsLive'
    BY DEF OwnedIsLive, StageOfRenderer, Handles
  <2>6. (CurrentInScope /\ DrawsInItsContext)'
    BY DEF OperationTypes, RendererTypes, StageOfRenderer, OwnedIsLive,
           CurrentInScope, DrawsInItsContext
  <2>7. (SizeIsOfBuffer /\ ImageFits)'
    BY DEF RendererTypes, StageOfRenderer, SizeIsOfBuffer, ImageFits
  <2>8. (CopyIsFresh /\ ImageOfItsInstant)'
    BY DEF OperationTypes, ImageTypes, Rendering, CopyIsFresh, ImageOfItsInstant
  <2>9. (FailureIsKnown /\ FailuresLeaveNoTrace)'
    BY DEF OperationTypes, RendererTypes, StageOfRenderer, Creating, Rendering,
           FailureIsKnown, FailuresLeaveNoTrace
  <2>. QED BY <2>1, <2>2, <2>3, <2>4, <2>5, <2>6, <2>7, <2>8, <2>9
<1>3. CASE CallUpdate(t)
  <2>. USE <1>3 DEF CallUpdate
  <2>1. OperationTypes'
    BY DEF OperationTypes, Locations, Creating, Rendering, Threads
  <2>2. RendererTypes'
    BY DEF OperationTypes, RendererTypes, Threads, Backends, Objects, Handles
  <2>3. ImageTypes'
    BY DEF OperationTypes, ImageTypes
  <2>4. StageOfRenderer'
    BY DEF OperationTypes, RendererTypes, StageOfRenderer, Creating, Rendering
  <2>5. OwnedIsLive'
    BY DEF OwnedIsLive, StageOfRenderer, Handles
  <2>6. (CurrentInScope /\ DrawsInItsContext)'
    BY DEF OperationTypes, RendererTypes, StageOfRenderer, OwnedIsLive,
           CurrentInScope, DrawsInItsContext
  <2>7. (SizeIsOfBuffer /\ ImageFits)'
    BY DEF RendererTypes, StageOfRenderer, SizeIsOfBuffer, ImageFits
  <2>8. (CopyIsFresh /\ ImageOfItsInstant)'
    BY DEF OperationTypes, ImageTypes, Rendering, CopyIsFresh, ImageOfItsInstant
  <2>9. (FailureIsKnown /\ FailuresLeaveNoTrace)'
    BY DEF OperationTypes, RendererTypes, StageOfRenderer, Creating, Rendering,
           FailureIsKnown, FailuresLeaveNoTrace
  <2>. QED BY <2>1, <2>2, <2>3, <2>4, <2>5, <2>6, <2>7, <2>8, <2>9
<1>. QED BY <1>1, <1>2, <1>3

\* The physics moves between two operations: no image changes.
LEMMA SimulationKeeps ==
  ASSUME IInv, SimulationMoves PROVE IInv'
<1>1. CASE SimulationMoves
  <2>. USE <1>1 DEF SimulationMoves
  <2>1. OperationTypes'
    BY DEF OperationTypes, Locations, Creating, Rendering, Threads
  <2>2. RendererTypes'
    BY DEF OperationTypes, RendererTypes, Threads, Backends, Objects, Handles
  <2>3. ImageTypes'
    BY CamerasAssumption DEF ImageTypes, Times
  <2>4. StageOfRenderer'
    BY DEF OperationTypes, RendererTypes, StageOfRenderer, Creating, Rendering
  <2>5. OwnedIsLive'
    <3>1. UNCHANGED <<pc, owned, live, backend, initialized>>
      OBVIOUS
    <3>. QED BY ONLY <3>1, OwnedIsLive DEF OwnedIsLive
  <2>6. (CurrentInScope /\ DrawsInItsContext)'
    BY DEF OperationTypes, RendererTypes, StageOfRenderer, OwnedIsLive,
           CurrentInScope, DrawsInItsContext
  <2>7. (SizeIsOfBuffer /\ ImageFits)'
    BY DEF RendererTypes, StageOfRenderer, SizeIsOfBuffer, ImageFits
  <2>8. (CopyIsFresh /\ ImageOfItsInstant)'
    BY DEF OperationTypes, ImageTypes, Rendering, CopyIsFresh, ImageOfItsInstant
  <2>9. (FailureIsKnown /\ FailuresLeaveNoTrace)'
    BY DEF OperationTypes, RendererTypes, StageOfRenderer, Creating, Rendering,
           FailureIsKnown, FailuresLeaveNoTrace
  <2>. QED BY <2>1, <2>2, <2>3, <2>4, <2>5, <2>6, <2>7, <2>8, <2>9
<1>. QED BY <1>1

\* The steps of initialize(), and what undoes them.
LEMMA CreateKeeps ==
  ASSUME IInv, Create PROVE IInv'
<1>1. CASE Initialize
  <2>. USE <1>1 DEF Initialize
  <2>1. OperationTypes'
    BY DEF OperationTypes, Locations, Creating, Rendering, Threads
  <2>2. RendererTypes'
    BY DEF OperationTypes, RendererTypes, Threads, Backends, Objects, Handles
  <2>3. ImageTypes'
    BY DEF OperationTypes, ImageTypes
  <2>4. StageOfRenderer'
    BY DEF OperationTypes, RendererTypes, StageOfRenderer, Creating, Rendering
  <2>5. OwnedIsLive'
    BY DEF OwnedIsLive, StageOfRenderer, Handles
  <2>6. (CurrentInScope /\ DrawsInItsContext)'
    BY DEF OperationTypes, RendererTypes, StageOfRenderer, OwnedIsLive,
           CurrentInScope, DrawsInItsContext
  <2>7. (SizeIsOfBuffer /\ ImageFits)'
    BY DEF RendererTypes, StageOfRenderer, SizeIsOfBuffer, ImageFits
  <2>8. (CopyIsFresh /\ ImageOfItsInstant)'
    BY DEF OperationTypes, ImageTypes, Rendering, CopyIsFresh, ImageOfItsInstant
  <2>9. (FailureIsKnown /\ FailuresLeaveNoTrace)'
    <3>1. CASE allowed = {}
      BY <3>1 DEF FailureIsKnown, FailuresLeaveNoTrace
    <3>2. CASE allowed # {}
      <4>1. "glfw" \in allowed \/ "egl" \in allowed
        BY <3>2 DEF RendererTypes, Backends
      <4>. QED BY <4>1 DEF FailureIsKnown, FailuresLeaveNoTrace
    <3>. QED BY <3>1, <3>2
  <2>. QED BY <2>1, <2>2, <2>3, <2>4, <2>5, <2>6, <2>7, <2>8, <2>9
<1>2. CASE CreateWindow
  <2>. USE <1>2 DEF CreateWindow
  <2>1. OperationTypes'
    BY DEF OperationTypes, Locations, Creating, Rendering, Threads
  <2>2. RendererTypes'
    BY DEF OperationTypes, RendererTypes, Threads, Backends, Objects, Handles
  <2>3. ImageTypes'
    BY DEF OperationTypes, ImageTypes
  <2>4. StageOfRenderer'
    BY DEF OperationTypes, RendererTypes, StageOfRenderer, Creating, Rendering
  <2>5. OwnedIsLive'
    BY DEF OwnedIsLive, StageOfRenderer, Handles
  <2>6. (CurrentInScope /\ DrawsInItsContext)'
    BY DEF OperationTypes, RendererTypes, StageOfRenderer, OwnedIsLive,
           CurrentInScope, DrawsInItsContext
  <2>7. (SizeIsOfBuffer /\ ImageFits)'
    BY DEF RendererTypes, StageOfRenderer, SizeIsOfBuffer, ImageFits
  <2>8. (CopyIsFresh /\ ImageOfItsInstant)'
    BY DEF OperationTypes, ImageTypes, Rendering, CopyIsFresh, ImageOfItsInstant
  <2>9. (FailureIsKnown /\ FailuresLeaveNoTrace)'
    BY DEF OperationTypes, RendererTypes, StageOfRenderer, Creating, Rendering,
           FailureIsKnown, FailuresLeaveNoTrace
  <2>. QED BY <2>1, <2>2, <2>3, <2>4, <2>5, <2>6, <2>7, <2>8, <2>9
<1>3. CASE CreateWindowFails
  <2>. USE <1>3 DEF CreateWindowFails
  <2>1. OperationTypes'
    BY DEF OperationTypes, Locations, Creating, Rendering, Threads
  <2>2. RendererTypes'
    BY DEF OperationTypes, RendererTypes, Threads, Backends, Objects, Handles
  <2>3. ImageTypes'
    BY DEF OperationTypes, ImageTypes
  <2>4. StageOfRenderer'
    BY DEF OperationTypes, RendererTypes, StageOfRenderer, Creating, Rendering
  <2>5. OwnedIsLive'
    BY DEF OwnedIsLive, StageOfRenderer, Handles
  <2>6. (CurrentInScope /\ DrawsInItsContext)'
    BY DEF OperationTypes, RendererTypes, StageOfRenderer, OwnedIsLive,
           CurrentInScope, DrawsInItsContext
  <2>7. (SizeIsOfBuffer /\ ImageFits)'
    BY DEF RendererTypes, StageOfRenderer, SizeIsOfBuffer, ImageFits
  <2>8. (CopyIsFresh /\ ImageOfItsInstant)'
    BY DEF OperationTypes, ImageTypes, Rendering, CopyIsFresh, ImageOfItsInstant
  <2>9. (FailureIsKnown /\ FailuresLeaveNoTrace)'
    BY DEF OperationTypes, RendererTypes, StageOfRenderer, Creating, Rendering,
           FailureIsKnown, FailuresLeaveNoTrace
  <2>. QED BY <2>1, <2>2, <2>3, <2>4, <2>5, <2>6, <2>7, <2>8, <2>9
<1>4. ASSUME NEW step \in DOMAIN EglSteps, CreateEgl(step) PROVE IInv'
  <2>. USE <1>4, EglStepsAre DEF CreateEgl
  <2>1. OperationTypes'
    BY DEF OperationTypes, Locations, Creating, Rendering, Threads
  <2>2. RendererTypes'
    BY DEF OperationTypes, RendererTypes, Threads, Backends, Objects, Handles
  <2>3. ImageTypes'
    BY DEF OperationTypes, ImageTypes
  <2>4. StageOfRenderer'
    BY DEF OperationTypes, RendererTypes, StageOfRenderer, Creating, Rendering
  <2>5. OwnedIsLive'
    BY DEF OwnedIsLive, StageOfRenderer, Handles
  <2>6. (CurrentInScope /\ DrawsInItsContext)'
    BY DEF OperationTypes, RendererTypes, StageOfRenderer, OwnedIsLive,
           CurrentInScope, DrawsInItsContext
  <2>7. (SizeIsOfBuffer /\ ImageFits)'
    BY DEF RendererTypes, StageOfRenderer, SizeIsOfBuffer, ImageFits
  <2>8. (CopyIsFresh /\ ImageOfItsInstant)'
    BY DEF OperationTypes, ImageTypes, Rendering, CopyIsFresh, ImageOfItsInstant
  <2>9. (FailureIsKnown /\ FailuresLeaveNoTrace)'
    BY DEF OperationTypes, RendererTypes, StageOfRenderer, Creating, Rendering,
           FailureIsKnown, FailuresLeaveNoTrace
  <2>. QED BY <2>1, <2>2, <2>3, <2>4, <2>5, <2>6, <2>7, <2>8, <2>9
<1>5. ASSUME NEW step \in DOMAIN EglSteps, CreateEglFails(step) PROVE IInv'
  <2>. USE <1>5, EglStepsAre DEF CreateEglFails
  <2>1. OperationTypes'
    BY DEF OperationTypes, Locations, Creating, Rendering, Threads
  <2>2. RendererTypes'
    BY DEF OperationTypes, RendererTypes, Threads, Backends, Objects, Handles
  <2>3. ImageTypes'
    BY DEF OperationTypes, ImageTypes
  <2>4. StageOfRenderer'
    BY DEF OperationTypes, RendererTypes, StageOfRenderer, Creating, Rendering
  <2>5. OwnedIsLive'
    BY DEF OwnedIsLive, StageOfRenderer, Handles
  <2>6. (CurrentInScope /\ DrawsInItsContext)'
    BY DEF OperationTypes, RendererTypes, StageOfRenderer, OwnedIsLive,
           CurrentInScope, DrawsInItsContext
  <2>7. (SizeIsOfBuffer /\ ImageFits)'
    BY DEF RendererTypes, StageOfRenderer, SizeIsOfBuffer, ImageFits
  <2>8. (CopyIsFresh /\ ImageOfItsInstant)'
    BY DEF OperationTypes, ImageTypes, Rendering, CopyIsFresh, ImageOfItsInstant
  <2>9. (FailureIsKnown /\ FailuresLeaveNoTrace)'
    BY DEF OperationTypes, RendererTypes, StageOfRenderer, Creating, Rendering,
           FailureIsKnown, FailuresLeaveNoTrace
  <2>. QED BY <2>1, <2>2, <2>3, <2>4, <2>5, <2>6, <2>7, <2>8, <2>9
<1>6. CASE ActivateToCreate
  <2>. USE <1>6, ContextIsFree DEF ActivateToCreate, Activate
  <2>1. OperationTypes'
    BY DEF OperationTypes, Locations, Creating, Rendering, Threads
  <2>2. RendererTypes'
    BY DEF OperationTypes, RendererTypes, Threads, Backends, Objects, Handles
  <2>3. ImageTypes'
    BY DEF OperationTypes, ImageTypes
  <2>4. StageOfRenderer'
    BY DEF OperationTypes, RendererTypes, StageOfRenderer, Creating, Rendering
  <2>5. OwnedIsLive'
    BY DEF OwnedIsLive, StageOfRenderer, Handles
  <2>6. (CurrentInScope /\ DrawsInItsContext)'
    BY DEF OperationTypes, RendererTypes, StageOfRenderer, OwnedIsLive,
           CurrentInScope, DrawsInItsContext
  <2>7. (SizeIsOfBuffer /\ ImageFits)'
    BY DEF RendererTypes, StageOfRenderer, SizeIsOfBuffer, ImageFits
  <2>8. (CopyIsFresh /\ ImageOfItsInstant)'
    BY DEF OperationTypes, ImageTypes, Rendering, CopyIsFresh, ImageOfItsInstant
  <2>9. (FailureIsKnown /\ FailuresLeaveNoTrace)'
    BY DEF OperationTypes, RendererTypes, StageOfRenderer, Creating, Rendering,
           FailureIsKnown, FailuresLeaveNoTrace
  <2>. QED BY <2>1, <2>2, <2>3, <2>4, <2>5, <2>6, <2>7, <2>8, <2>9
<1>7. CASE CreateResources
  <2>. USE <1>7 DEF CreateResources
  <2>1. OperationTypes'
    BY DEF OperationTypes, Locations, Creating, Rendering, Threads
  <2>2. RendererTypes'
    <3>1. DefaultSize \in Sizes /\ {"data", "scene"} \subseteq Objects
      BY CamerasAssumption DEF Objects
    <3>. QED BY <3>1 DEF OperationTypes, RendererTypes, Threads
  <2>3. ImageTypes'
    BY DEF OperationTypes, ImageTypes
  <2>4. StageOfRenderer'
    BY DEF OperationTypes, RendererTypes, StageOfRenderer, Creating, Rendering
  <2>5. OwnedIsLive'
    BY DEF OwnedIsLive, StageOfRenderer, Handles
  <2>6. (CurrentInScope /\ DrawsInItsContext)'
    BY DEF OperationTypes, RendererTypes, StageOfRenderer, OwnedIsLive,
           CurrentInScope, DrawsInItsContext
  <2>7. (SizeIsOfBuffer /\ ImageFits)'
    <3>1. size' = NoSize /\ buffer' = DefaultSize
      BY DEF StageOfRenderer, SizeIsOfBuffer
    <3>2. size'.width <= buffer'.width /\ size'.height <= buffer'.height
      <4>. HIDE <1>7
      <4>. QED BY <3>1, CamerasAssumption DEF NoSize, Sizes
    <3>. QED BY <3>2 DEF SizeIsOfBuffer, ImageFits
  <2>8. (CopyIsFresh /\ ImageOfItsInstant)'
    BY DEF OperationTypes, ImageTypes, Rendering, CopyIsFresh, ImageOfItsInstant
  <2>9. (FailureIsKnown /\ FailuresLeaveNoTrace)'
    BY DEF OperationTypes, RendererTypes, StageOfRenderer, Creating, Rendering,
           FailureIsKnown, FailuresLeaveNoTrace
  <2>. QED BY <2>1, <2>2, <2>3, <2>4, <2>5, <2>6, <2>7, <2>8, <2>9
<1>8. CASE CreateResourcesFails
  <2>. USE <1>8 DEF CreateResourcesFails
  <2>1. OperationTypes'
    BY DEF OperationTypes, Locations, Creating, Rendering, Threads
  <2>2. RendererTypes'
    BY DEF OperationTypes, RendererTypes, Threads, Backends, Objects, Handles
  <2>3. ImageTypes'
    BY DEF OperationTypes, ImageTypes
  <2>4. StageOfRenderer'
    BY DEF OperationTypes, RendererTypes, StageOfRenderer, Creating, Rendering
  <2>5. OwnedIsLive'
    BY DEF OwnedIsLive, StageOfRenderer, Handles
  <2>6. (CurrentInScope /\ DrawsInItsContext)'
    BY DEF OperationTypes, RendererTypes, StageOfRenderer, OwnedIsLive,
           CurrentInScope, DrawsInItsContext
  <2>7. (SizeIsOfBuffer /\ ImageFits)'
    BY DEF RendererTypes, StageOfRenderer, SizeIsOfBuffer, ImageFits
  <2>8. (CopyIsFresh /\ ImageOfItsInstant)'
    BY DEF OperationTypes, ImageTypes, Rendering, CopyIsFresh, ImageOfItsInstant
  <2>9. (FailureIsKnown /\ FailuresLeaveNoTrace)'
    BY DEF OperationTypes, RendererTypes, StageOfRenderer, Creating, Rendering,
           FailureIsKnown, FailuresLeaveNoTrace
  <2>. QED BY <2>1, <2>2, <2>3, <2>4, <2>5, <2>6, <2>7, <2>8, <2>9
<1>. QED BY <1>1, <1>2, <1>3, <1>4, <1>5, <1>6, <1>7, <1>8 DEF Create

\* release(): the context is made current if that is possible, and destroyed.
LEMMA ReleaseKeeps ==
  ASSUME IInv, Release \/ Destroy PROVE IInv'
<1>1. CASE Release
  <2>. USE <1>1, ContextIsFree DEF Release, Activate
  <2>1. OperationTypes'
    BY DEF OperationTypes, Locations, Creating, Rendering, Threads
  <2>2. RendererTypes'
    BY DEF OperationTypes, RendererTypes, Threads, Backends, Objects, Handles
  <2>3. ImageTypes'
    BY DEF OperationTypes, ImageTypes
  <2>4. StageOfRenderer'
    BY DEF OperationTypes, RendererTypes, StageOfRenderer, Creating, Rendering
  <2>5. OwnedIsLive'
    BY DEF OwnedIsLive, StageOfRenderer, Handles
  <2>6. (CurrentInScope /\ DrawsInItsContext)'
    BY DEF OperationTypes, RendererTypes, StageOfRenderer, OwnedIsLive,
           CurrentInScope, DrawsInItsContext
  <2>7. (SizeIsOfBuffer /\ ImageFits)'
    BY DEF RendererTypes, StageOfRenderer, SizeIsOfBuffer, ImageFits
  <2>8. (CopyIsFresh /\ ImageOfItsInstant)'
    BY DEF OperationTypes, ImageTypes, Rendering, CopyIsFresh, ImageOfItsInstant
  <2>9. (FailureIsKnown /\ FailuresLeaveNoTrace)'
    BY DEF OperationTypes, RendererTypes, StageOfRenderer, Creating, Rendering,
           FailureIsKnown, FailuresLeaveNoTrace
  <2>. QED BY <2>1, <2>2, <2>3, <2>4, <2>5, <2>6, <2>7, <2>8, <2>9
<1>2. CASE Destroy
  <2>. USE <1>2 DEF Destroy
  <2>1. OperationTypes'
    BY DEF OperationTypes, Locations, Creating, Rendering, Threads
  <2>2. RendererTypes'
    <3>1. NoSize \in Sizes
      BY DEF NoSize, Sizes
    <3>. QED BY <3>1 DEF OperationTypes, RendererTypes, Threads
  <2>3. ImageTypes'
    BY DEF OperationTypes, ImageTypes
  <2>4. StageOfRenderer'
    BY DEF OperationTypes, RendererTypes, StageOfRenderer, Creating, Rendering
  <2>5. OwnedIsLive'
    BY DEF OwnedIsLive, StageOfRenderer, Handles
  <2>6. (CurrentInScope /\ DrawsInItsContext)'
    BY DEF OperationTypes, RendererTypes, StageOfRenderer, OwnedIsLive,
           CurrentInScope, DrawsInItsContext
  <2>7. (SizeIsOfBuffer /\ ImageFits)'
    BY DEF RendererTypes, StageOfRenderer, SizeIsOfBuffer, ImageFits
  <2>8. (CopyIsFresh /\ ImageOfItsInstant)'
    BY DEF OperationTypes, ImageTypes, Rendering, CopyIsFresh, ImageOfItsInstant
  <2>9. (FailureIsKnown /\ FailuresLeaveNoTrace)'
    BY DEF OperationTypes, RendererTypes, StageOfRenderer, Creating, Rendering,
           FailureIsKnown, FailuresLeaveNoTrace
  <2>. QED BY <2>1, <2>2, <2>3, <2>4, <2>5, <2>6, <2>7, <2>8, <2>9
<1>. QED BY <1>1, <1>2

\* An update: the copy of the data, and the due cameras one after another.
LEMMA RenderKeeps ==
  ASSUME IInv, Render PROVE IInv'
<1>1. CASE ActivateToCopy
  <2>. USE <1>1, ContextIsFree DEF ActivateToCopy, Activate
  <2>1. OperationTypes'
    BY DEF OperationTypes, Locations, Creating, Rendering, Threads
  <2>2. RendererTypes'
    BY DEF OperationTypes, RendererTypes, Threads, Backends, Objects, Handles
  <2>3. ImageTypes'
    BY DEF OperationTypes, ImageTypes
  <2>4. StageOfRenderer'
    BY DEF OperationTypes, RendererTypes, StageOfRenderer, Creating, Rendering
  <2>5. OwnedIsLive'
    BY DEF OwnedIsLive, StageOfRenderer, Handles
  <2>6. (CurrentInScope /\ DrawsInItsContext)'
    BY DEF OperationTypes, RendererTypes, StageOfRenderer, OwnedIsLive,
           CurrentInScope, DrawsInItsContext
  <2>7. (SizeIsOfBuffer /\ ImageFits)'
    BY DEF RendererTypes, StageOfRenderer, SizeIsOfBuffer, ImageFits
  <2>8. (CopyIsFresh /\ ImageOfItsInstant)'
    BY DEF OperationTypes, ImageTypes, Rendering, CopyIsFresh, ImageOfItsInstant
  <2>9. (FailureIsKnown /\ FailuresLeaveNoTrace)'
    BY DEF OperationTypes, RendererTypes, StageOfRenderer, Creating, Rendering,
           FailureIsKnown, FailuresLeaveNoTrace
  <2>. QED BY <2>1, <2>2, <2>3, <2>4, <2>5, <2>6, <2>7, <2>8, <2>9
<1>2. CASE CopySimulationData
  <2>. USE <1>2 DEF CopySimulationData
  <2>1. OperationTypes'
    BY DEF OperationTypes, Locations, Creating, Rendering, Threads
  <2>2. RendererTypes'
    BY DEF OperationTypes, RendererTypes, Threads, Backends, Objects, Handles
  <2>3. ImageTypes'
    BY DEF OperationTypes, ImageTypes
  <2>4. StageOfRenderer'
    BY DEF OperationTypes, RendererTypes, StageOfRenderer, Creating, Rendering
  <2>5. OwnedIsLive'
    BY DEF OwnedIsLive, StageOfRenderer, Handles
  <2>6. (CurrentInScope /\ DrawsInItsContext)'
    BY DEF OperationTypes, RendererTypes, StageOfRenderer, OwnedIsLive,
           CurrentInScope, DrawsInItsContext
  <2>7. (SizeIsOfBuffer /\ ImageFits)'
    BY DEF RendererTypes, StageOfRenderer, SizeIsOfBuffer, ImageFits
  <2>8. (CopyIsFresh /\ ImageOfItsInstant)'
    BY DEF OperationTypes, ImageTypes, Rendering, CopyIsFresh, ImageOfItsInstant
  <2>9. (FailureIsKnown /\ FailuresLeaveNoTrace)'
    BY DEF OperationTypes, RendererTypes, StageOfRenderer, Creating, Rendering,
           FailureIsKnown, FailuresLeaveNoTrace
  <2>. QED BY <2>1, <2>2, <2>3, <2>4, <2>5, <2>6, <2>7, <2>8, <2>9
<1>3. CASE CopySimulationDataFails
  <2>. USE <1>3 DEF CopySimulationDataFails
  <2>1. OperationTypes'
    BY DEF OperationTypes, Locations, Creating, Rendering, Threads
  <2>2. RendererTypes'
    BY DEF OperationTypes, RendererTypes, Threads, Backends, Objects, Handles
  <2>3. ImageTypes'
    BY DEF OperationTypes, ImageTypes
  <2>4. StageOfRenderer'
    BY DEF OperationTypes, RendererTypes, StageOfRenderer, Creating, Rendering
  <2>5. OwnedIsLive'
    BY DEF OwnedIsLive, StageOfRenderer, Handles
  <2>6. (CurrentInScope /\ DrawsInItsContext)'
    BY DEF OperationTypes, RendererTypes, StageOfRenderer, OwnedIsLive,
           CurrentInScope, DrawsInItsContext
  <2>7. (SizeIsOfBuffer /\ ImageFits)'
    BY DEF RendererTypes, StageOfRenderer, SizeIsOfBuffer, ImageFits
  <2>8. (CopyIsFresh /\ ImageOfItsInstant)'
    BY DEF OperationTypes, ImageTypes, Rendering, CopyIsFresh, ImageOfItsInstant
  <2>9. (FailureIsKnown /\ FailuresLeaveNoTrace)'
    BY DEF OperationTypes, RendererTypes, StageOfRenderer, Creating, Rendering,
           FailureIsKnown, FailuresLeaveNoTrace
  <2>. QED BY <2>1, <2>2, <2>3, <2>4, <2>5, <2>6, <2>7, <2>8, <2>9
<1>4. CASE NextCamera
  <2>. USE <1>4 DEF NextCamera
  <2>1. OperationTypes'
    BY DEF OperationTypes, Locations, Creating, Rendering, Threads
  <2>2. RendererTypes'
    BY DEF OperationTypes, RendererTypes, Threads, Backends, Objects, Handles
  <2>3. ImageTypes'
    BY DEF OperationTypes, ImageTypes
  <2>4. StageOfRenderer'
    BY DEF OperationTypes, RendererTypes, StageOfRenderer, Creating, Rendering
  <2>5. OwnedIsLive'
    BY DEF OwnedIsLive, StageOfRenderer, Handles
  <2>6. (CurrentInScope /\ DrawsInItsContext)'
    BY DEF OperationTypes, RendererTypes, StageOfRenderer, OwnedIsLive,
           CurrentInScope, DrawsInItsContext
  <2>7. (SizeIsOfBuffer /\ ImageFits)'
    BY DEF RendererTypes, StageOfRenderer, SizeIsOfBuffer, ImageFits
  <2>8. (CopyIsFresh /\ ImageOfItsInstant)'
    BY DEF OperationTypes, ImageTypes, Rendering, CopyIsFresh, ImageOfItsInstant
  <2>9. (FailureIsKnown /\ FailuresLeaveNoTrace)'
    BY DEF OperationTypes, RendererTypes, StageOfRenderer, Creating, Rendering,
           FailureIsKnown, FailuresLeaveNoTrace
  <2>. QED BY <2>1, <2>2, <2>3, <2>4, <2>5, <2>6, <2>7, <2>8, <2>9
<1>5. CASE RenderRejected
  <2>. USE <1>5 DEF RenderRejected
  <2>1. OperationTypes'
    BY DEF OperationTypes, Locations, Creating, Rendering, Threads
  <2>2. RendererTypes'
    BY DEF OperationTypes, RendererTypes, Threads, Backends, Objects, Handles
  <2>3. ImageTypes'
    BY DEF OperationTypes, ImageTypes
  <2>4. StageOfRenderer'
    BY DEF OperationTypes, RendererTypes, StageOfRenderer, Creating, Rendering
  <2>5. OwnedIsLive'
    BY DEF OwnedIsLive, StageOfRenderer, Handles
  <2>6. (CurrentInScope /\ DrawsInItsContext)'
    BY DEF OperationTypes, RendererTypes, StageOfRenderer, OwnedIsLive,
           CurrentInScope, DrawsInItsContext
  <2>7. (SizeIsOfBuffer /\ ImageFits)'
    BY DEF RendererTypes, StageOfRenderer, SizeIsOfBuffer, ImageFits
  <2>8. (CopyIsFresh /\ ImageOfItsInstant)'
    BY DEF OperationTypes, ImageTypes, Rendering, CopyIsFresh, ImageOfItsInstant
  <2>9. (FailureIsKnown /\ FailuresLeaveNoTrace)'
    BY DEF OperationTypes, RendererTypes, StageOfRenderer, Creating, Rendering,
           FailureIsKnown, FailuresLeaveNoTrace
  <2>. QED BY <2>1, <2>2, <2>3, <2>4, <2>5, <2>6, <2>7, <2>8, <2>9
<1>6. CASE ActivateToRender
  <2>. USE <1>6, ContextIsFree DEF ActivateToRender, Activate
  <2>1. OperationTypes'
    BY DEF OperationTypes, Locations, Creating, Rendering, Threads
  <2>2. RendererTypes'
    BY DEF OperationTypes, RendererTypes, Threads, Backends, Objects, Handles
  <2>3. ImageTypes'
    BY DEF OperationTypes, ImageTypes
  <2>4. StageOfRenderer'
    BY DEF OperationTypes, RendererTypes, StageOfRenderer, Creating, Rendering
  <2>5. OwnedIsLive'
    BY DEF OwnedIsLive, StageOfRenderer, Handles
  <2>6. (CurrentInScope /\ DrawsInItsContext)'
    BY DEF OperationTypes, RendererTypes, StageOfRenderer, OwnedIsLive,
           CurrentInScope, DrawsInItsContext
  <2>7. (SizeIsOfBuffer /\ ImageFits)'
    BY DEF RendererTypes, StageOfRenderer, SizeIsOfBuffer, ImageFits
  <2>8. (CopyIsFresh /\ ImageOfItsInstant)'
    BY DEF OperationTypes, ImageTypes, Rendering, CopyIsFresh, ImageOfItsInstant
  <2>9. (FailureIsKnown /\ FailuresLeaveNoTrace)'
    BY DEF OperationTypes, RendererTypes, StageOfRenderer, Creating, Rendering,
           FailureIsKnown, FailuresLeaveNoTrace
  <2>. QED BY <2>1, <2>2, <2>3, <2>4, <2>5, <2>6, <2>7, <2>8, <2>9
<1>7. CASE ResizeOffscreenBuffer
  <2>. USE <1>7 DEF ResizeOffscreenBuffer
  <2>1. OperationTypes'
    BY DEF OperationTypes, Locations, Creating, Rendering, Threads
  <2>2. RendererTypes'
    <3>1. camera \in AllCameras /\ size \in Sizes
      BY DEF CopyIsFresh, RendererTypes
    <3>2. size' \in Sizes
      BY <3>1, CamerasAssumption DEF Sizes, Larger
    <3>. QED BY <3>2 DEF RendererTypes
  <2>3. ImageTypes'
    BY DEF OperationTypes, ImageTypes
  <2>4. StageOfRenderer'
    BY DEF OperationTypes, RendererTypes, StageOfRenderer, Creating, Rendering
  <2>5. OwnedIsLive'
    BY DEF OwnedIsLive, StageOfRenderer, Handles
  <2>6. (CurrentInScope /\ DrawsInItsContext)'
    BY DEF OperationTypes, RendererTypes, StageOfRenderer, OwnedIsLive,
           CurrentInScope, DrawsInItsContext
  <2>7. (SizeIsOfBuffer /\ ImageFits)'
    <3>1. camera \in AllCameras /\ size \in Sizes /\ buffer \in Sizes
      BY DEF CopyIsFresh, RendererTypes
    <3>2. initialized' /\ size.width <= buffer.width /\ size.height <= buffer.height
      BY DEF StageOfRenderer, Rendering, SizeIsOfBuffer
    <3>3. CASE FitsBuffer(Cameras[camera])
      BY <3>2, <3>3 DEF FitsBuffer, SizeIsOfBuffer, ImageFits
    <3>4. CASE ~FitsBuffer(Cameras[camera])
      <4>1. size' # size /\ buffer' = size'
        BY <3>1, <3>4, CamerasAssumption DEF FitsBuffer, Sizes, Larger
      <4>. QED BY <3>1, <3>2, <3>4, <4>1, CamerasAssumption DEF SizeIsOfBuffer, ImageFits, Sizes, Larger
    <3>. QED BY <3>3, <3>4
  <2>8. (CopyIsFresh /\ ImageOfItsInstant)'
    BY DEF OperationTypes, ImageTypes, Rendering, CopyIsFresh, ImageOfItsInstant
  <2>9. (FailureIsKnown /\ FailuresLeaveNoTrace)'
    BY DEF OperationTypes, RendererTypes, StageOfRenderer, Creating, Rendering,
           FailureIsKnown, FailuresLeaveNoTrace
  <2>. QED BY <2>1, <2>2, <2>3, <2>4, <2>5, <2>6, <2>7, <2>8, <2>9
<1>8. CASE Draw
  <2>. USE <1>8 DEF Draw
  <2>1. OperationTypes'
    BY DEF OperationTypes, Locations, Creating, Rendering, Threads
  <2>2. RendererTypes'
    BY DEF OperationTypes, RendererTypes, Threads, Backends, Objects, Handles
  <2>3. ImageTypes'
    BY DEF OperationTypes, ImageTypes
  <2>4. StageOfRenderer'
    BY DEF OperationTypes, RendererTypes, StageOfRenderer, Creating, Rendering
  <2>5. OwnedIsLive'
    BY DEF OwnedIsLive, StageOfRenderer, Handles
  <2>6. (CurrentInScope /\ DrawsInItsContext)'
    BY DEF OperationTypes, RendererTypes, StageOfRenderer, OwnedIsLive,
           CurrentInScope, DrawsInItsContext
  <2>7. (SizeIsOfBuffer /\ ImageFits)'
    BY DEF RendererTypes, StageOfRenderer, SizeIsOfBuffer, ImageFits
  <2>8. (CopyIsFresh /\ ImageOfItsInstant)'
    BY DEF OperationTypes, ImageTypes, Rendering, CopyIsFresh, ImageOfItsInstant
  <2>9. (FailureIsKnown /\ FailuresLeaveNoTrace)'
    BY DEF OperationTypes, RendererTypes, StageOfRenderer, Creating, Rendering,
           FailureIsKnown, FailuresLeaveNoTrace
  <2>. QED BY <2>1, <2>2, <2>3, <2>4, <2>5, <2>6, <2>7, <2>8, <2>9
<1>9. CASE DrawFails
  <2>. USE <1>9 DEF DrawFails
  <2>1. OperationTypes'
    BY DEF OperationTypes, Locations, Creating, Rendering, Threads
  <2>2. RendererTypes'
    BY DEF OperationTypes, RendererTypes, Threads, Backends, Objects, Handles
  <2>3. ImageTypes'
    BY DEF OperationTypes, ImageTypes
  <2>4. StageOfRenderer'
    BY DEF OperationTypes, RendererTypes, StageOfRenderer, Creating, Rendering
  <2>5. OwnedIsLive'
    BY DEF OwnedIsLive, StageOfRenderer, Handles
  <2>6. (CurrentInScope /\ DrawsInItsContext)'
    BY DEF OperationTypes, RendererTypes, StageOfRenderer, OwnedIsLive,
           CurrentInScope, DrawsInItsContext
  <2>7. (SizeIsOfBuffer /\ ImageFits)'
    BY DEF RendererTypes, StageOfRenderer, SizeIsOfBuffer, ImageFits
  <2>8. (CopyIsFresh /\ ImageOfItsInstant)'
    BY DEF OperationTypes, ImageTypes, Rendering, CopyIsFresh, ImageOfItsInstant
  <2>9. (FailureIsKnown /\ FailuresLeaveNoTrace)'
    BY DEF OperationTypes, RendererTypes, StageOfRenderer, Creating, Rendering,
           FailureIsKnown, FailuresLeaveNoTrace
  <2>. QED BY <2>1, <2>2, <2>3, <2>4, <2>5, <2>6, <2>7, <2>8, <2>9
<1>. QED BY <1>1, <1>2, <1>3, <1>4, <1>5, <1>6, <1>7, <1>8, <1>9 DEF Render

\* No operation, failure or change of thread breaks the invariant.
LEMMA StepKeeps == IInv /\ [Next]_vars => IInv'
<1>. SUFFICES ASSUME IInv, [Next]_vars PROVE IInv'
  OBVIOUS
<1>1. CASE Next
  BY <1>1, CallKeeps, SimulationKeeps, CreateKeeps, ReleaseKeeps, RenderKeeps DEF Next, Call
<1>2. CASE UNCHANGED vars
  <2>. USE <1>2 DEF vars
  <2>1. TypeOK'
    BY DEF OperationTypes, RendererTypes, ImageTypes
  <2>2. (StageOfRenderer /\ OwnedIsLive /\ CurrentInScope)'
    BY DEF StageOfRenderer, OwnedIsLive, CurrentInScope
  <2>3. (SizeIsOfBuffer /\ CopyIsFresh /\ FailureIsKnown /\ ImageFits)'
    BY DEF SizeIsOfBuffer, CopyIsFresh, FailureIsKnown, ImageFits
  <2>4. (DrawsInItsContext /\ ImageOfItsInstant /\ FailuresLeaveNoTrace)'
    BY DEF DrawsInItsContext, ImageOfItsInstant, FailuresLeaveNoTrace
  <2>. QED BY <2>1, <2>2, <2>3, <2>4
<1>. QED BY <1>1, <1>2

-----------------------------------------------------------------------------
\* In every reachable state the renderer is as far as its operation is, its
\* variables have their types, and an image fits the buffer it is drawn in.
THEOREM RendererIsSound == Spec => []RendererInv
<1>1. IInv => RendererInv
  OBVIOUS
<1>. QED BY Initially, StepKeeps, <1>1, PTL DEF Spec

\* Between two operations the drivers hold the context, the scene and the data
\* of an initialized renderer and nothing else, whichever call failed before.
THEOREM NothingLeaksEver == Spec => []NothingLeaks
<1>1. IInv => NothingLeaks
  BY DEF RendererTypes, Backends, Handles, StageOfRenderer, OwnedIsLive, NothingLeaks
<1>. QED BY Initially, StepKeeps, <1>1, PTL DEF Spec

\* GL objects are made, resized and drawn in with the renderer's context current
\* on the thread that does it, and the context is left free for the other thread.
\* How they are freed is not part of it: release() does so without a context when
\* the context cannot be activated.
THEOREM DrawingHasItsContext == Spec => []DrawsInItsContext
<1>1. IInv => DrawsInItsContext
  OBVIOUS
<1>. QED BY Initially, StepKeeps, <1>1, PTL DEF Spec

\* An image shows the instant that it is stamped with, across any number of
\* updates, resets of the data, releases and initializations.
THEOREM ImagesAreOfTheirInstant == Spec => []ImageOfItsInstant
<1>1. IInv => ImageOfItsInstant
  OBVIOUS
<1>. QED BY Initially, StepKeeps, <1>1, PTL DEF Spec

\* An operation in which no call outside fails succeeds, whatever failed before.
THEOREM FailuresAreForgotten == Spec => []FailuresLeaveNoTrace
<1>1. IInv => FailuresLeaveNoTrace
  OBVIOUS
<1>. QED BY Initially, StepKeeps, <1>1, PTL DEF Spec
=============================================================================
