---------------------------- MODULE ViewerProofs ----------------------------
(***************************************************************************)
(* Proofs about SimulationViewer for any fields of the data and any        *)
(* requests of the user: ViewerInv and SyncTouchesLiveCopies are inductive *)
(* together, and a sync keeps what the user has not edited.                *)
(***************************************************************************)
EXTENDS SimulationViewer, TLAPS

\* What every step of simulation_viewer.cpp and of simulate.cc keeps ...
IInv == ViewerInv /\ SyncTouchesLiveCopies

\* ... of the threads and their places,
ThreadTypes ==
  /\ state \in ViewerState /\ render \in RenderLocations
  /\ simulate \in BOOLEAN /\ handle \in BOOLEAN /\ starting \in BOOLEAN /\ resetting \in BOOLEAN
  /\ pc \in LifecycleLocations
  /\ worker \in WorkerLocations

ThreadInv ==
  ThreadTypes /\ SimulateOutlivesLoop /\ ReadyHasThread /\ HandleIsOfTheThread /\ MtxIsOfOne

\* ... of the values shown and true,
ValueInv == SimulateTypeOK /\ UntouchedIsAsSynced

\* ... and of the copies' lives.
CopyInv == CopiesFollowTheModel /\ SyncTouchesLiveCopies

-----------------------------------------------------------------------------
\* Abbreviations: always expanded.
USE DEF threadVars, lifeVars, simulateVars, MutexFree, MtxFree, RuntimeFree, Goto, KeepThread,
        KeepUi, Render, KeepState, KeepViewer, WorkerGoto, LoadRequested, Execution, Syncable

\* The three parts are the whole.
LEMMA Parts == IInv <=> ThreadInv /\ ValueInv /\ CopyInv
BY DEF IInv, ViewerInv, TypeOK, ThreadInv, ThreadTypes, ValueInv, CopyInv

\* A viewer that has just been made satisfies the invariant.
LEMMA Initially == Init => IInv
<1>. SUFFICES ASSUME Init PROVE ThreadInv /\ ValueInv /\ CopyInv
  BY Parts
<1>. USE DEF Init
<1>1. ThreadInv
  BY DEF ThreadInv, ThreadTypes, SimulateOutlivesLoop, ReadyHasThread, HandleIsOfTheThread,
     MtxIsOfOne, ViewerState, RenderLocations, LifecycleLocations, WorkerLocations
<1>2. Default \in [Fields -> Values]
  BY DEF Default, Values
<1>3. ValueInv
  <2>1. SimulateTypeOK
    <3>0. exitrequest \in 0..2
      OBVIOUS
    <3>1. model \in BOOLEAN /\ passive \in {"none", "live", "deleted"}
      OBVIOUS
    <3>2. pending \subseteq Requests /\ touched \subseteq Fields
      OBVIOUS
    <3>. QED BY <1>2, <3>0, <3>1, <3>2 DEF SimulateTypeOK
  <2>2. UntouchedIsAsSynced
    BY DEF UntouchedIsAsSynced
  <2>. QED BY <2>1, <2>2 DEF ValueInv
<1>4. CopyInv
  BY DEF CopyInv, CopiesFollowTheModel, SyncTouchesLiveCopies
<1>. QED BY <1>1, <1>3, <1>4

-----------------------------------------------------------------------------
(***************************************************************************)
(* The threads.                                                            *)
(***************************************************************************)
\* start() and stop() destroy simulate_ and forget the thread only once it has
\* been joined.
LEMMA LifecycleKeepsThreads ==
  ASSUME ThreadInv, CallStart \/ CallStop \/ Lifecycle
  PROVE  ThreadInv'
<1>. USE DEF ThreadInv, SimulateOutlivesLoop, ReadyHasThread, HandleIsOfTheThread, MtxIsOfOne
<1>. USE DEF ThreadTypes, ViewerState, RenderLocations, LifecycleLocations
<1>1. CASE CallStart
  BY <1>1 DEF CallStart
<1>2. CASE CallStop
  BY <1>2 DEF CallStop
<1>3. CASE WaitReady
  BY <1>3 DEF WaitReady
<1>4. CASE SetStop
  BY <1>4 DEF SetStop
<1>5. CASE TakeHandle
  BY <1>5 DEF TakeHandle, AfterTake
<1>6. CASE JoinRender
  BY <1>6 DEF JoinRender
<1>7. CASE Cleanup
  BY <1>7 DEF Cleanup
<1>8. CASE Spawn
  BY <1>8 DEF Spawn
<1>9. CASE SpawnFails
  BY <1>9 DEF SpawnFails
<1>10. CASE WaitFails
  BY <1>10 DEF WaitFails
<1>. QED BY <1>1, <1>2, <1>3, <1>4, <1>5, <1>6, <1>7, <1>8, <1>9, <1>10 DEF Lifecycle

\* The render thread moves on in its own object, and is not Ready at its end.
LEMMA RenderKeepsThreads ==
  ASSUME ThreadInv, RenderThread \/ PollEvents
  PROVE  ThreadInv'
<1>. USE DEF ThreadInv, SimulateOutlivesLoop, ReadyHasThread, HandleIsOfTheThread, MtxIsOfOne
<1>. USE DEF ThreadTypes, ViewerState, RenderLocations
<1>0. CASE CreateSimulate
  BY <1>0 DEF CreateSimulate
<1>1. CASE PublishSimulate
  BY <1>1 DEF PublishSimulate
<1>2. CASE SetReady
  BY <1>2 DEF SetReady
<1>3. CASE EnterLoad \/ LoadOnRenderThread \/ EnterEvents
  BY <1>3 DEF EnterLoad, LoadOnRenderThread, EnterEvents
<1>4. CASE PollEvents \/ UpdateScene \/ RenderFrame
  BY <1>4 DEF PollEvents, UpdateScene, RenderFrame
<1>5. CASE LeaveLoop \/ EndLoop \/ RenderThrows
  BY <1>5 DEF LeaveLoop, EndLoop, RenderThrows
<1>6. CASE FinishRender
  BY <1>6 DEF FinishRender, FinishedState
<1>7. CASE SetFailed
  BY <1>7 DEF SetFailed
<1>. QED BY <1>0, <1>1, <1>2, <1>3, <1>4, <1>5, <1>6, <1>7 DEF RenderThread

\* A step, a reset and a sync are none of the viewer's threads; a sync gets its
\* locks one after the other.
LEMMA DataKeepsThreads ==
  ASSUME ThreadInv, Data
  PROVE  ThreadInv'
<1>. USE DEF ThreadInv, SimulateOutlivesLoop, ReadyHasThread, HandleIsOfTheThread, MtxIsOfOne
<1>1. ThreadTypes'
  BY DEF ThreadTypes, WorkerLocations, Data, Run, Halt, BeginStep, EndStep, BeginReset, EndReset, NotDue, BeginSync,
     ViewerLost, EnterSync, EndSync
<1>. QED
  BY <1>1 DEF Data, Run, Halt, BeginStep, EndStep, BeginReset, EndReset, NotDue, BeginSync,
     ViewerLost, EnterSync, EndSync, ThreadTypes

-----------------------------------------------------------------------------
(***************************************************************************)
(* The values shown and true.                                              *)
(***************************************************************************)
\* Values stay values, and what the user has not touched as synced, where
\* nothing they are about changes but exitrequest, the model and the copies.
LEMMA ValuesStay ==
  ASSUME ValueInv, UNCHANGED <<shown, prev, touched, mj>>,
         exitrequest' \in 0..2, model' \in BOOLEAN, passive' \in {"none", "live", "deleted"},
         pending' \subseteq Requests
  PROVE  ValueInv'
BY DEF ValueInv, SimulateTypeOK, UntouchedIsAsSynced

\* A new object has nothing that is touched.
LEMMA NewValues ==
  ASSUME ValueInv, UNCHANGED mj, NEW e \in 0..2, NewSimulate(e)
  PROVE  ValueInv'
<1>1. Default \in [Fields -> Values]
  BY DEF Default, Values
<1>. QED BY <1>1 DEF NewSimulate, ValueInv, SimulateTypeOK, UntouchedIsAsSynced

\* start(), stop() and their cleanup.
LEMMA LifecycleKeepsValues ==
  ASSUME ValueInv, CallStart \/ CallStop \/ Lifecycle
  PROVE  ValueInv'
<1>1. CASE Cleanup \/ SpawnFails
  BY <1>1, NewValues DEF Cleanup, SpawnFails
<1>2. CASE ~Cleanup /\ ~SpawnFails
  <2>1. UNCHANGED <<shown, prev, touched, mj, model, passive, pending>> /\ exitrequest' \in {exitrequest, 1}
    BY <1>2 DEF CallStart, CallStop, Lifecycle, SetStop, Exit, TakeHandle, JoinRender, Spawn,
       WaitReady, WaitFails
  <2>. QED BY <2>1, ValuesStay DEF ValueInv, SimulateTypeOK
<1>. QED BY <1>1, <1>2

\* The window: an edit touches its field, a load shows the data.
LEMMA EventsKeepValues ==
  ASSUME ValueInv, UNCHANGED mj, UiEvent
  PROVE  ValueInv'
<1>1. CASE EditOption \/ EditState
  <2>1. PICK f \in Fields, v \in Values : Edit(f, v)
    BY <1>1 DEF EditOption, EditState, DataFields
  <2>2. shown' \in [Fields -> Values]
    BY <2>1 DEF Edit, ValueInv, SimulateTypeOK
  <2>3. \A g \in Fields \ touched' : shown'[g] = prev'[g]
    BY <2>1 DEF Edit, ValueInv, SimulateTypeOK, UntouchedIsAsSynced
  <2>. QED BY <2>1, <2>2, <2>3 DEF Edit, ValueInv, SimulateTypeOK, UntouchedIsAsSynced
<1>2. CASE PressButton \/ PressInScene \/ ReleaseInScene \/ Quit
  <2>1. UNCHANGED <<shown, prev, touched, model, passive>> /\ exitrequest' \in {exitrequest, 1}
    BY <1>2 DEF PressButton, PressInScene, ReleaseInScene, Quit
  <2>2. pending' \subseteq Requests
    BY <1>2 DEF PressButton, PressInScene, ReleaseInScene, Quit, ValueInv, SimulateTypeOK
  <2>. QED BY <2>1, <2>2, ValuesStay DEF ValueInv, SimulateTypeOK
<1>. QED BY <1>1, <1>2 DEF UiEvent

\* The passes of the render loop.
LEMMA RenderKeepsValues ==
  ASSUME ValueInv, RenderThread \/ PollEvents
  PROVE  ValueInv'
<1>. USE DEF ValueInv, SimulateTypeOK
<1>1. CASE PollEvents
  BY <1>1, EventsKeepValues DEF PollEvents
<1>2. CASE PublishSimulate
  <2>1. ExitAtOnce \in 0..2
    BY DEF ExitAtOnce
  <2>. QED BY <1>2, <2>1, NewValues DEF PublishSimulate
<1>3. CASE LoadOnRenderThread
  BY <1>3 DEF LoadOnRenderThread, CopyOnLoad, UntouchedIsAsSynced
<1>4. CASE EnterLoad \/ EndLoop \/ SetFailed
  <2>1. /\ UNCHANGED <<shown, prev, touched, mj, pending>>
        /\ exitrequest' \in 0..2 /\ model' \in BOOLEAN /\ passive' \in {"none", "live", "deleted"}
    <3>1. CASE EnterLoad
      BY <3>1 DEF EnterLoad, BeginLoad
    <3>2. CASE EndLoop
      BY <3>2 DEF EndLoop, FreeCopies, LoopEnded
    <3>3. CASE SetFailed
      BY <3>3 DEF SetFailed, Exit
    <3>. QED BY <1>4, <3>1, <3>2, <3>3
  <2>. QED BY <2>1, ValuesStay
<1>5. CASE \/ CreateSimulate \/ SetReady \/ EnterEvents \/ UpdateScene \/ RenderFrame \/ LeaveLoop
           \/ FinishRender \/ RenderThrows
  <2>1. UNCHANGED <<simulateVars, mj>>
    BY <1>5 DEF CreateSimulate, SetReady, EnterEvents, UpdateScene, RenderFrame, LeaveLoop,
       FinishRender, RenderThrows
  <2>. QED BY <2>1, ValuesStay
<1>. QED BY <1>1, <1>2, <1>3, <1>4, <1>5 DEF RenderThread

\* What a sync makes of a field is a value.
LEMMA SyncedValues ==
  ASSUME ValueInv, NEW f \in Fields
  PROVE  Merged(f) \in Values /\ AfterZero(f) \in Values
BY DEF ValueInv, SimulateTypeOK, Merged, AfterZero, AfterLoadKey, AfterReset, Values

\* The users of the data: after a sync the window shows what it has taken over.
LEMMA DataKeepsValues ==
  ASSUME ValueInv, Data
  PROVE  ValueInv'
<1>. USE DEF ValueInv, SimulateTypeOK
<1>1. CASE Run \/ Halt \/ BeginStep \/ BeginReset \/ NotDue \/ BeginSync \/ ViewerLost \/ EnterSync
  BY <1>1, ValuesStay DEF Run, Halt, BeginStep, BeginReset, NotDue, BeginSync, ViewerLost, EnterSync
<1>2. CASE EndStep \/ EndReset
  <2>1. mj' \in [Fields -> Values]
    BY <1>2 DEF EndStep, EndReset, DataFields, Values
  <2>2. UNCHANGED simulateVars
    BY <1>2 DEF EndStep, EndReset
  <2>. QED BY <2>1, <2>2 DEF UntouchedIsAsSynced
<1>3. CASE EndSync
  <2>1. /\ mj' = [f \in Fields |-> AfterZero(f)]
        /\ shown' = [f \in Fields |-> Merged(f)] /\ prev' = [f \in Fields |-> Merged(f)]
        /\ pending' = {} /\ touched' = {} /\ UNCHANGED <<exitrequest, model, passive>>
    BY <1>3 DEF EndSync, Sync, NewPrev, Unserved
  <2>2. mj' \in [Fields -> Values] /\ shown' \in [Fields -> Values] /\ prev' \in [Fields -> Values]
    BY <2>1, SyncedValues
  <2>3. shown' = prev'
    BY <2>1
  <2>. QED BY <2>1, <2>2, <2>3 DEF UntouchedIsAsSynced
<1>. QED BY <1>1, <1>2, <1>3 DEF Data

-----------------------------------------------------------------------------
(***************************************************************************)
(* The copies' lives.                                                      *)
(***************************************************************************)
\* start() and stop(): only a joined thread's object goes, and no sync is in it.
LEMMA LifecycleKeepsCopies ==
  ASSUME ThreadInv, CopyInv, CallStart \/ CallStop \/ Lifecycle
  PROVE  CopyInv'
<1>. USE DEF CopyInv, CopiesFollowTheModel, SyncTouchesLiveCopies
<1>1. CASE CallStart \/ CallStop \/ SetStop \/ TakeHandle \/ WaitReady \/ WaitFails
  BY <1>1 DEF CallStart, CallStop, SetStop, Exit, TakeHandle, WaitReady, WaitFails
<1>2. CASE JoinRender \/ Spawn
  BY <1>2 DEF JoinRender, Spawn, ThreadInv, HandleIsOfTheThread
<1>3. CASE Cleanup \/ SpawnFails
  <2>1. /\ ~simulate' /\ ~model' /\ passive' = "none"
        /\ worker' # "sync"
    BY <1>3 DEF Cleanup, SpawnFails, NewSimulate
  <2>2. render' = "none"
    BY <1>3 DEF Cleanup, SpawnFails, ThreadInv, HandleIsOfTheThread
  <2>. QED BY <2>1, <2>2
<1>. QED BY <1>1, <1>2, <1>3 DEF Lifecycle

\* The render thread makes the copies under mtx, which a sync holds too, and
\* deletes them under it, behind exitrequest.
LEMMA RenderKeepsCopies ==
  ASSUME ThreadInv, ValueInv, CopyInv, RenderThread \/ PollEvents
  PROVE  CopyInv'
<1>. USE DEF CopyInv, CopiesFollowTheModel, SyncTouchesLiveCopies
<1>1. CASE PublishSimulate
  BY <1>1 DEF PublishSimulate, NewSimulate
<1>2. CASE EnterLoad \/ LoadOnRenderThread
  <2>1. CASE EnterLoad
    BY <2>1 DEF EnterLoad, BeginLoad, ThreadInv, SimulateOutlivesLoop
  <2>2. CASE LoadOnRenderThread
    BY <2>2 DEF LoadOnRenderThread, CopyOnLoad, ThreadInv, SimulateOutlivesLoop
  <2>. QED BY <1>2, <2>1, <2>2
<1>3. CASE EndLoop
  BY <1>3 DEF EndLoop, FreeCopies, LoopEnded
<1>4. CASE SetFailed
  BY <1>4 DEF SetFailed, Exit
<1>5. CASE PollEvents
  <2>1. UNCHANGED <<model, passive>> /\ exitrequest' \in {exitrequest, 1}
    BY <1>5 DEF PollEvents, UiEvent, EditOption, EditState, Edit, PressButton, PressInScene,
       ReleaseInScene, Quit
  <2>. QED BY <1>5, <2>1 DEF PollEvents
<1>6. CASE \/ CreateSimulate \/ SetReady \/ EnterEvents \/ UpdateScene \/ RenderFrame \/ LeaveLoop
           \/ FinishRender \/ RenderThrows
  BY <1>6 DEF CreateSimulate, SetReady, EnterEvents, UpdateScene, RenderFrame, LeaveLoop,
     FinishRender, RenderThrows
<1>. QED BY <1>1, <1>2, <1>3, <1>4, <1>5, <1>6 DEF RenderThread

\* A sync goes past its tests only with live copies, or with a load that threw.
LEMMA DataKeepsCopies ==
  ASSUME ThreadInv, ValueInv, CopyInv, Data
  PROVE  CopyInv'
<1>. USE DEF CopyInv, CopiesFollowTheModel, SyncTouchesLiveCopies
<1>1. CASE \/ Run \/ Halt \/ BeginStep \/ EndStep \/ BeginReset \/ EndReset
           \/ NotDue \/ BeginSync \/ ViewerLost
  BY <1>1 DEF Run, Halt, BeginStep, EndStep, BeginReset, EndReset, NotDue, BeginSync, ViewerLost
<1>2. CASE EnterSync
  BY <1>2 DEF EnterSync, SyncSkips, ValueInv, SimulateTypeOK
<1>3. CASE EndSync
  BY <1>3 DEF EndSync, Sync
<1>. QED BY <1>1, <1>2, <1>3 DEF Data

-----------------------------------------------------------------------------
(***************************************************************************)
(* The theorems.                                                           *)
(***************************************************************************)
\* Every step keeps the invariant.
LEMMA StepKeeps == IInv /\ [Next]_vars => IInv'
<1>. SUFFICES ASSUME ThreadInv, ValueInv, CopyInv, [Next]_vars
              PROVE  ThreadInv' /\ ValueInv' /\ CopyInv'
  BY Parts DEF IInv, ViewerInv, TypeOK, ThreadInv, ThreadTypes, ValueInv, CopyInv
<1>1. CASE CallStart \/ CallStop \/ Lifecycle
  BY <1>1, LifecycleKeepsThreads, LifecycleKeepsValues, LifecycleKeepsCopies
<1>2. CASE RenderThread \/ PollEvents
  BY <1>2, RenderKeepsThreads, RenderKeepsValues, RenderKeepsCopies
<1>3. CASE Data
  BY <1>3, DataKeepsThreads, DataKeepsValues, DataKeepsCopies
<1>4. CASE UNCHANGED vars
  BY <1>4 DEF vars, ThreadInv, ThreadTypes, SimulateOutlivesLoop, ReadyHasThread, HandleIsOfTheThread,
     MtxIsOfOne, ValueInv, SimulateTypeOK, UntouchedIsAsSynced, CopyInv, CopiesFollowTheModel,
     SyncTouchesLiveCopies
<1>. QED BY <1>1, <1>2, <1>3, <1>4 DEF Next

\* IInv holds in every state of the viewer, whatever can be edited and asked for.
THEOREM Invariance == Spec => []IInv
<1>. QED BY Initially, StepKeeps, PTL DEF Spec

\* simulate_ outlives its render loop and its syncs, is_ready() never holds of a
\* thread that has ended, and no render thread is forgotten before it is joined.
THEOREM ViewerIsSound == Spec => []ViewerInv
<1>1. IInv => ViewerInv
  BY DEF IInv
<1>. QED BY <1>1, Invariance, PTL

\* Sync() works on copies that have been made and not yet deleted, but for a sync that
\* waited for mtx while the load threw: that one finds a model and no copies.
THEOREM CopiesOutliveTheSync == Spec => []SyncTouchesLiveCopies
<1>1. IInv => SyncTouchesLiveCopies
  BY DEF IInv
<1>. QED BY <1>1, Invariance, PTL

\* Sync() leaves the simulation a field that the user has not edited, unless a request
\* of the user sets it, or the window shows it as NaN.
THEOREM SyncIsNoUndo == Spec => SyncKeepsUntouched
<1>. DEFINE Keeps == EndSync =>
              \A f \in Fields \ touched :
                mj'[f] = mj[f] \/ shown[f] = "NaN" \/ RequestSets(f)
<1>1. ASSUME IInv PROVE Keeps
  <2>. SUFFICES ASSUME EndSync, NEW f \in Fields \ touched, ~RequestSets(f)
                PROVE  mj'[f] = mj[f] \/ shown[f] = "NaN"
    OBVIOUS
  <2>1. shown[f] = prev[f]
    BY <1>1 DEF IInv, ViewerInv, UntouchedIsAsSynced
  <2>2. mj'[f] = Merged(f)
    BY DEF EndSync, Sync, RequestSets, AfterZero, AfterLoadKey, AfterReset
  <2>. QED BY <2>1, <2>2 DEF Merged, Differs
<1>2. IInv /\ [Next]_vars => [Keeps]_vars
  BY <1>1
<1>. QED BY <1>2, Invariance, PTL DEF Spec, SyncKeepsUntouched

-----------------------------------------------------------------------------
(***************************************************************************)
(* Who is in the data with whom.  WriterAlone is violated; these are all   *)
(* the ways there are.                                                     *)
(***************************************************************************)
\* runtime_mutex_ keeps a step and a reset apart.
StepsOrResets == worker = "step" => ~resetting

\* Of a step, a reset, a sync and a load of the model, a sync meets at most a reset,
\* and a load at most a step or a reset.
MeetOnlySo ==
  \A a, b \in Using :
    a = b \/ {a, b} \in {{"sync", "reset"}, {"load", "step"}, {"load", "reset"}}

\* Only BeginStep and BeginReset can disturb it, and each waits for the other's end.
LEMMA RuntimeMutexExcludes == StepsOrResets /\ [Next]_vars => StepsOrResets'
<1>. SUFFICES ASSUME StepsOrResets, [Next]_vars PROVE StepsOrResets'
  OBVIOUS
<1>. USE DEF StepsOrResets
<1>1. CASE CallStart \/ CallStop \/ Lifecycle
  BY <1>1 DEF CallStart, CallStop, Lifecycle, SetStop, TakeHandle, JoinRender, Cleanup, Spawn,
     SpawnFails, WaitReady, WaitFails
<1>2. CASE RenderThread \/ PollEvents
  BY <1>2 DEF RenderThread, PollEvents, CreateSimulate, PublishSimulate, SetReady, EnterLoad,
     LoadOnRenderThread, EnterEvents, UpdateScene, RenderFrame, LeaveLoop, EndLoop, FinishRender,
     RenderThrows, SetFailed
<1>3. CASE Data
  BY <1>3 DEF Data, Run, Halt, BeginStep, EndStep, BeginReset, EndReset, NotDue, BeginSync,
     ViewerLost, EnterSync, EndSync
<1>4. CASE UNCHANGED vars
  BY <1>4 DEF vars
<1>. QED BY <1>1, <1>2, <1>3, <1>4 DEF Next

\* A step never meets a reset (runtime_mutex_), nor a sync a load (mtx); the worker
\* does not step while it syncs.
THEOREM WritersMeetOnlySo == Spec => []MeetOnlySo
<1>1. Init => StepsOrResets
  BY DEF Init, StepsOrResets
<1>2. ASSUME IInv, StepsOrResets PROVE MeetOnlySo
  <2>1. MtxIsOfOne
    BY <1>2 DEF IInv, ViewerInv
  <2>2. SUFFICES ASSUME NEW a \in Using, NEW b \in Using
                 PROVE  a = b \/ {a, b} \in {{"sync", "reset"}, {"load", "step"}, {"load", "reset"}}
    BY DEF MeetOnlySo
  <2>3. a \in {"step", "sync", "load", "reset"} /\ b \in {"step", "sync", "load", "reset"}
    BY DEF Using
  <2>4. ~("step" \in Using /\ "sync" \in Using)
    <3>1. render \notin {"step", "sync"}
      BY <1>2 DEF IInv, ViewerInv, TypeOK, RenderLocations
    <3>. QED BY <3>1 DEF Using
  <2>5. ~("step" \in Using /\ "reset" \in Using)
    <3>1. render # "step"
      BY <1>2 DEF IInv, ViewerInv, TypeOK, RenderLocations
    <3>. QED BY <1>2, <3>1 DEF Using, StepsOrResets
  <2>6. ~("sync" \in Using /\ "load" \in Using)
    <3>1. render # "sync" /\ worker # "load"
      BY <1>2 DEF IInv, ViewerInv, TypeOK, RenderLocations, WorkerLocations
    <3>. QED BY <2>1, <3>1 DEF Using, MtxIsOfOne
  <2>. QED BY <2>3, <2>4, <2>5, <2>6
<1>3. IInv /\ StepsOrResets => MeetOnlySo
  BY <1>2
<1>. QED BY <1>1, <1>3, RuntimeMutexExcludes, Invariance, PTL DEF Spec
=============================================================================
