------------------------------ MODULE Simulate ------------------------------
(***************************************************************************)
(* mujoco_simulation/src/viewer/simulate/simulate.cc, the passive viewer   *)
(* (is_passive_ is always true here): what its user asks for on the render *)
(* thread, and what Sync() makes of it on the thread that owns the data.   *)
(*                                                                         *)
(* The window shows copies.  Each field of mjData or mjModel that the user *)
(* can edit has a shown value, the value it had at the last Sync(), and    *)
(* the true value; a Sync() takes the edited ones over and refreshes the   *)
(* others.  Everything else the user asks for is left in pending_.         *)
(*                                                                         *)
(* The operators here say what one part of the render loop, or one Sync(), *)
(* does to these variables; SimulationViewer has the threads and locks.    *)
(***************************************************************************)
EXTENDS Naturals

CONSTANTS
  Fields,    \* a subset of {"qpos", "ctrl", "opt"}
  Requests   \* a subset of the flags of pending_: "reset", "load_key", "zero_ctrl",
             \* "newperturb", "select", and any that only reads the data

VARIABLES
  exitrequest,  \* 0; 1: asked for; 2: the loop has ended and freed its copies
  model,        \* m_ # nullptr
  passive,      \* m_passive_ and d_passive_
  pending,      \* the requests in pending_
  shown,        \* qpos_, ctrl_, m_passive_->opt
  prev,         \* qpos_prev_, ctrl_prev_, mjopt_prev_
  touched,      \* history: fields the user has edited since the last Sync()
  mj            \* the fields of mjData and mjModel

simulateVars == <<exitrequest, model, passive, pending, shown, prev, touched>>

\* NaN is what an integration that diverges leaves in qpos; no slider gives it.
Values  == {"home", "away", "NaN"}
Default == [f \in Fields |-> "home"]
DataFields == Fields \ {"opt"}

SimulateTypeOK ==
  /\ exitrequest \in 0..2 /\ model \in BOOLEAN
  /\ passive \in {"none", "live", "deleted"}
  /\ pending \subseteq Requests /\ touched \subseteq Fields
  /\ shown \in [Fields -> Values] /\ prev \in [Fields -> Values] /\ mj \in [Fields -> Values]

\* The members of an object that has just been made, or is no more.
NewSimulate(exit) ==
  /\ exitrequest' = exit /\ model' = FALSE /\ passive' = "none"
  /\ pending' = {} /\ touched' = {}
  /\ shown' = Default /\ prev' = Default

(***************************************************************************)
(* The render loop.  Its first pass loads, as loadrequest is 1 from the    *)
(* beginning and never again.                                              *)
(***************************************************************************)
LoadRequested == passive = "none"

\* LoadOnRenderThread: m_ and d_ are assigned first ...
BeginLoad == model' = TRUE /\ UNCHANGED <<passive, pending, shown, prev, touched>>

\* ... and the copies are made from the data as they are.
CopyOnLoad ==
  /\ passive' = "live"
  /\ shown' = mj /\ prev' = mj
  /\ UNCHANGED <<model, pending, touched>>

\* A slider or a check box writes the copy.
Edit(f, v) ==
  /\ v # shown[f] /\ v # "NaN"
  /\ shown' = [shown EXCEPT ![f] = v]
  /\ touched' = touched \cup {f}
  /\ UNCHANGED <<exitrequest, model, passive, pending, prev>>

EditOption == "opt" \in Fields /\ \E v \in Values : Edit("opt", v)
EditState  == \E f \in DataFields, v \in Values : Edit(f, v)

\* The buttons of the file, simulation and control sections.
FileButtons       == {"save_xml", "save_mjb", "print_model", "print_data"}
SimulationButtons == {"reset", "align", "copy_key", "load_key", "save_key"}
ControlButtons    == {"zero_ctrl"}

PressButton ==
  /\ \E r \in Requests \cap (FileButtons \cup SimulationButtons \cup ControlButtons) :
       pending' = pending \cup {r}
  /\ UNCHANGED <<exitrequest, model, passive, shown, prev, touched>>

\* A double click selects a body, and ends a perturbation before it begins.
PressInScene ==
  /\ \/ "newperturb" \in Requests /\ pending' = pending \cup {"newperturb"}
     \/ "select" \in Requests /\ pending' = (pending \cup {"select"}) \ {"newperturb"}
  /\ UNCHANGED <<exitrequest, model, passive, shown, prev, touched>>

ReleaseInScene ==
  /\ pending' = pending \ {"newperturb"}
  /\ UNCHANGED <<exitrequest, model, passive, shown, prev, touched>>

Quit ==
  /\ exitrequest' = 1
  /\ UNCHANGED <<model, passive, pending, shown, prev, touched>>

UiEvent ==
  EditOption \/ EditState \/ PressButton \/ PressInScene \/ ReleaseInScene \/ Quit

FreeForgotten == exitrequest             \* mutant: the end of the loop is not recorded
LoopEnded == 2

\* The end of the loop: the copies are deleted, their pointers stay.
FreeCopies ==
  /\ exitrequest' = LoopEnded
  /\ passive' = IF passive = "live" THEN "deleted" ELSE passive
  /\ UNCHANGED <<model, pending, shown, prev, touched>>

(***************************************************************************)
(* Sync().                                                                 *)
(***************************************************************************)
\* != on doubles and memcmp on options.
Differs(f) == shown[f] # prev[f] \/ (f \in DataFields /\ shown[f] = "NaN")

OldValue(f) == prev[f]                   \* mutant: prev is not brought up to date
Merged(f) == IF Differs(f) THEN shown[f] ELSE mj[f]
NewPrev(f) == Merged(f)

\* What the requests do to the data, in the order of the code.
AfterReset(f)   == IF "reset" \in pending /\ f \in DataFields THEN "home" ELSE Merged(f)
AfterLoadKey(f) == IF "load_key" \in pending /\ f \in DataFields THEN "away" ELSE AfterReset(f)
AfterZero(f)    == IF "zero_ctrl" \in pending /\ f = "ctrl" THEN "home" ELSE AfterLoadKey(f)

KeptRequests == {"newperturb"} \cap pending   \* mutant: a flag is not cleared
Unserved == {}

\* The user's edits are refreshed from the data before the requests change them.
Sync ==
  /\ mj' = [f \in Fields |-> AfterZero(f)]
  /\ shown' = [f \in Fields |-> Merged(f)]
  /\ prev' = [f \in Fields |-> NewPrev(f)]
  /\ pending' = Unserved /\ touched' = {}
  /\ UNCHANGED <<exitrequest, model, passive>>

\* Nothing is loaded yet, or the loop has ended.
SyncSkips == ~model \/ exitrequest # 0
=============================================================================
