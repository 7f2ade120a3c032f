--------------------------- MODULE MCJointCommands ---------------------------
(* A model-checking instance of JointCommands: an arm with all interfaces   *)
(* and a wrist with two; switches into, between and out of modes, of one    *)
(* joint or of both, into half a mode, of an interface a joint has not.     *)
EXTENDS JointCommands

Robot == <<"arm", "wrist">>
Exported == [j \in {"arm", "wrist"} |->
               IF j = "arm" THEN Interfaces ELSE {"position", "velocity"}]

Of(j, set) == {j} \X set
Switch(start, stop) == [start |-> start, stop |-> stop]
Both == Of("arm", Interfaces) \union Of("wrist", {"position", "velocity"})
Switches == {
  Switch(Of("arm", {"position"}), Of("arm", Interfaces)),
  Switch(Of("arm", Interfaces), {}),
  Switch(Of("wrist", {"velocity"}), Of("wrist", {"position"})),
  Switch(Of("arm", {"velocity"}) \union Of("wrist", {"position"}), Both),
  Switch({}, Of("arm", {"stiffness", "damping"})),
  Switch({}, Of("arm", Interfaces)),
  Switch({}, Both),
  Switch(Of("wrist", {"effort"}), {})}
=============================================================================
