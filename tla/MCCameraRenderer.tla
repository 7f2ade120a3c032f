-------------------------- MODULE MCCameraRenderer --------------------------
(* A wide and a tall camera, one with depth, neither of the model's size,   *)
(* and one that the model gives no valid field of view.                     *)
EXTENDS CameraRenderer

ThreeCameras == [front |-> [width |-> 3, height |-> 1, depth |-> FALSE, fovy |-> TRUE],
                 rear  |-> [width |-> 1, height |-> 3, depth |-> TRUE,  fovy |-> TRUE],
                 blind |-> [width |-> 1, height |-> 1, depth |-> FALSE, fovy |-> FALSE]]
ModelSize == [width |-> 2, height |-> 2]
=============================================================================
