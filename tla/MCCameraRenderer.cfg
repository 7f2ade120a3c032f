SPECIFICATION Spec
CONSTANTS
  Cameras <- ThreeCameras
  DefaultSize <- ModelSize
  MaxTime = 1
  None = None
INVARIANTS RendererInv NothingLeaks DrawsInItsContext ImageOfItsInstant FailuresLeaveNoTrace
