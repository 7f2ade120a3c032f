SPECIFICATION FairSpec
CONSTANTS
  Fields = {"qpos", "opt"}
  Requests = {"reset", "newperturb"}
INVARIANTS
  ViewerInv
  SyncTouchesLiveCopies
PROPERTIES
  SyncKeepsUntouched
  RequestsServed
  StopReturns
