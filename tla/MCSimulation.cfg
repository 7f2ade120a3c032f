SPECIFICATION FairSpec
CONSTANTS
  Configs <- ViewerAndHeadless
  MaxStep = 3
  MaxReset = 1
  MaxCommand = 1
  Worker = worker
  NoThread = nobody
INVARIANTS
  SimulationInv
  EverySnapshotObserved
  SnapshotCoherent
PROPERTIES
  SnapshotsAdvance
  LatestCommandDrives
  CallsReturn
  ExecutionEnds
