SPECIFICATION Spec
CONSTANTS
  ConfigLists <- Lists
  Commands <- Singles
  Batches <- AllBatches
  Motions <- AllMotions
  TimeStep = 2
  MaxTime = 6
  Home <- Still
  None = none
  NotFinite = notFinite
INVARIANTS
  ComponentsInv
  SameRateTogether
  NoDrift
  CtrlWithinLimits
