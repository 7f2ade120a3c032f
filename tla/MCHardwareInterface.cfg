SPECIFICATION FairSpec
CONSTANTS
  Manager = manager
  Service = service
  Worker = worker
  NoThread = nobody
INVARIANTS
  HardwareInv
  StartedIsHonest
  NoServiceBeforeActive
PROPERTY
  CallsReturn
CHECK_DEADLOCK FALSE
