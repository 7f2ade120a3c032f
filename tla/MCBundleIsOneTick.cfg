SPECIFICATION Spec
CONSTANTS
  Manager = manager
  Service = service
  Worker = worker
  NoThread = nobody
INVARIANT
  BundleIsOneTick
CHECK_DEADLOCK FALSE
