SPECIFICATION Spec
CONSTANTS
  Configs <- ViewerAndHeadless
  MaxStep = 3
  MaxReset = 1
  MaxCommand = 2
  Worker = worker
  NoThread = nobody
PROPERTIES
  ResetClearsEverything
