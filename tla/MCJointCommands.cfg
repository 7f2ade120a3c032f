SPECIFICATION Spec
CONSTANTS
  Joints <- Robot
  Supported <- Exported
  Requests <- Switches
  MaxCycle = 4
  MaxEpoch = 4
  None = none
INVARIANTS
  CommandsInv
  SkewAtMostOne
