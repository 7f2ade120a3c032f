SPECIFICATION ConfigSpec
CONSTANTS
  Descriptions <- AllDescriptions
  Model <- Robot
  Infinity = 99
  Garbage = Garbage
  MaxSensors = 2
INVARIANTS AcceptedIsPublished DescribedIsServed
\* A description is read once: on_init() ends.
CHECK_DEADLOCK FALSE
