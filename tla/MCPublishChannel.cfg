SPECIFICATION FairSpec
CONSTANTS
  NumSlots = 1
  MaxBundle = 4
INVARIANTS
  ChannelInv
  NothingMissed
PROPERTIES
  RegisterSpec
