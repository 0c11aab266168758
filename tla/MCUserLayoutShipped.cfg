SPECIFICATION Spec
CONSTANTS
  Archives <- MCShipped
  MarshalBlocks = 64
  FbBlocks = 64
INVARIANT
  ZeroCollisions
CHECK_DEADLOCK FALSE
