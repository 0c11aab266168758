SPECIFICATION Spec
CONSTANTS
  PageSize = 4
  MaxAddr = 16
  Segments <- MCSegments
  MaxSegments = 2
INVARIANTS
  KernelImageCorrect
  UserImageCorrect
  FaultsExplained
CHECK_DEADLOCK FALSE
