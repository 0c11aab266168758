SPECIFICATION FairSpec
CONSTANTS
  Cores = {c1, c2}
  NoCore = NoCore
  Entries <- MCEntries
  PageSize = 4
  MaxCalls = 3
INVARIANTS
  NoDoubleAllocation
  CursorInv
PROPERTIES
  ImplementsFrameSource
  HoldEnds
CHECK_DEADLOCK FALSE
