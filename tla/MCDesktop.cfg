SPECIFICATION FairSpec
CONSTANTS
  Scancodes = {30, 158}
  Reports <- MCReports
  MaxKeys = 2
  MaxPackets = 3
  Timeout = 2
  FbWidth = 800
  FbHeight = 600
  Values32 = 4096
  Values64 = 16777216
INVARIANTS
  FramedWhenAcked
  StatusStillValid
  DragEndsWithButton
PROPERTIES
  ImplementsNewestWins
  InputSettles
CHECK_DEADLOCK FALSE
