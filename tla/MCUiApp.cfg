SPECIFICATION Spec
CONSTANTS
  FbWidth = 800
  FbHeight = 600
  Values32 = 4096
  Values64 = 16777216
  Pixels <- MCPixels
  Deltas = {0, 127, 128}
  Scancodes = {30, 158}
  MaxEvents = 5
INVARIANTS
  DragKeepsGrip
  WritesInFramebuffer
  CleanWhileInside
CHECK_DEADLOCK FALSE
