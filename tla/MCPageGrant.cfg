SPECIFICATION FairSpec
CONSTANTS
  c1 = c1
  c2 = c2
  Cores = {c1, c2}
  NoCore = NoCore
  Frames = {f1, f2, f3}
  NoFrame = NoFrame
  b1 = b1
  b2 = b2
  Framebuffer <- MCFramebuffer
  Pages = {1, 2, 3}
  Touched = {2}
  SafeLimit = 5
  Depth = 2
  Fanout = 2
  Tokens = {0, 1}
  MaxCapabilities = 2
  MaxSyscalls <- MCSyscalls
INVARIANTS
  OneUsePerFrame
  TlbCoherent
  LockOrder
PROPERTIES
  GrantOutcome
  PanicFreezesMemory
  CallsReturn
CHECK_DEADLOCK FALSE
