SPECIFICATION FairBootSpec
CONSTANTS
  APs = {a1, a2}
  MaxWorker = 1
  Messages = {1, 2, 3}
  MaxPosts = 3
  MaxIrqs = 2
INVARIANTS
  UniqueLogicalIds
  AllOnline
  OneTssOwner
  NoSleepOverMessage
PROPERTIES
  BootCompletes
  ImplementsNewestWins
  IrqSeenByNextCheck
