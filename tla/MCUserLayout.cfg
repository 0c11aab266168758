SPECIFICATION FairSpec
CONSTANTS
  Archives <- MCArchives
  MarshalBlocks = 64
  FbBlocks = 64
INVARIANTS
  TableIsArchive
  LayoutDisjoint
PROPERTIES
  SpawnedIsReady
  MarshalStarts
CHECK_DEADLOCK FALSE
