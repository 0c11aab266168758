SPECIFICATION FairScanSpec
CONSTANT
  Topologies <- MCTopologies
INVARIANT
  LogIsRight
PROPERTY
  ScanEnds
CHECK_DEADLOCK FALSE
