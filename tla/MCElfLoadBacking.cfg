SPECIFICATION Spec
CONSTANTS
  PageSize = 4
  MaxAddr = 16
  Segments <- MCSegments
  MaxSegments = 2
INVARIANT
  SegmentIsBacked
CHECK_DEADLOCK FALSE
