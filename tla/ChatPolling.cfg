SPECIFICATION FairSpec
CONSTANTS
  MaxId = 3
  MaxOpen = 2
  MaxLoads = 2
CHECK_DEADLOCK FALSE
INVARIANTS
  TypeOK
  WatermarkCovers
  CleanScreenExact
PROPERTIES
  WatermarkCatchesUp
