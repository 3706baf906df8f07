SPECIFICATION FairSpec
CONSTANTS
  Modes <- MCModes
  Unit = 16
  MaxSplit = 4
  MaxEvents = 6
  MaxVoid = 2
  None = None
INVARIANTS Accounted FairUnlessMultiplying
PROPERTY HistoryEnds
CHECK_DEADLOCK FALSE
