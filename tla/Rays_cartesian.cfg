SPECIFICATION RaySpec
CONSTANTS
  Modes <- FineVoxelModes
  MaxDepth = 4
  MaxVoid = 2
  MaxPending = 2
  None = None
  RaysPerBatch = 1
  Batches = 2
  MaxSegments = 4
INVARIANT TalliedWhereFlown
CHECK_DEADLOCK FALSE
