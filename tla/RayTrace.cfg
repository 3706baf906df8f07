SPECIFICATION RaySpec
CONSTANTS
  Modes <- MCModes
  MaxDepth = 4
  MaxVoid = 2
  MaxPending = 2
  None = None
  RaysPerBatch = 1
  Batches = 2
  MaxSegments = 4
INVARIANTS StackTrue MirrorsKeep TalliedWhereFlown
PROPERTIES StaysInMaterial ImmortalsStay
CHECK_DEADLOCK FALSE
