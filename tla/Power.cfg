SPECIFICATION Spec
CONSTANTS
  Configs <- MCConfigs
  Batches = 6
  N = 2
  MaxBank = 3
  FisCapacity = 2
  None = None
INVARIANTS ActiveAfterConvergence KIsActiveMean ConvergenceInBounds
CHECK_DEADLOCK FALSE
