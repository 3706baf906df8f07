SPECIFICATION Spec
CONSTANTS
  Modes <- MCModes
  N = 2
  Bins = 1
  BankCap = 2
  MaxNu = 1
  MaxSteps = 2
  CursorMax = 100
  Batches = 2
INVARIANTS EachCollisionOnce Accounted HistoriesCounted BankWhole NoOrphans
PROPERTY NobodyBeginsTwice
CHECK_DEADLOCK FALSE
