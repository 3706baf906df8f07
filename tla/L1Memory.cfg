SPECIFICATION FairL1Spec
CONSTANTS
  k1 = k1
  k2 = k2
  k3 = k3
  Keys = {k1, k2, k3}
  Vals <- MCVals
  Size <- MCSize
  Absent = Absent
  MaxSize = 4
  BudgetBytes = 3
  PreloadMaps <- MCPreloadMaps
  AgeWindow = 2
  MaxCounter = 4
INVARIANTS TotalBytesExact WithinBudget EvictsColdest EvictsNoMoreThanNeeded
PROPERTIES ImplementsLossyStore PutEnds
CHECK_DEADLOCK FALSE
