SPECIFICATION FairSpec
CONSTANTS
  Modes <- MCModes
  Cells = {1}
  Voxels <- MCVoxels
  Nowhere = 0
  Lo <- MCLo
  Survive <- MCSurvive
  Hi <- MCHi
  Weights = {1, 2, 3, 6}
  MaxSplit = 2
  MaxGames = 2
  Cutoff = 1
  Fluorescent = 2
  Rest = 1
  Binding <- MCBinding
  Tabulated = {1, 2}
  Transitions <- MCTransitions
  MaxEvents = 2
  MaxVoid = 1
  MaxSteps = 2
  StopsAt = 1
INVARIANTS EnergyBalance LedgersAgree FairWeights
PROPERTY HistoryEnds
CHECK_DEADLOCK FALSE
