SPECIFICATION BatchSpec
CONSTANTS
  Histories = 7
  Parallel = TRUE
  NoPiece = NoPiece
INVARIANTS BankInOrder TalliedOnce
