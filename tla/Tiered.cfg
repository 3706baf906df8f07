SPECIFICATION FairSpec
CONSTANTS
  w1 = w1
  w2 = w2
  q1 = q1
  q2 = q2
  Procs = {q1, q2}
  Workers = {w1, w2}
  NPeers = 1
  Paths = {"a"}
  Contents = {"old", "new"}
  DaemonPath = "a"
  Failed = "failed"
  None = None
  Modes <- MCModes
  MaxChanges = 1
INVARIANTS KeyNamesContent StatsBalance
PROPERTIES CallsEnd ImplementsKernelSource
CHECK_DEADLOCK FALSE
