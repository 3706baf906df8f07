SPECIFICATION Spec
CONSTANTS
  client1 = client1
  client2 = client2
  daemon = daemon
  Procs = {client1, client2, daemon}
  Daemons = {daemon}
  Writers = {client1, daemon}
  Puts = {"u1", "u2"}
  Kernels = {"long", "short"}
  Kernel <- MCKernel
  Blocks <- MCBlocks
  Inodes = {i1, i2, i3, i4}
  None = None
SYMMETRY MCSymmetry
INVARIANTS HitIsFresh PublishedWhole
CHECK_DEADLOCK FALSE
