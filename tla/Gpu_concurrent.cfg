SPECIFICATION Spec
CONSTANTS
  Workers = {w1, w2}
  Nuclides <- MCNuclides
  Addrs = {a1, a2, a3}
  SabKeys = {s1}
  None = None
  HostBytes <- MCHostBytes
  DeviceBytes <- MCDeviceBytes
  SabBytes <- MCSabBytes
  Cap = 4
SYMMETRY MCSymmetry
INVARIANTS TotalsExact EachWithinCap
