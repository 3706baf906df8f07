SPECIFICATION Spec
CONSTANTS
  Workers = {w1}
  Nuclides <- MCNuclides
  Addrs = {a1, a2}
  SabKeys = {s1}
  None = None
  HostBytes <- MCHostBytes
  DeviceBytes <- MCDeviceBytes
  SabBytes <- MCSabBytes
  Cap = 4
INVARIANT AddressNamesContent
