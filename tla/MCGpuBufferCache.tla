-------------------------- MODULE MCGpuBufferCache --------------------------
(***************************************************************************)
(* GpuBufferCache with two nuclides, two slot lists and a cap of four      *)
(* bytes: nuclide "h" is larger on the device than the host predicts.      *)
(***************************************************************************)
EXTENDS GpuBufferCache, TLC

MCNuclides == {"u", "h"}
MCHostBytes == [n \in MCNuclides |-> IF n = "u" THEN 2 ELSE 1]
MCDeviceBytes == [n \in MCNuclides |-> IF n = "u" THEN 2 ELSE 3]
MCSabBytes == [s \in SabKeys |-> 2]
\* Addresses and workers are interchangeable: no definition tells two apart.
MCSymmetry == Permutations(Addrs) \cup Permutations(Workers)
=============================================================================
