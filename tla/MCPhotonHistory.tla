-------------------------- MODULE MCPhotonHistory --------------------------
(***************************************************************************)
(* Energies in units of half an electron's rest energy; an atom of three   *)
(* shells, the outermost not tabulated; two voxels of a weight window.     *)
(***************************************************************************)
EXTENDS PhotonHistory

Mode(csg, heats, windowed, e, w) ==
  [csg |-> csg, heats |-> heats, windowed |-> windowed, e |-> e, w |-> w]

\* An infinite medium; heating; shielding with a window.
MCModes ==
  {Mode(FALSE, FALSE, FALSE, 5, 1), Mode(TRUE, TRUE, FALSE, 5, 1), Mode(TRUE, FALSE, TRUE, 2, 6)}

MCVoxels == {1, 2}
MCLo == <<4, 1>>
MCSurvive == <<6, 2>>
MCHi == <<9, 4>>

\* K, L and a valence shell.
MCBinding == <<3, 1, 1>>
To(primary, secondary) == [primary |-> primary, secondary |-> secondary]
MCTransitions == <<{To(2, 0), To(2, 2), To(2, 3)}, {To(3, 0)}>>
=============================================================================
