-------------------------- MODULE MCEventTransport --------------------------
(***************************************************************************)
(* Two slots and two batches: analog with a refill pool, survival biasing, *)
(* and the three ways of the secondaries.                                  *)
(***************************************************************************)
EXTENDS EventTransport

M(biased, pool, nxn) == [biased |-> biased, pool |-> pool, nxn |-> nxn]

MCModes == {M(FALSE, 1, "ingen"), M(TRUE, 0, "ingen"), M(FALSE, 2, "bank"), M(FALSE, 0, "drop")}
=============================================================================
