---------------------------- MODULE MCDiskStore ----------------------------
(***************************************************************************)
(* DiskStore with two puts of different kernels, one a block longer than   *)
(* the other, so that a reader meets mixtures, holes and trailing bytes.   *)
(***************************************************************************)
EXTENDS DiskStore, TLC

CONSTANTS client1, client2, daemon

MCBlocks == [k \in Kernels |-> IF k = "short" THEN 2 ELSE 3]
MCKernel == [u \in Puts |-> IF u = "u1" THEN "long" ELSE "short"]

MCSymmetry == Permutations(Inodes)
=============================================================================
