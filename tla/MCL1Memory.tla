----------------------------- MODULE MCL1Memory -----------------------------
(***************************************************************************)
(* L1Memory with three keys, values of one, two and four bytes and room    *)
(* for three: replacing, evicting one or two entries and keeping a single  *)
(* oversized one all happen.                                               *)
(***************************************************************************)
EXTENDS L1Memory, TLC

CONSTANTS k1, k2, k3

MCVals == {"small", "medium", "huge"}
MCSize == [v \in MCVals |-> CASE v = "small" -> 1 [] v = "medium" -> 2 [] v = "huge" -> 4]

\* The manifest of one sweep phase names k1, that of the next names k2.
MCPreloadMaps == {k1 :> 2, k2 :> 1}
=============================================================================
