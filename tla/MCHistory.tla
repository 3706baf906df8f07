----------------------------- MODULE MCHistory -----------------------------
(***************************************************************************)
(* History with a budget of a few steps, a source weight of 16 units,      *)
(* survival biasing of 4 (a quarter) and a window around 4.                *)
(***************************************************************************)
EXTENDS History

MCBiasing == [min |-> 4, survive |-> 16]
MCWindow == [lo |-> 2, hi |-> 8, survive |-> 4]

Mode(delta, multiplies, biasing, window) ==
  [delta |-> delta, multiplies |-> multiplies, biasing |-> biasing, window |-> window]

\* Surface tracking with survival biasing, reactions that multiply and no window.
MCBiased == {Mode(FALSE, TRUE, MCBiasing, None)}

\* Both ways of tracking, each with reactions that multiply and with both games.
MCModes ==
  {Mode(FALSE, TRUE, None, None), Mode(FALSE, FALSE, MCBiasing, MCWindow),
   Mode(TRUE, TRUE, None, MCWindow), Mode(TRUE, FALSE, MCBiasing, MCWindow)} \cup MCBiased
=============================================================================
