--------------------------- MODULE MCTieredStore ---------------------------
(***************************************************************************)
(* TieredStore with two workers, of one process or of two.                 *)
(***************************************************************************)
EXTENDS TieredStore, TLC

CONSTANTS w1, w2, q1, q2

\* Two threads and a daemon started with --data; files replaced between the calls and
\* the preloads.
Quiet ==
  [procOf |-> [w \in Workers |-> q1], preloads |-> TRUE, quiet |-> TRUE, faulty |-> FALSE,
   calls |-> 2]

\* Two processes; loads that fail, files replaced during the calls.
Faulty ==
  [procOf |-> w1 :> q1 @@ w2 :> q2, preloads |-> FALSE, quiet |-> FALSE, faulty |-> TRUE,
   calls |-> 2]

\* A call, while the daemon is started with --data and the file replaced under both.
Preloading == [Faulty EXCEPT !.preloads = TRUE, !.calls = 1]

MCModes == {Quiet, Faulty, Preloading}
=============================================================================
