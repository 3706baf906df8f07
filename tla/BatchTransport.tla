--------------------------- MODULE BatchTransport ---------------------------
(***************************************************************************)
(* One batch of run_eigenvalue_with_geometry (transport/simulate.rs): the  *)
(* histories of the particles of the source bank, shared out to rayon      *)
(* workers by par_iter().enumerate().fold(worker_init, fold_one)           *)
(* .reduce(worker_init, reduce_op).                                        *)
(*                                                                         *)
(* rayon cuts the index range in halves as workers become free, folds each *)
(* piece into an accumulator of its own and joins the accumulators of      *)
(* neighbours, in whatever order they are finished.  A piece is known by   *)
(* its first index.  A history is a function of its source site, the batch *)
(* and its index, so it is reduced to its index: `sites` lists the         *)
(* particles in the order in which their fission sites are banked, and     *)
(* `tallies` counts how often the scores of each are added.                *)
(***************************************************************************)
EXTENDS Naturals, Sequences

CONSTANTS
  Histories,  \* particles_per_batch
  Parallel,   \* SimConfig::parallel
  NoPiece     \* no piece starts here, no batch has ended

ASSUME BatchAssumption == Histories \in Nat \ {0} /\ Parallel \in BOOLEAN

Particles == 1..Histories

Accum == [sites : Seq(Particles), tallies : [Particles -> Nat], scratch : SUBSET Particles]

\* A piece of the range, up to `hi` excluded: `next` is the next to fold, and `folded`
\* says that rayon has joined it with the identity of the reduction.
Piece == [hi : 1..(Histories + 1), next : 1..(Histories + 1), acc : Accum, folded : BOOLEAN]

ASSUME PieceAssumption == NoPiece \notin Piece \cup Accum

VARIABLES
  piece,     \* the piece that starts at each index, or NoPiece
  reduced    \* the accumulator of the last batch, or NoPiece

batch_vars == <<piece, reduced>>

worker_init == [sites |-> <<>>, tallies |-> [i \in Particles |-> 0], scratch |-> {}]

MakePiece(hi, next, acc, folded) ==
  [hi |-> hi, next |-> next, acc |-> acc, folded |-> folded]

NewPiece(lo, hi) == MakePiece(hi, lo, worker_init, FALSE)

WholeRange == [i \in Particles |-> IF i = 1 THEN NewPiece(1, Histories + 1) ELSE NoPiece]

BatchInit ==
  /\ piece = WholeRange
  /\ reduced = NoPiece

-----------------------------------------------------------------------------
\* The tallies with the scores of a set of particles added once more.
Added(tallies, scores) ==
  [i \in Particles |-> tallies[i] + IF i \in scores THEN 1 ELSE 0]

\* Mutant: the worker's scratch tallies are not reset for a new particle.
fold_one_no_reset(acc, i) ==
  LET scratch == acc.scratch \cup {i}
  IN  [sites |-> Append(acc.sites, i),
       tallies |-> Added(acc.tallies, scratch),
       scratch |-> scratch]

\* The scratch tallies are reset, written by the history of particle i and accumulated.
fold_one(acc, i) ==
  LET scratch == {i}
  IN  [sites |-> Append(acc.sites, i),
       tallies |-> Added(acc.tallies, scratch),
       scratch |-> scratch]

\* Mutant: the banks are joined the wrong way round.
reduce_op_swapped(a, b) ==
  [sites |-> b.sites \o a.sites,
   tallies |-> [i \in Particles |-> a.tallies[i] + b.tallies[i]],
   scratch |-> a.scratch]

reduce_op(a, b) ==
  [sites |-> a.sites \o b.sites,
   tallies |-> [i \in Particles |-> a.tallies[i] + b.tallies[i]],
   scratch |-> a.scratch]

-----------------------------------------------------------------------------
\* rayon halves a piece nobody has begun.
Split(lo) ==
  /\ Parallel
  /\ piece[lo] # NoPiece
  /\ piece[lo].next = lo /\ ~ piece[lo].folded
  /\ piece[lo].hi - lo >= 2
  /\ LET hi == piece[lo].hi
         mid == lo + (hi - lo) \div 2
     IN  piece' = [piece EXCEPT ![lo] = NewPiece(lo, mid), ![mid] = NewPiece(mid, hi)]
  /\ UNCHANGED reduced

\* A worker takes the next particle of its piece.
FoldNext(lo) ==
  /\ piece[lo] # NoPiece
  /\ piece[lo].next < piece[lo].hi
  /\ LET p == piece[lo]
     IN  piece' = [piece EXCEPT ![lo] =
                     MakePiece(p.hi, p.next + 1, fold_one(p.acc, p.next), FALSE)]
  /\ UNCHANGED reduced

\* The piece is done: reduce begins from an identity of its own.
EndFold(lo) ==
  /\ piece[lo] # NoPiece
  /\ piece[lo].next = piece[lo].hi /\ ~ piece[lo].folded
  /\ LET p == piece[lo]
         acc == IF Parallel THEN reduce_op(worker_init, p.acc) ELSE p.acc
     IN  piece' = [piece EXCEPT ![lo] = MakePiece(p.hi, p.hi, acc, TRUE)]
  /\ UNCHANGED reduced

\* Two neighbours that are both done are joined.
Join(lo) ==
  /\ piece[lo] # NoPiece /\ piece[lo].folded
  /\ piece[lo].hi <= Histories
  /\ LET p == piece[lo]
         q == piece[p.hi]
     IN  /\ q # NoPiece /\ q.folded
         /\ piece' = [piece EXCEPT
                        ![lo] = MakePiece(q.hi, q.hi, reduce_op(p.acc, q.acc), TRUE),
                        ![p.hi] = NoPiece]
  /\ UNCHANGED reduced

\* The batch is over, and the loop goes on to the next.
EndBatch ==
  /\ piece[1].folded
  /\ piece[1].hi = Histories + 1
  /\ reduced' = piece[1].acc
  /\ piece' = WholeRange

BatchNext ==
  \/ \E lo \in Particles : Split(lo) \/ FoldNext(lo) \/ EndFold(lo) \/ Join(lo)
  \/ EndBatch

BatchSpec == BatchInit /\ [][BatchNext]_batch_vars

-----------------------------------------------------------------------------
BatchTypeOK ==
  /\ piece \in [Particles -> Piece \cup {NoPiece}]
  /\ reduced \in Accum \cup {NoPiece}

\* However the range is cut and whoever finishes first, the fission sites are banked in
\* the order of the source bank: the bank the next generation is drawn from does not
\* depend on the schedule.
BankInOrder == reduced # NoPiece => reduced.sites = [i \in Particles |-> i]

\* Each history is tallied once: none is lost or counted again when accumulators
\* are joined or the scratch tallies of a worker are used for its next particle.
TalliedOnce == reduced # NoPiece => reduced.tallies = [i \in Particles |-> 1]
=============================================================================
