-------------------------- MODULE EigenvalueProofs --------------------------
(***************************************************************************)
(* Theorems about the two levels of an eigenvalue run.  However rayon cuts *)
(* and joins a batch, it ends with the accumulator of the sequential loop; *)
(* and whatever the detector finds, exactly the batches that count make    *)
(* k_eff, and enough of them do.                                           *)
(***************************************************************************)
EXTENDS BatchTransport, PowerIteration, FiniteSetTheorems, TLAPS

-----------------------------------------------------------------------------
(***************************************************************************)
(* One batch: for every number of histories.                               *)
(***************************************************************************)
\* The inductive strengthening: a piece holds what a sequential fold of the same
\* particles would have given.
SitesOf(lo, next) == [j \in 1..(next - lo) |-> lo + j - 1]

TalliesOf(lo, next) == [i \in Particles |-> IF lo <= i /\ i < next THEN 1 ELSE 0]

Sequential(acc, lo, next) ==
  /\ acc.sites = SitesOf(lo, next)
  /\ acc.tallies = TalliesOf(lo, next)

WellFormed(p, lo) ==
  /\ lo < p.hi /\ lo <= p.next /\ p.next <= p.hi
  /\ p.folded => p.next = p.hi

PiecesSequential ==
  /\ piece[1] # NoPiece
  /\ \A lo \in Particles :
       piece[lo] # NoPiece =>
         /\ WellFormed(piece[lo], lo)
         /\ Sequential(piece[lo].acc, lo, piece[lo].next)

\* What a piece just made holds: nothing.
LEMMA NewPieceSequential ==
  ASSUME NEW lo \in Particles, NEW hi \in 1..(Histories + 1), lo < hi
  PROVE  /\ NewPiece(lo, hi) \in Piece
         /\ WellFormed(NewPiece(lo, hi), lo)
         /\ Sequential(NewPiece(lo, hi).acc, lo, lo)
         /\ NewPiece(lo, hi) # NoPiece
<1> USE BatchAssumption DEF Particles
<1>1. worker_init \in Accum
  BY DEF worker_init, Accum
<1>2. NewPiece(lo, hi) \in Piece
  BY <1>1 DEF NewPiece, MakePiece, Piece
<1>3. WellFormed(NewPiece(lo, hi), lo)
  BY DEF NewPiece, MakePiece, WellFormed
<1>4. worker_init.sites = SitesOf(lo, lo)
  BY DEF worker_init, SitesOf
<1>5. worker_init.tallies = TalliesOf(lo, lo)
  BY DEF worker_init, TalliesOf
<1>6. Sequential(NewPiece(lo, hi).acc, lo, lo)
  BY <1>4, <1>5 DEF NewPiece, MakePiece, Sequential
<1> QED
  BY <1>2, <1>3, <1>6, PieceAssumption

\* fold_one extends a sequential prefix by one particle.
LEMMA FoldSequential ==
  ASSUME NEW acc \in Accum, NEW lo \in Particles, NEW i \in Particles, lo <= i,
         Sequential(acc, lo, i)
  PROVE  /\ fold_one(acc, i) \in Accum
         /\ Sequential(fold_one(acc, i), lo, i + 1)
<1> USE BatchAssumption DEF Particles
<1>1. Append(acc.sites, i) \in Seq(Particles)
  BY DEF Accum
<1>2. Added(acc.tallies, {i}) \in [Particles -> Nat]
  BY DEF Accum, Added
<1>3. fold_one(acc, i) \in Accum
  BY <1>1, <1>2 DEF fold_one, Accum
<1>4. Append(acc.sites, i) = SitesOf(lo, i + 1)
  BY DEF Sequential, SitesOf, Accum
<1>5. Added(acc.tallies, {i}) = TalliesOf(lo, i + 1)
  BY DEF Sequential, TalliesOf, Added
<1> QED
  BY <1>3, <1>4, <1>5 DEF fold_one, Sequential

LEMMA SumOfTallies ==
  ASSUME NEW f \in [Particles -> Nat], NEW g \in [Particles -> Nat]
  PROVE  [i \in Particles |-> f[i] + g[i]] \in [Particles -> Nat]
OBVIOUS

\* reduce_op joins two neighbouring ranges.
LEMMA ReduceSequential ==
  ASSUME NEW a \in Accum, NEW b \in Accum,
         NEW lo \in Particles, NEW mid \in 1..(Histories + 1), NEW hi \in 1..(Histories + 1),
         lo <= mid, mid <= hi,
         Sequential(a, lo, mid), Sequential(b, mid, hi)
  PROVE  /\ reduce_op(a, b) \in Accum
         /\ Sequential(reduce_op(a, b), lo, hi)
<1> USE BatchAssumption DEF Particles
<1>1. a.sites \o b.sites \in Seq(Particles)
  BY DEF Accum
<1>2. [i \in Particles |-> a.tallies[i] + b.tallies[i]] \in [Particles -> Nat]
  <2>1. a.tallies \in [Particles -> Nat] /\ b.tallies \in [Particles -> Nat]
    BY DEF Accum
  <2> QED
    BY <2>1, SumOfTallies
<1>3. reduce_op(a, b) \in Accum
  BY <1>1, <1>2 DEF reduce_op, Accum
<1>4. a.sites \o b.sites = SitesOf(lo, hi)
  BY DEF Sequential, SitesOf, Accum
<1>5. [i \in Particles |-> a.tallies[i] + b.tallies[i]] = TalliesOf(lo, hi)
  BY DEF Sequential, TalliesOf
<1> QED
  BY <1>3, <1>4, <1>5 DEF reduce_op, Sequential

\* So does the join with the identity that reduce begins from.
LEMMA IdentitySequential ==
  ASSUME NEW acc \in Accum, NEW lo \in Particles, NEW hi \in 1..(Histories + 1), lo <= hi,
         Sequential(acc, lo, hi)
  PROVE  /\ reduce_op(worker_init, acc) \in Accum
         /\ Sequential(reduce_op(worker_init, acc), lo, hi)
<1> USE BatchAssumption DEF Particles
<1>1. worker_init \in Accum /\ Sequential(worker_init, lo, lo)
  BY DEF worker_init, Accum, Sequential, SitesOf, TalliesOf
<1> QED
  BY <1>1, ReduceSequential

-----------------------------------------------------------------------------
\* What the batch delivers, for the two properties the runs check.
BatchSequential ==
  reduced # NoPiece =>
    reduced.sites = SitesOf(1, Histories + 1) /\ reduced.tallies = TalliesOf(1, Histories + 1)

BatchInv == BatchTypeOK /\ PiecesSequential /\ BatchSequential

LEMMA WholeRangeOK ==
  /\ WholeRange \in [Particles -> Piece \cup {NoPiece}]
  /\ WholeRange[1] # NoPiece
  /\ \A lo \in Particles :
       WholeRange[lo] # NoPiece =>
         /\ WellFormed(WholeRange[lo], lo)
         /\ Sequential(WholeRange[lo].acc, lo, WholeRange[lo].next)
<1>1. 1 \in Particles /\ Histories + 1 \in 1..(Histories + 1) /\ 1 < Histories + 1
  BY BatchAssumption DEF Particles
<1>2. /\ NewPiece(1, Histories + 1) \in Piece
      /\ WellFormed(NewPiece(1, Histories + 1), 1)
      /\ Sequential(NewPiece(1, Histories + 1).acc, 1, 1)
      /\ NewPiece(1, Histories + 1) # NoPiece
  BY <1>1, NewPieceSequential
<1>3. NewPiece(1, Histories + 1).next = 1
  BY DEF NewPiece, MakePiece
<1> QED
  BY <1>1, <1>2, <1>3 DEF WholeRange

LEMMA BatchInitInv == BatchInit => BatchInv
BY WholeRangeOK DEF BatchInit, BatchInv, BatchTypeOK, PiecesSequential, BatchSequential

\* A step that gives one piece a new sequential value keeps the invariant.
LEMMA OnePiece ==
  ASSUME BatchInv, NEW lo \in Particles, NEW p \in Piece,
         WellFormed(p, lo), Sequential(p.acc, lo, p.next),
         piece' = [piece EXCEPT ![lo] = p], UNCHANGED reduced
  PROVE  BatchInv'
<1>1. p # NoPiece
  BY PieceAssumption
<1>2. 1 \in Particles
  BY BatchAssumption DEF Particles
<1>3. BatchTypeOK'
  BY DEF BatchInv, BatchTypeOK
<1>4. PiecesSequential'
  BY <1>1, <1>2 DEF BatchInv, BatchTypeOK, PiecesSequential
<1>5. BatchSequential'
  BY DEF BatchInv, BatchSequential
<1> QED
  BY <1>3, <1>4, <1>5 DEF BatchInv

LEMMA BatchStepInv == BatchInv /\ [BatchNext]_batch_vars => BatchInv'
<1> SUFFICES ASSUME BatchInv, [BatchNext]_batch_vars
             PROVE  BatchInv'
  OBVIOUS
<1> USE BatchAssumption, PieceAssumption
<1>1. ASSUME NEW lo \in Particles, Split(lo)
      PROVE  BatchInv'
  <2> DEFINE hi == piece[lo].hi
             mid == lo + (hi - lo) \div 2
  <2>1. piece[lo] \in Piece /\ WellFormed(piece[lo], lo)
    BY <1>1 DEF BatchInv, BatchTypeOK, PiecesSequential, Split
  <2>2. hi \in 1..(Histories + 1) /\ hi - lo >= 2
    BY <1>1, <2>1 DEF Piece, Split
  <2>3. mid \in Particles /\ lo < mid /\ mid < hi
    BY <2>2 DEF Particles
  <2> HIDE DEF hi, mid
  <2> DEFINE A == NewPiece(lo, mid)
             B == NewPiece(mid, hi)
  <2>4. A \in Piece /\ WellFormed(A, lo) /\ Sequential(A.acc, lo, A.next) /\ A # NoPiece
    BY <2>3, NewPieceSequential DEF Particles, NewPiece, MakePiece
  <2>5. B \in Piece /\ WellFormed(B, mid) /\ Sequential(B.acc, mid, B.next) /\ B # NoPiece
    BY <2>2, <2>3, NewPieceSequential DEF Particles, NewPiece, MakePiece
  <2>6. piece' = [piece EXCEPT ![lo] = A, ![mid] = B] /\ UNCHANGED reduced
    BY <1>1 DEF Split, hi, mid
  <2> HIDE DEF A, B
  <2>7. BatchTypeOK'
    BY <2>3, <2>4, <2>5, <2>6 DEF BatchInv, BatchTypeOK
  <2>8. PiecesSequential'
    BY <2>3, <2>4, <2>5, <2>6 DEF BatchInv, BatchTypeOK, PiecesSequential, Particles
  <2>9. BatchSequential'
    BY <2>6 DEF BatchInv, BatchSequential
  <2> QED
    BY <2>7, <2>8, <2>9 DEF BatchInv
<1>2. ASSUME NEW lo \in Particles, FoldNext(lo)
      PROVE  BatchInv'
  <2> DEFINE p == piece[lo]
             acc == fold_one(p.acc, p.next)
             q == MakePiece(p.hi, p.next + 1, acc, FALSE)
  <2>1. p \in Piece /\ WellFormed(p, lo) /\ Sequential(p.acc, lo, p.next) /\ p.next < p.hi
    BY <1>2 DEF BatchInv, BatchTypeOK, PiecesSequential, FoldNext
  <2>2. p.acc \in Accum /\ p.next \in Particles /\ lo <= p.next
    BY <2>1 DEF Piece, Particles, WellFormed
  <2>3. acc \in Accum /\ Sequential(acc, lo, p.next + 1)
    BY <2>1, <2>2, FoldSequential
  <2>4. p.hi \in 1..(Histories + 1) /\ p.next + 1 \in 1..(Histories + 1)
    BY <2>1, <2>2 DEF Piece, Particles
  <2> HIDE DEF p, acc
  <2>5. /\ q \in Piece
        /\ q.hi = p.hi /\ q.next = p.next + 1 /\ q.acc = acc /\ q.folded = FALSE
    BY <2>3, <2>4 DEF MakePiece, Piece
  <2>6. WellFormed(q, lo)
    BY <2>1, <2>2, <2>4 DEF WellFormed, MakePiece, Piece, Particles
  <2>7. piece' = [piece EXCEPT ![lo] = q] /\ UNCHANGED reduced
    BY <1>2 DEF FoldNext, p, acc
  <2> HIDE DEF q
  <2> QED
    BY <2>3, <2>5, <2>6, <2>7, OnePiece
<1>3. ASSUME NEW lo \in Particles, EndFold(lo)
      PROVE  BatchInv'
  <2> DEFINE p == piece[lo]
             acc == IF Parallel THEN reduce_op(worker_init, p.acc) ELSE p.acc
             q == MakePiece(p.hi, p.hi, acc, TRUE)
  <2>1. p \in Piece /\ WellFormed(p, lo) /\ Sequential(p.acc, lo, p.next) /\ p.next = p.hi
    BY <1>3 DEF BatchInv, BatchTypeOK, PiecesSequential, EndFold
  <2>2. p.acc \in Accum /\ p.next \in 1..(Histories + 1) /\ lo <= p.next
    BY <2>1 DEF Piece, WellFormed
  <2>3. acc \in Accum /\ Sequential(acc, lo, p.next)
    BY <2>1, <2>2, IdentitySequential
  <2> HIDE DEF acc
  <2>4. p.hi \in 1..(Histories + 1)
    BY <2>1 DEF Piece
  <2> HIDE DEF p
  <2>5. /\ q \in Piece
        /\ q.hi = p.hi /\ q.next = p.hi /\ q.acc = acc
    BY <2>3, <2>4 DEF MakePiece, Piece
  <2>6. WellFormed(q, lo)
    BY <2>1, <2>4, <2>5 DEF WellFormed
  <2>7. piece' = [piece EXCEPT ![lo] = q] /\ UNCHANGED reduced
    BY <1>3 DEF EndFold, p, acc
  <2> HIDE DEF q
  <2> QED
    BY <2>1, <2>3, <2>5, <2>6, <2>7, OnePiece
<1>4. ASSUME NEW lo \in Particles, Join(lo)
      PROVE  BatchInv'
  <2> DEFINE p == piece[lo]
             q == piece[p.hi]
             acc == reduce_op(p.acc, q.acc)
             r == MakePiece(q.hi, q.hi, acc, TRUE)
  <2>1. /\ p \in Piece /\ WellFormed(p, lo) /\ Sequential(p.acc, lo, p.next)
        /\ p.next = p.hi
    BY <1>4 DEF BatchInv, BatchTypeOK, PiecesSequential, Join, WellFormed
  <2>2. p.hi \in Particles /\ lo < p.hi
    BY <1>4, <2>1 DEF Join, Piece, WellFormed, Particles
  <2>3. /\ q \in Piece /\ WellFormed(q, p.hi) /\ Sequential(q.acc, p.hi, q.next)
        /\ q.next = q.hi
    BY <1>4, <2>2 DEF BatchInv, BatchTypeOK, PiecesSequential, Join, WellFormed
  <2>4. /\ p.acc \in Accum /\ q.acc \in Accum
        /\ p.hi \in 1..(Histories + 1) /\ q.hi \in 1..(Histories + 1) /\ p.hi < q.hi
    BY <2>1, <2>3 DEF Piece, WellFormed
  <2>5. piece' = [piece EXCEPT ![lo] = r, ![p.hi] = NoPiece] /\ UNCHANGED reduced
    BY <1>4 DEF Join
  <2> HIDE DEF p, q
  <2>6. acc \in Accum /\ Sequential(acc, lo, q.hi)
    BY <2>1, <2>2, <2>3, <2>4, ReduceSequential DEF Particles
  <2> HIDE DEF acc
  <2>7. r \in Piece /\ Sequential(r.acc, lo, r.next) /\ r # NoPiece
    <3>1. r \in Piece /\ r.acc = acc /\ r.next = q.hi
      BY <2>4, <2>6 DEF MakePiece, Piece
    <3> QED
      BY <2>6, <3>1, PieceAssumption
  <2>8. WellFormed(r, lo)
    BY <2>2, <2>4 DEF WellFormed, MakePiece, Particles
  <2> HIDE DEF r
  <2>9. BatchTypeOK'
    BY <2>2, <2>5, <2>7 DEF BatchInv, BatchTypeOK
  <2>10. PiecesSequential'
    BY <2>2, <2>5, <2>7, <2>8 DEF BatchInv, BatchTypeOK, PiecesSequential, Particles
  <2>11. BatchSequential'
    BY <2>5 DEF BatchInv, BatchSequential
  <2> QED
    BY <2>9, <2>10, <2>11 DEF BatchInv
<1>5. CASE EndBatch
  <2>1. 1 \in Particles
    BY DEF Particles
  <2>2. /\ piece[1] \in Piece /\ Sequential(piece[1].acc, 1, Histories + 1)
    BY <1>5, <2>1 DEF BatchInv, BatchTypeOK, PiecesSequential, EndBatch, WellFormed
  <2>3. reduced' = piece[1].acc /\ piece' = WholeRange
    BY <1>5 DEF EndBatch
  <2>4. BatchTypeOK'
    BY <2>2, <2>3, WholeRangeOK DEF BatchTypeOK, Piece
  <2>5. PiecesSequential'
    BY <2>3, WholeRangeOK DEF PiecesSequential
  <2>6. BatchSequential'
    BY <2>2, <2>3 DEF BatchSequential, Sequential
  <2> QED
    BY <2>4, <2>5, <2>6 DEF BatchInv
<1>6. CASE UNCHANGED batch_vars
  BY <1>6 DEF BatchInv, BatchTypeOK, PiecesSequential, BatchSequential, batch_vars
<1> QED
  BY <1>1, <1>2, <1>3, <1>4, <1>5, <1>6 DEF BatchNext

LEMMA BatchInvHolds == BatchSpec => []BatchInv
BY BatchInitInv, BatchStepInv, PTL DEF BatchSpec

-----------------------------------------------------------------------------
\* The variables keep their types.
THEOREM BatchTypeCorrect == BatchSpec => []BatchTypeOK
<1>1. BatchInv => BatchTypeOK
  BY DEF BatchInv
<1> QED
  BY <1>1, BatchInvHolds, PTL

\* The fission bank of a batch is in the order of its source bank.
THEOREM BankOrdered == BatchSpec => []BankInOrder
<1>1. BatchInv => BankInOrder
  BY BatchAssumption DEF BatchInv, BatchSequential, BankInOrder, SitesOf, Particles
<1> QED
  BY <1>1, BatchInvHolds, PTL

\* Every history of a batch is tallied exactly once.
THEOREM EveryHistoryTallied == BatchSpec => []TalliedOnce
<1>1. BatchInv => TalliedOnce
  BY BatchAssumption DEF BatchInv, BatchSequential, TalliedOnce, TalliesOf, Particles
<1> QED
  BY <1>1, BatchInvHolds, PTL

-----------------------------------------------------------------------------
(***************************************************************************)
(* The loop over the batches: for every number of batches and every        *)
(* setting of the detector.                                                *)
(***************************************************************************)
\* What the loop knows of the batch the source converged at.
Threshold ==
  IF Adaptive
    THEN /\ auto_converged_at = None =>
              /\ effective_inactive = Batches
              /\ batch = 0 \/ batch < LastInactive
         /\ auto_converged_at # None =>
              /\ effective_inactive = auto_converged_at
              /\ auto_converged_at <= LastInactive
              /\ auto_converged_at >= Detector.min_inactive
              /\ \/ auto_converged_at >= Detector.window
                 \/ auto_converged_at >= Detector.max_inactive
    ELSE auto_converged_at = None /\ effective_inactive = Inactive

Entropies == OnCpu => entropies = batch

ActiveBeyond == \A i \in 1..batch : results[i].active <=> i > effective_inactive

CountedBeyond ==
  k_count = IF batch > effective_inactive THEN batch - effective_inactive ELSE 0

\* The running sums are those over the batches that are active in the results.
Averaged ==
  /\ IsFiniteSet(ActiveResults) /\ k_count = Cardinality(ActiveResults)
  /\ IsFiniteSet(ActiveSites) /\ k_sum = Cardinality(ActiveSites)

Reported ==
  outcome # None =>
    /\ batch = Batches
    /\ outcome.k_count = k_count /\ outcome.k_sum = k_sum
    /\ outcome.statepoint # None => outcome.statepoint.n_active = k_count

Inv == TypeOK /\ Threshold /\ Entropies /\ ActiveBeyond /\ CountedBeyond /\ Averaged
       /\ Reported

\* One more batch in the results.
LEMMA SitesOfBatch ==
  ASSUME NEW b, NEW n \in Nat
  PROVE  IsFiniteSet({b} \X (1..n)) /\ Cardinality({b} \X (1..n)) = n
<1>1. IsFiniteSet({b}) /\ Cardinality({b}) = 1
  BY FS_Singleton
<1>2. IsFiniteSet(1..n) /\ Cardinality(1..n) = n
  BY FS_Interval
<1>3. /\ IsFiniteSet({b} \X (1..n))
      /\ Cardinality({b} \X (1..n)) = Cardinality({b}) * Cardinality(1..n)
  BY <1>1, <1>2, FS_Product, Zenon
<1> QED
  BY <1>1, <1>2, <1>3

LEMMA OneMoreResult ==
  ASSUME TypeOK, Averaged, NEW r \in Result, results' = Append(results, r),
         Average(r.active, r.sites)
  PROVE  Averaged'
<1> DEFINE b == batch + 1
           new == {b} \X (1..r.sites)
<1>1. /\ results \in Seq(Result) /\ Len(results) = batch /\ batch \in Nat
      /\ r.active \in BOOLEAN /\ r.sites \in Nat
  BY PowerAssumption DEF TypeOK, Result
<1>2. /\ Len(results') = b /\ results'[b] = r
      /\ \A i \in 1..batch : results'[i] = results[i]
  BY <1>1
<1>3. ActiveResults \subseteq 1..batch
  BY <1>1 DEF ActiveResults
<1>4. CASE r.active
  <2>1. ActiveResults' = ActiveResults \cup {b} /\ b \notin ActiveResults
    <3>1. \A i \in 1..b : i \in 1..batch \/ i = b
      BY <1>1
    <3>2. 1..batch \subseteq 1..b /\ b \in 1..b /\ b \notin 1..batch
      BY <1>1
    <3> QED
      BY <1>1, <1>2, <1>3, <1>4, <3>1, <3>2 DEF ActiveResults
  <2>2. ActiveSites' = ActiveSites \cup new /\ ActiveSites \cap new = {}
    <3>1. \A i \in ActiveResults : results'[i].sites = results[i].sites
      BY <1>2, <1>3
    <3>2. results'[b].sites = r.sites
      BY <1>2
    <3>3. ActiveSites' = UNION {{i} \X (1..results'[i].sites) : i \in ActiveResults \cup {b}}
      BY <2>1 DEF ActiveSites
    <3> HIDE DEF b
    <3>4. {{i} \X (1..results'[i].sites) : i \in ActiveResults \cup {b}}
            = {{i} \X (1..results[i].sites) : i \in ActiveResults} \cup {new}
      BY <3>1, <3>2
    <3>5. ActiveSites' = ActiveSites \cup new
      BY <3>3, <3>4 DEF ActiveSites
    <3>6. ActiveSites \cap new = {}
      BY <2>1 DEF ActiveSites
    <3> QED
      BY <3>5, <3>6
  <2>3. IsFiniteSet(new) /\ Cardinality(new) = r.sites
    BY <1>1, SitesOfBatch
  <2>4. k_count' = k_count + 1 /\ k_sum' = k_sum + r.sites
    BY <1>4 DEF Average
  <2> HIDE DEF new
  <2>5. /\ IsFiniteSet(ActiveResults')
        /\ Cardinality(ActiveResults') = Cardinality(ActiveResults) + 1
    BY <2>1, FS_AddElement DEF Averaged
  <2>6. IsFiniteSet(ActiveSites') /\ Cardinality(ActiveSites') = Cardinality(ActiveSites) + r.sites
    <3>1. /\ IsFiniteSet(ActiveSites \cup new) /\ Cardinality({}) = 0
          /\ Cardinality(ActiveSites \cup new)
               = Cardinality(ActiveSites) + Cardinality(new) - Cardinality(ActiveSites \cap new)
      BY <2>3, FS_Union, FS_EmptySet DEF Averaged
    <3>2. Cardinality(ActiveSites) \in Nat
      BY FS_CardinalityType DEF Averaged
    <3>3. Cardinality(ActiveSites \cap new) = 0
      BY <2>2, <3>1
    <3>4. IsFiniteSet(ActiveSites') /\ Cardinality(ActiveSites') = Cardinality(ActiveSites \cup new)
      BY <2>2, <3>1
    <3> QED
      BY <1>1, <2>3, <3>1, <3>2, <3>3, <3>4
  <2> QED
    BY <2>4, <2>5, <2>6 DEF Averaged
<1>5. CASE ~ r.active
  <2>1. ActiveResults' = ActiveResults
    <3>1. \A i \in 1..b : i \in 1..batch \/ i = b
      BY <1>1
    <3>2. 1..batch \subseteq 1..b
      BY <1>1
    <3> QED
      BY <1>1, <1>2, <1>3, <1>5, <3>1, <3>2 DEF ActiveResults
  <2>2. ActiveSites' = ActiveSites
    <3>1. \A i \in ActiveResults : results'[i].sites = results[i].sites
      BY <1>2, <1>3
    <3> QED
      BY <2>1, <3>1 DEF ActiveSites
  <2>3. k_count' = k_count /\ k_sum' = k_sum
    BY <1>1, <1>5 DEF Average, TypeOK
  <2> QED
    BY <2>1, <2>2, <2>3 DEF Averaged
<1> QED
  BY <1>1, <1>4, <1>5

LEMMA ConfigTyped ==
  ASSUME config \in Configs
  PROVE  /\ Inactive \in Nat
         /\ Detector # None =>
              Detector \in [min_inactive : Nat, max_inactive : Nat, window : Nat \ {0}]
BY PowerAssumption DEF Configuration, Inactive, Detector

LEMMA LastInactiveNat ==
  ASSUME config \in Configs PROVE LastInactive \in Nat
BY ConfigTyped DEF LastInactive, Larger, Adaptive

LEMMA InitInv == Init => Inv
<1> SUFFICES ASSUME Init
             PROVE  Inv
  OBVIOUS
<1> USE PowerAssumption, NoneAssumption
<1>0. config \in Configs /\ Inactive \in Nat
  BY ConfigTyped DEF Init
<1>1. TypeOK
  BY <1>0 DEF Init, TypeOK, Initial, Adaptive
<1>2. Threshold
  BY DEF Init, Threshold
<1>3. Entropies /\ ActiveBeyond /\ CountedBeyond /\ Reported
  BY <1>0 DEF Init, Entropies, ActiveBeyond, CountedBeyond, Reported, Adaptive
<1>4. Averaged
  <2>1. ActiveResults = {} /\ ActiveSites = {}
    BY DEF Init, ActiveResults, ActiveSites
  <2> QED
    BY <2>1, FS_EmptySet DEF Init, Averaged
<1> QED
  BY <1>1, <1>2, <1>3, <1>4 DEF Inv

\* One pass of the loop, for the sites and the entropy it finds.
LEMMA RunBatchInv ==
  ASSUME Inv, RunBatch
  PROVE  Inv'
<1> USE PowerAssumption, NoneAssumption
<1> DEFINE b == batch + 1
<1>1. PICK sites \in 0..BankLimit, flat \in BOOLEAN :
        LET now == Converges(b, flat)
            effective == IF now THEN b ELSE effective_inactive
            active == IsActive(b, effective)
        IN  /\ batch' = b
            /\ entropies' = IF OnCpu THEN entropies + 1 ELSE 0
            /\ effective_inactive' = effective
            /\ auto_converged_at' = IF now THEN b ELSE auto_converged_at
            /\ results' = Append(results, [sites |-> sites, active |-> active])
            /\ Average(active, sites)
            /\ shown' = tick(b, sites)
            /\ source' = normalize(sites, b)
  BY DEF RunBatch
<1> DEFINE now == Converges(b, flat)
           active == b > effective_inactive'
<1>2. /\ batch' = b
      /\ entropies' = IF OnCpu THEN entropies + 1 ELSE 0
      /\ effective_inactive' = IF now THEN b ELSE effective_inactive
      /\ auto_converged_at' = IF now THEN b ELSE auto_converged_at
      /\ results' = Append(results, [sites |-> sites, active |-> active])
      /\ Average(active, sites)
      /\ shown' = tick(b, sites)
      /\ source' = normalize(sites, b)
  BY <1>1 DEF IsActive
<1>3. outcome' = outcome /\ batch < Batches /\ outcome = None
  BY DEF RunBatch, Inv, Reported, TypeOK
<1>a. /\ config' = config /\ config \in Configs
      /\ Inactive' = Inactive /\ Detector' = Detector /\ OnCpu' = OnCpu
      /\ Adaptive' = Adaptive
  BY DEF RunBatch, Inv, TypeOK, Inactive, Detector, OnCpu, Adaptive
<1>b. /\ Inactive \in Nat
      /\ Detector # None =>
           Detector \in [min_inactive : Nat, max_inactive : Nat, window : Nat \ {0}]
  BY <1>a, ConfigTyped
<1>4. /\ batch \in 0..Batches /\ b \in 1..Batches
      /\ effective_inactive \in Nat /\ effective_inactive' \in Nat
      /\ sites \in 0..MaxBank
      /\ now \in BOOLEAN /\ active \in BOOLEAN
  <2>1. batch \in 0..Batches /\ b \in 1..Batches /\ effective_inactive \in Nat
    BY <1>3 DEF Inv, TypeOK
  <2>2. effective_inactive' \in Nat
    BY <1>2, <2>1
  <2>3. sites \in 0..MaxBank
    BY DEF BankLimit
  <2>4. now \in BOOLEAN /\ active \in BOOLEAN
    BY DEF Converges
  <2> QED
    BY <2>1, <2>2, <2>3, <2>4
<1>5. TypeOK'
  <2>1. results' \in Seq(Result) /\ Len(results') = b
    BY <1>2, <1>4 DEF Inv, TypeOK, Result
  <2>2. k_sum' \in Nat /\ k_count' \in 0..b
    <3>1. k_sum \in Nat /\ k_count \in 0..batch /\ sites \in Nat /\ batch \in Nat
      BY <1>4 DEF Inv, TypeOK
    <3>2. Average(active, sites)
      BY <1>2
    <3> HIDE DEF active
    <3> QED
      BY <3>1, <3>2 DEF Average
  <2>3. shown' \in [n_active : Nat, k_sum : Nat]
    <3>1. shown \in [n_active : Nat, k_sum : Nat] /\ sites \in Nat
      BY <1>4 DEF Inv, TypeOK
    <3>2. [n_active |-> shown.n_active + 1, k_sum |-> shown.k_sum + sites]
            \in [n_active : Nat, k_sum : Nat]
      BY <3>1
    <3> QED
      BY <1>2, <3>1, <3>2 DEF tick
  <2>4. source' \in [len : {N}, born : Initial..Batches]
    BY <1>2, <1>4 DEF normalize, Fabricated, Initial
  <2>5. entropies' \in 0..b /\ auto_converged_at' \in 0..b \cup {None}
    BY <1>2, <1>4 DEF Inv, TypeOK
  <2> QED
    BY <1>a, <1>2, <1>4, <2>1, <2>2, <2>3, <2>4, <2>5 DEF TypeOK
<1>6. Threshold'
  <2>1. LastInactive \in Nat /\ LastInactive' = LastInactive
    BY <1>a, LastInactiveNat DEF LastInactive
  <2>2. CASE ~ Adaptive
    BY <1>2, <1>a, <2>2 DEF Inv, Threshold, Converges
  <2>3. CASE Adaptive /\ auto_converged_at # None
    BY <1>2, <1>a, <2>1, <2>3 DEF Inv, Threshold, Converges
  <2>4. CASE Adaptive /\ auto_converged_at = None /\ now
    <3>1. /\ b >= Detector.min_inactive
          /\ b >= Detector.window \/ b >= Detector.max_inactive
      BY <2>4, <1>4, <1>b DEF Converges, has_converged, Inv, Entropies, Adaptive
    <3>2. b <= LastInactive
      BY <1>4, <1>b, <2>1, <2>4 DEF Inv, Threshold, LastInactive, Larger, Adaptive
    <3> QED
      BY <1>2, <1>4, <1>a, <2>1, <2>4, <3>1, <3>2 DEF Threshold
  <2>5. CASE Adaptive /\ auto_converged_at = None /\ ~ now
    <3>1. b < Detector.min_inactive \/ b < Detector.max_inactive
      BY <1>4, <1>b, <2>5 DEF Converges, Adaptive
    <3>2. b < LastInactive
      BY <1>4, <1>b, <2>5, <3>1 DEF LastInactive, Larger, Adaptive
    <3> QED
      BY <1>2, <1>4, <1>a, <2>1, <2>5, <3>2 DEF Inv, Threshold
  <2> QED
    BY <2>2, <2>3, <2>4, <2>5
<1>7. Entropies'
  BY <1>2, <1>4, <1>a DEF Inv, Entropies
<1>8. effective_inactive' = effective_inactive \/ (k_count = 0 /\ effective_inactive' = b
        /\ effective_inactive = Batches)
  BY <1>2, <1>4 DEF Inv, Threshold, CountedBeyond, Converges
<1>9. ActiveBeyond'
  <2> SUFFICES ASSUME NEW i \in 1..b
               PROVE  results'[i].active <=> i > effective_inactive'
    BY <1>2 DEF ActiveBeyond
  <2>1. CASE i = b
    <3> DEFINE r == [sites |-> sites, active |-> active]
    <3>1. results'[b] = r
      <4>1. results \in Seq(Result) /\ Len(results) = batch
        BY DEF Inv, TypeOK
      <4>2. results' = Append(results, r)
        BY <1>2
      <4> HIDE DEF r
      <4> QED
        BY <1>4, <4>1, <4>2
    <3>2. results'[b].active = active
      BY <3>1
    <3> QED
      BY <2>1, <3>2
  <2>2. CASE i # b
    <3>1. i \in 1..batch /\ results'[i] = results[i]
      BY <1>2, <1>4, <2>2 DEF Inv, TypeOK
    <3>2. results[i].active <=> i > effective_inactive
      BY <3>1 DEF Inv, ActiveBeyond
    <3> QED
      BY <1>3, <1>4, <1>8, <3>1, <3>2
  <2> QED
    BY <2>1, <2>2
<1>10. CountedBeyond'
  BY <1>2, <1>3, <1>4, <1>8 DEF Inv, TypeOK, CountedBeyond, Average
<1>11. Reported'
  BY <1>3 DEF Reported
<1>12. Averaged'
  <2> DEFINE r == [sites |-> sites, active |-> active]
  <2>1. r \in Result /\ r.active = active /\ r.sites = sites
    BY <1>4 DEF Result
  <2>2. results' = Append(results, r) /\ Average(r.active, r.sites)
    BY <1>2, <2>1
  <2> HIDE DEF r
  <2> QED
    BY <2>1, <2>2, OneMoreResult DEF Inv
<1> QED
  BY <1>5, <1>6, <1>7, <1>9, <1>10, <1>11, <1>12 DEF Inv

LEMMA StepInv == Inv /\ [Next]_vars => Inv'
<1> SUFFICES ASSUME Inv, [Next]_vars
             PROVE  Inv'
  OBVIOUS
<1>1. CASE RunBatch
  BY <1>1, RunBatchInv
<1>2. CASE Finish
  <2>1. UNCHANGED <<config, batch, source, results, k_sum, k_count, entropies,
                    effective_inactive, auto_converged_at, shown>>
    BY <1>2 DEF Finish
  <2>2. Averaged' /\ k_count = Cardinality(ActiveResults)
    BY <2>1 DEF Inv, Averaged, ActiveResults, ActiveSites
  <2>3. Reported'
    <3>1. /\ batch = Batches /\ outcome'.k_count = k_count /\ outcome'.k_sum = k_sum
          /\ \/ outcome'.statepoint = None
             \/ outcome'.statepoint = [n_active |-> Cardinality(ActiveResults),
                                       source_bank |-> source]
      BY <1>2 DEF Finish
    <3> QED
      BY <2>1, <2>2, <3>1 DEF Reported
  <2> QED
    BY <2>1, <2>2, <2>3 DEF Inv, TypeOK, Threshold, Entropies, ActiveBeyond, CountedBeyond,
                            LastInactive, Larger, Adaptive, OnCpu, Inactive, Detector
<1>3. CASE UNCHANGED vars
  <2>1. Averaged'
    BY <1>3 DEF vars, Inv, Averaged, ActiveResults, ActiveSites
  <2> QED
    BY <1>3, <2>1 DEF vars, Inv, TypeOK, Threshold, Entropies, ActiveBeyond, CountedBeyond,
                      Reported, LastInactive, Larger, Adaptive, OnCpu, Inactive, Detector
<1> QED
  BY <1>1, <1>2, <1>3 DEF Next

LEMMA InvHolds == Spec => []Inv
BY InitInv, StepInv, PTL DEF Spec

-----------------------------------------------------------------------------
\* The variables keep their types.
THEOREM TypeCorrect == Spec => []TypeOK
<1>1. Inv => TypeOK
  BY DEF Inv
<1> QED
  BY <1>1, InvHolds, PTL

\* The batches after the one the source converged at count, and no others.
THEOREM ActiveBatches == Spec => []ActiveAfterConvergence
<1>1. Inv => ActiveAfterConvergence
  <2> SUFFICES ASSUME Inv, NEW i \in 1..batch
               PROVE  results[i].active <=>
                        IF Adaptive THEN auto_converged_at # None /\ i > auto_converged_at
                        ELSE i > Inactive
    BY DEF ActiveAfterConvergence
  <2>1. /\ results[i].active <=> i > effective_inactive
        /\ ~ (i > Batches)
    BY PowerAssumption DEF Inv, ActiveBeyond, TypeOK
  <2> QED
    BY <2>1 DEF Inv, Threshold
<1> QED
  BY <1>1, InvHolds, PTL

\* k_eff is the mean over exactly the active batches, in the run's sums, in what it
\* returns and in the statepoint.
THEOREM MeanOfActive == Spec => []KIsActiveMean
<1>1. Inv => KIsActiveMean
  BY DEF Inv, Averaged, Reported, KIsActiveMean
<1> QED
  BY <1>1, InvHolds, PTL

\* The detector acts on evidence, and the cap on the inactive batches holds.
THEOREM ConvergenceBounded == Spec => []ConvergenceInBounds
<1>1. Inv => ConvergenceInBounds
  <2> SUFFICES ASSUME Inv
               PROVE  ConvergenceInBounds
    OBVIOUS
  <2>1. auto_converged_at # None =>
          /\ auto_converged_at >= Detector.min_inactive
          /\ auto_converged_at >= Detector.window \/ auto_converged_at >= Detector.max_inactive
    BY DEF Inv, Threshold
  <2>2. outcome # None => outcome.k_count >= Batches - LastInactive
    <3> SUFFICES ASSUME outcome # None
                 PROVE  k_count >= Batches - LastInactive
      BY DEF Inv, Reported
    <3>1. batch = Batches /\ Batches \in Nat
      BY PowerAssumption DEF Inv, Reported
    <3>2. effective_inactive \in Nat /\ LastInactive \in Nat
      BY LastInactiveNat DEF Inv, TypeOK
    <3>3. effective_inactive <= LastInactive \/ Batches <= LastInactive
      BY <3>1, <3>2 DEF Inv, Threshold, LastInactive
    <3> QED
      BY <3>1, <3>2, <3>3 DEF Inv, CountedBeyond
  <2> QED
    BY <2>1, <2>2 DEF ConvergenceInBounds
<1> QED
  BY <1>1, InvHolds, PTL
=============================================================================
