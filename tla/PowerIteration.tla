--------------------------- MODULE PowerIteration ---------------------------
(***************************************************************************)
(* The batch loop of an eigenvalue run: run_eigenvalue_with_geometry       *)
(* (transport/simulate.rs, the "Cpu" backend) and CudaRunner::run          *)
(* (transport/dispatch.rs, "Cuda", without refill).  A batch transports N  *)
(* neutrons of the source bank and banks fission sites (module             *)
(* BatchTransport); the batches after the inactive ones are averaged into  *)
(* k_eff, and the bank is resampled into the source of the next batch.     *)
(*                                                                         *)
(* Numbers of batches and sites are kept.  k_eff of a batch is its sites   *)
(* over N, so sums of k are kept in units of 1 / N.  Whether the last      *)
(* entropies have settled is left open.                                    *)
(***************************************************************************)
EXTENDS Integers, Sequences, FiniteSets

CONSTANTS
  Configs,      \* the configurations to check, see Configuration
  Batches,      \* SimConfig::batches
  N,            \* SimConfig::particles_per_batch
  MaxBank,      \* a batch banks at most this many sites
  FisCapacity,  \* CudaRunner::fis_capacity: the device keeps no more
  None

(***************************************************************************)
(* The backend, "Cpu" or "Cuda"; SimConfig's inactive and auto_inactive,   *)
(* which is a detector [min_inactive, max_inactive, window] or None; and   *)
(* whether it names a statepoint_path.                                     *)
(***************************************************************************)
Configuration ==
  [backend : {"Cpu", "Cuda"}, inactive : Nat, statepoint : BOOLEAN,
   detector : {None} \cup [min_inactive : Nat, max_inactive : Nat, window : Nat \ {0}]]

ASSUME PowerAssumption ==
  /\ \A c \in Configs : c \in Configuration
  /\ {Batches, MaxBank, FisCapacity} \subseteq Nat
  /\ N \in Nat \ {0}

ASSUME NoneAssumption == None \notin Int

Initial == -1      \* the birth of a neutron of the initial or resumed source
Fabricated == 0    \* the birth of a neutron put at the origin

VARIABLES
  config,             \* the configuration, fixed at the start
  batch,              \* batches finished
  source,             \* how many neutrons the next batch has, and where they were born
  results,            \* per batch: the sites banked and whether it counts
  k_sum, k_count,     \* the running sum over the active batches
  entropies,          \* length of entropy_history
  effective_inactive,
  auto_converged_at,
  shown,              \* EigenProgress: n_active and k_sum
  outcome             \* what the run returns and writes, or None

vars == <<config, batch, source, results, k_sum, k_count, entropies, effective_inactive,
          auto_converged_at, shown, outcome>>

Inactive == config.inactive
Detector == config.detector
OnCpu == config.backend = "Cpu"
Adaptive == OnCpu /\ Detector # None

Init ==
  /\ config \in Configs
  /\ batch = 0
  /\ source = [len |-> N, born |-> Initial]
  /\ results = <<>>
  /\ k_sum = 0 /\ k_count = 0
  /\ entropies = 0
  /\ effective_inactive = IF Adaptive THEN Batches ELSE Inactive
  /\ auto_converged_at = None
  /\ shown = [n_active |-> 0, k_sum |-> 0]
  /\ outcome = None

-----------------------------------------------------------------------------
\* Mutant: the window may not be full yet.
has_converged_early(n, flat) == n >= Detector.min_inactive /\ flat

\* EntropyConvergence::has_converged on n entropies, the last of which are flat or not.
has_converged(n, flat) == n >= Detector.min_inactive /\ n >= Detector.window /\ flat

\* The batch at whose end the source counts as converged.
Converges(b, flat) ==
  /\ Adaptive /\ auto_converged_at = None
  /\ b >= Detector.min_inactive
  /\ has_converged(entropies + 1, flat) \/ b >= Detector.max_inactive

\* Mutant: the batch that converges counts as active.
IsActiveAtOnce(b, effective) == b >= effective

IsActive(b, effective) == b > effective

\* normalize_fission_bank and normalize_gpu_bank: N draws with replacement, or N
\* neutrons at the origin.
normalize(sites, b) == [len |-> N, born |-> IF sites = 0 THEN Fabricated ELSE b]

\* Mutant: the last inactive batch is shown as the first active one.
tick_early(b, sites) ==
  IF b >= Inactive
    THEN [n_active |-> shown.n_active + 1, k_sum |-> shown.k_sum + sites]
    ELSE shown

\* EigenProgress::tick.
tick(b, sites) ==
  IF b > Inactive
    THEN [n_active |-> shown.n_active + 1, k_sum |-> shown.k_sum + sites]
    ELSE shown

BankLimit == IF OnCpu \/ FisCapacity > MaxBank THEN MaxBank ELSE FisCapacity

\* Mutant: the sum takes every batch, the count the active ones.
AverageSumsAll(active, sites) ==
  /\ k_sum' = k_sum + sites
  /\ k_count' = k_count + IF active THEN 1 ELSE 0

Average(active, sites) ==
  /\ k_sum' = k_sum + IF active THEN sites ELSE 0
  /\ k_count' = k_count + IF active THEN 1 ELSE 0

\* One pass of the loop.
RunBatch ==
  /\ batch < Batches
  /\ \E sites \in 0..BankLimit, flat \in BOOLEAN :
       LET b == batch + 1
           now == Converges(b, flat)
           effective == IF now THEN b ELSE effective_inactive
           active == IsActive(b, effective)
       IN  /\ batch' = b
           /\ entropies' = IF OnCpu THEN entropies + 1 ELSE 0
           /\ effective_inactive' = effective
           /\ auto_converged_at' = IF now THEN b ELSE auto_converged_at
           /\ results' = Append(results, [sites |-> sites, active |-> active])
           /\ Average(active, sites)
           /\ shown' = tick(b, sites)
           /\ source' = normalize(sites, b)
  /\ UNCHANGED <<config, outcome>>

ActiveResults == {i \in 1..Len(results) : results[i].active}

\* k is k_sum / k_count, or 0.0 for no active batch.  The statepoint counts the active
\* batches again, from the results.  CpuRunner hands no bank on, and CudaRunner
\* writes no statepoint.
Finish ==
  /\ batch = Batches /\ outcome = None
  /\ outcome' = [k_sum |-> k_sum, k_count |-> k_count,
                 final_source_bank |-> IF OnCpu THEN None ELSE source,
                 statepoint |-> IF OnCpu /\ config.statepoint
                                  THEN [n_active |-> Cardinality(ActiveResults),
                                        source_bank |-> source]
                                  ELSE None]
  /\ UNCHANGED <<config, batch, source, results, k_sum, k_count, entropies,
                 effective_inactive, auto_converged_at, shown>>

Next == RunBatch \/ Finish

Spec == Init /\ [][Next]_vars

-----------------------------------------------------------------------------
Result == [sites : 0..MaxBank, active : BOOLEAN]

TypeOK ==
  /\ config \in Configs
  /\ batch \in 0..Batches
  /\ source \in [len : {N}, born : Initial..Batches]
  /\ results \in Seq(Result) /\ Len(results) = batch
  /\ k_sum \in Nat /\ k_count \in 0..batch
  /\ entropies \in 0..batch
  /\ effective_inactive \in Nat
  /\ auto_converged_at \in 0..batch \cup {None}
  /\ shown \in [n_active : Nat, k_sum : Nat]

\* The first batches, up to the one at whose end the source converged, do not count,
\* and from there on every batch does; without a detector that is `inactive` batches.
ActiveAfterConvergence ==
  \A i \in 1..batch :
    results[i].active <=>
      IF Adaptive THEN auto_converged_at # None /\ i > auto_converged_at
      ELSE i > Inactive

\* The sites the active batches banked, one by one.
ActiveSites == UNION {{i} \X (1..results[i].sites) : i \in ActiveResults}

\* The run reports the mean over exactly the batches it calls active, and so do
\* the statepoint and the sums it is made from, whenever convergence was found.
KIsActiveMean ==
  /\ k_count = Cardinality(ActiveResults)
  /\ k_sum = Cardinality(ActiveSites)
  /\ outcome # None =>
       /\ outcome.k_count = k_count /\ outcome.k_sum = k_sum
       /\ outcome.statepoint # None => outcome.statepoint.n_active = k_count

Larger(a, b) == IF a > b THEN a ELSE b

\* The last batch that may be inactive, whatever the entropies do.
LastInactive ==
  IF Adaptive THEN Larger(1, Larger(Detector.min_inactive, Detector.max_inactive))
  ELSE Inactive

\* The detector has min_inactive batches and, to see a plateau, a full window behind
\* it; and max_inactive batches are enough, so that a longer run never ends with the
\* k_eff of 0.0 that stands for no active batch.
ConvergenceInBounds ==
  /\ auto_converged_at # None =>
       /\ auto_converged_at >= Detector.min_inactive
       /\ auto_converged_at >= Detector.window \/ auto_converged_at >= Detector.max_inactive
  /\ outcome # None => outcome.k_count >= Batches - LastInactive

\* progress.rs:7: the bar shows the "running k_eff" of the run, the mean of the same
\* batches (simulate.rs:33-34: auto_inactive "Overrides `inactive`").
ProgressShowsK == shown = [n_active |-> k_count, k_sum |-> k_sum]

\* With a fixed number of inactive batches the bar, which keeps a count and a sum of
\* its own, and the run agree after every batch, on either backend.
ProgressFixed == Detector = None => ProgressShowsK
=============================================================================
