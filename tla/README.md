# A verification project for open_rust_mc

open_rust_mc is a Monte Carlo neutron and photon transport code (one Rust crate,
`src/rust_prototype`, about 89,000 lines) with CPU and CUDA backends. These are TLA+
modules that model its control: the caches that bring nuclear data to the
workers, the life of a neutron and of a photon, the way through the geometry, the
parallel batch, the event queues of the device and the power iteration. TLC checks
them on small instances, and TLAPS proves the safety properties of those runs for
every value of the constants. Paths below are relative to `src/rust_prototype/src`;
`EB` stands for `gpu/cuda/transport_event_based.cu` beside it.

To check: `tlc -config <run>.cfg <module>.tla` for each run of section 3 and
`tlapm <module>.tla` for the eight `...Proofs` modules.

## 1. Inventory

| Component | State | Operations | Interacts with |
|---|---|---|---|
| Eviction policy, L1 (`transport/nuclide_cache/eviction.rs`, `l1_memory.rs`) | map of entries with bytes, hits, last touch and preload weight; byte total; access counter; process-wide stash of preload weights | `try_get`, `put` (evicting), `set_preload_weights` | called by every worker under one mutex; the policy is shared with the device caches |
| L2 disk (`l2_disk.rs`, `binary_format.rs`) | a directory of `<name>.nuc` and `<name>.tmp` | `try_get`, `put` | shared by processes without any lock; the daemon persists the same way |
| Tiers and key (`mod.rs`, `key.rs`) | the three tiers, `CacheStats` | `get_or_load`, tier walk with write-back, `put` to all | the file is hashed for the key and read again by the loader |
| L3 client, protocol, daemon (`l3_remote.rs`, `wire_protocol.rs`, `bin/nuclide_cache_server.rs`) | peers; the daemon's map and directory | GET (first hit wins), PUT (to all), persist, preload | TCP with time-outs; a daemon may restart |
| Device caches (`gpu_transport.rs`) | two caches with byte totals under a mutex each, one shared cap | look up, read budget, evict, transfer, insert, clear | keys are host addresses of Arcs that L1 hands out |
| Neutron history (`transport/simulate.rs`, `particle.rs`, `weight_window.rs`, `physics/collision.rs`) | the particle, the stack of pending ones, an event budget, result counters | step, collision dispatch, split, roulette | run by the batch; feeds the fission bank |
| Photon history (`photon/transport.rs`, `photoelectric.rs`, `electron.rs`, callers) | the photon, bank, open vacancies, two ledgers of deposits; the caller's photons, electron and tallies | collision, relaxation cascade, window, electron steps, tallying | electrons radiate photons that the caller follows in turn |
| Geometry (`geometry/`) | coordinate stacks over universes and lattices | find cell, trace, cross, reflect | the histories, the rays |
| Random ray solver (`random_ray/`) | rays, flat source regions, their tallies | sweep, dead and active length, immortal rays | the geometry |
| Batch (`simulate.rs` fold and reduce, `tally.rs`) | one accumulator per rayon piece, recycled scratch | fold a history, reduce two pieces | gives bank and tallies to the power iteration |
| Power iteration (`simulate.rs`, `dispatch.rs`, `progress.rs`, `statepoint.rs`) | batch number, source bank, entropies, convergence, running k | batch, convergence test, bank resampling, end of run | CPU and CUDA runners implement it twice |
| Recursive GPU transport (`gpu_recursive.rs`, `gpu_per_nuclide.rs`, `EB`) | slots, event queues, refill pool, secondary and fission banks, counters | trace, counting sort, reaction kernels, refill, injection | driven by CudaRunner |
| Depletion, kinetics, adjoint | their own solvers | | sequential and numerical |
| Data readers, cross sections, scattering physics, hardware profile, random numbers, programs and bindings | | | numerics and I/O |

What is hard here, and what correctness means, by component:

* **L1**: accounting with saturating arithmetic, an eviction loop that must stop,
  and a policy that must hold over all rounds. *Bytes exact; within budget; evict the
  coldest, no more than needed; a lossy store to its callers; the loop ends.*
* **L2**: lock-free sharing of names, truncation of a file another process writes,
  removal of a name another has re-linked, crashes, unsynced data. *A decoded entry is
  one whole, current kernel; only a race or a power loss can publish a torn one.*
* **Tiers**: the hash is of one reading of the file and the kernels of another, in a call
  and in a daemon's preload; each tier forgets and daemons come and go. *A key names its content in every tier; the
  answer is the loader's; counters balance; every call returns.*
* **Device caches**: budgets are read outside the lock they are used under, two workers
  upload the same nuclide, addresses are re-used. *Totals exact; each cache within
  the cap; device data is that of the nuclide resolved.*
* **Neutron history**: reactions, biasing, roulette and windows act on one weight in
  sequence; early exits; splitting while the stack is drained. *All neutrons accounted
  for; expected weight preserved; the history ends.*
* **Photon history**: energy changes hands along long chains, and each cut-off on the
  way must put it somewhere; two ledgers are kept. *Energy balances; the ledgers agree;
  splitting and roulette are fair; the history ends.*
* **Geometry and rays**: a stack of local positions must stay in agreement through
  crossings, mirrors, rotations, grids and overrides; ties of surfaces and grid planes.
  *The stack leads to the cell one is in; mirrors keep; no step jumps a material; rays
  tally where they fly.*
* **Batch**: rayon may split and join a range in any way; scratch is recycled. *The
  bank is in source order and each history tallied once, whatever the schedule.*
* **Device batch**: three kernels agree on one count, two kinds of cursor hand out
  refills and secondaries, banks overflow. *Each collision goes to one thread of its
  class; neutrons are accounted for; what the host reads was written; nothing is handed
  out twice or left behind; k is divided by the histories begun.*
* **Power iteration**: off-by-ones around the batch that converges; two backends. *The
  active batches are exactly those after convergence; k is their mean; convergence is
  declared within the bounds.*

`PROJECT.json` lists the components (also those left out, with reasons), every
hazard at its line, and the code each definition models.

## 2. Modules

| Module | Models | Correspondence |
|---|---|---|
| `Eviction` | `eviction.rs` | `Victims` is what one round of `evict_to_budget` may pick, `MustEvict` its loop condition. Scores are compared as exact fractions: `score = weight / (1 + age / AgeWindow)`; the float rounding of near ties is not modelled |
| `LossyStore` | trait `NuclideStore` | abstract: a map that may lose entries and never invents one |
| `L1Memory` | `L1MemoryStore` | each method is one step (it holds the mutex), except `put`: `PutBegin`, one `PutEvict` per round, `PutInsert`; `putting` is the held mutex |
| `DiskStore` | `L2DiskStore` and the daemon's `persist_put` for one name | inodes, names, descriptors and offsets with POSIX semantics; one system call per action (`PutCreate`, `PutWrite`, `PutRename`, `PutCleanup`, `GetOpen`, `GetRead`, `GetDecode`, `GetRemove`), every failure branch, `Crash`, `PowerLoss` |
| `KernelSource` | what `get_or_load` is for | abstract: an answer is the parse of a content the file had during the call |
| `TieredStore` | `get_or_load`, `TieredStore`, L3 client, daemon | one action per tier access; between two of them anything may happen; PUTs are messages a daemon persists, inserts or never gets. A daemon that restarts preloads before it listens: it hashes the file (`PreloadHashes`), and later parses, persists and inserts (`PreloadInserts`) |
| `GpuBufferCache` | the two caches of `GpuTransportContext`, and the heap addresses | one action per critical section; budget reads, transfers and insertions are separate steps |
| `History` | `transport_particle`, `transport_particle_delta`, `dispatch_real_collision`, `weight_window::apply` | one action per way through the loop body; `mode` is the configuration |
| `PhotonHistory` | `transport_one`, `transport_one_csg`, the relaxation cascade, and the callers' loop over deposits and electrons | one action per way through the loops; vacancies are relaxed one per step; energies are integers, shells a well-founded order of energies, weights a set closed under the window's divisions |
| `Geometry` | `find_cell_recursive`, `trace_step_recursive`, cells, universes, lattices | operators only, on a line of integer positions: surfaces at even ones, neutrons at odd ones, the nudge is one unit, a rotation is `x -> -x`. The loop of the search is the function `Levels`, what is found at each depth. `WellFormed` says what a scene must be: references hold, borders enclose the root, no gap and no overlap where it is entered |
| `RayTrace` | the boundary arms of `transport_particle` and `transport_particle_delta`, births | one action per way of a step: `Stream` (void), `Cross`, `Collide`, `DeltaStep`, `Pop`; `mode` is scene and tracker |
| `RandomRay` | the sweep of `random_ray/solver.rs` and `fsr.rs` | extends `RayTrace`: rays walk by its tracer (`ToBoundary`, `ToPhaseEnd`, `NextRay`) and tally positions to regions |
| `BatchTransport` | `worker_init`, `fold_one`, `reduce_op` under rayon | a piece is a sub-range with its accumulator; `Split`, `FoldNext`, `EndFold`, `Join` in any order |
| `EventTransport` | `transport_recursive_with_buffers` and its kernels | a kernel is a set of threads that run in any order, one action each; the host launches the next when none is left |
| `PowerIteration` | `run_eigenvalue_with_geometry`, `CudaRunner::run` | one action per batch and one for the end of the run; `config` is backend and SimConfig |
| `MC...` | | constants for TLC |
| `ByteCacheProofs` | | theorems about the caches that count bytes: `L1Memory` and `GpuBufferCache` |
| `DiskStoreProofs`, `TieredStoreProofs`, `HistoryProofs`, `PhotonHistoryProofs`, `EventTransportProofs` | | theorems about the module of that name |
| `EigenvalueProofs` | | theorems about the host's eigenvalue run: `BatchTransport` and `PowerIteration` |
| `RayProofs` | | theorems about `RandomRay`, which holds the steps of `RayTrace` and the operators of `Geometry` |

How they compose: `L1Memory` implements `LossyStore` through a refinement mapping
(`Visible`). `TieredStore` uses tiers that keep that promise (maps whose entries
may go) and `DiskStore` justifies it for the files; `TieredStore` implements
`KernelSource`. `GpuBufferCache` takes the tiered cache as a map of Arcs that may
be dropped, and `Eviction` as "some set that had to go". `RandomRay` composes the sweep
with the tracer. `PowerIteration` takes a batch as its number of sites, which
`BatchTransport` builds from histories on the host and `EventTransport` on the device.

Abstractions worth knowing: all three tiers are configured in `TieredStore`, with
zero or more peers; policy and temperature are fixed, so a content stands
for a file parsed under them; an encoded entry is a few blocks that carry their kernel
and position, so the header's hash accepts exactly the unmixed ones; the keys of the
thermal cache are slot lists and not addresses; weights are integers whose divisions are
exact; k of a batch is its number of sites; whether entropies have settled, where a
neutron flies and what it hits are open choices. In `EventTransport` a thread of a kernel
is one step: what it shares with others it touches by one atomic operation.

## 3. Runs

"Pass" runs find no error; "violation" runs find a counterexample to what a
comment of the source says (`PROJECT.json`, findings).

| Run | Checks | Bounds, and why they are enough |
|---|---|---|
| `L1Memory` | `TotalBytesExact`, `WithinBudget`, `EvictsColdest`, `EvictsNoMoreThanNeeded`, `ImplementsLossyStore`, `PutEnds` | 3 keys, values of 1, 2 and 4 bytes, budget 3: replacement, one and two rounds of eviction, an oversized single entry; 4 accesses (`MaxCounter`) give distinct hits and ages |
| `Disk_races` | `HitIsFresh`, `PublishedWhole` | two puts of a 3-block and a 2-block kernel; two writers, one of them the daemon; three processes that read; 4 inodes, more than two puts can create |
| `Tiered` | `KeyNamesContent`, `StatsBalance`, `CallsEnd`, `ImplementsKernelSource` | two workers, one daemon, two contents, two calls and one replacement of the file. Mode `Quiet`: one process, a daemon that restarts and preloads, files replaced while no call and no preload reads them. Mode `Faulty`: two processes, replacement during calls, loads that fail, a daemon that may not answer. Mode `Preloading`: as `Faulty` with one call, and a daemon whose preload finds the file replaced between its hash and its parse |
| `Gpu_concurrent` | `TotalsExact`, `EachWithinCap` | two workers, two nuclides of which one is larger on the device than predicted, three addresses, cap 4: hits, races on one Arc, evictions before and after the transfer, failed transfers, hard clears |
| `Gpu_address_reuse` (violation) | `AddressNamesContent` | one worker and two addresses: the host cache forgets a nuclide, another is put at its address and hits the old device entry |
| `History` | `Accounted`, `FairUnlessMultiplying`, `HistoryEnds` | five modes (surface and delta; multiplying with and without survival biasing; biasing and windows without multiplying), 6 steps in all, 2 void steps in a row, splits up to 4: splits of splits, roulettes after splits, a spent budget with neutrons waiting; a biased collision banks up to 2 sites, enough to tell fissions from sites |
| `PhotonHistory` | `EnergyBalance`, `LedgersAgree`, `FairWeights`, `HistoryEnds` | three modes (infinite medium; heating with electrons followed through cells; shielding with a window over two voxels); an atom with a tabulated K and L shell and an untabulated valence shell, so that radiative, Auger and untabulated transitions all occur; a source photon above the pair threshold; 2 collisions and 2 electron steps, each of which may radiate another photon |
| `RayTrace` | `StackTrue`, `MirrorsKeep`, `TalliedWhereFlown`, `StaysInMaterial`, `ImmortalsStay` | eight modes over three scenes: a box with a void gap; a lattice whose outer grid planes lie on mirrors, with an override; a rotated universe beside a rotated lattice with a universe in an element, four levels deep. Surface and delta tracking, mortal and immortal rays over two batches |
| `Rays_cartesian` (violation) | `TalliedWhereFlown` | the box with voxels half a cell wide |
| `Batch_parallel` | `BankInOrder`, `TalliedOnce` | 7 histories: uneven splits three levels deep, every order of folding and joining |
| `EventTransport` | `EachCollisionOnce`, `Accounted`, `HistoriesCounted`, `BankWhole`, `NoOrphans`, `NobodyBeginsTwice` | two slots, two steps, two batches (buffers are used again), a pool of 0 to 2 entries, a bank that overflows, the three ways of secondaries, survival biasing; one bin, as the sort tells bins apart only as it does classes |
| `Power` | `ActiveAfterConvergence`, `KIsActiveMean`, `ConvergenceInBounds` | 6 batches, up to 3 sites for 2 neutrons; a detector with bounds 2 and 4 and window 3, one whose window is never full, and fixed numbers of inactive batches, on both backends |

The largest passing run, `EventTransport`, has about 776,000 distinct states.

Symmetry is used in `Disk_races` (inodes) and `Gpu_concurrent` (addresses and
workers): no definition tells two of them apart, and no liveness is checked there. `CHECK_DEADLOCK`
is on where the system cannot stop (`Batch_parallel`, the device caches); the other systems stop
when their bounded supply of accesses, calls, puts, steps or batches is used up.

Every bound on an unbounded counter is a constant with its name in the module:
`MaxCounter`, `MaxChanges` and the `calls` of a mode, `MaxEvents`, `MaxVoid`, `MaxSteps`, `MaxGames`,
`MaxPending`, `MaxSegments`, `MaxBank`, `CursorMax`, `Batches`. Of these `MaxEvents`,
`MaxVoid`, `MaxSteps`, `MaxSegments` and `Batches` are limits of the code made small, and
`CursorMax` is the largest `int`, past which the cursor wraps around.

### Fairness

* `L1Memory`: `WF_l1_vars(PutStep)`. A thread in `put` holds the mutex and waits for
  nothing but the short lock of the stash, whose holders do not wait for it.
* `TieredStore`: weak fairness of each worker's steps. A worker in a call is a running
  thread, and its socket operations end by their time-outs (500 ms to connect, 5 s for
  I/O). Nothing is assumed of daemons, files or callers.
* `History` and `PhotonHistory`: `WF_vars(Next)`. A history is a loop nothing blocks.
  `PhotonHistory!HistoryEnds` excepts windows: every copy a window splits off starts with
  an event budget of its own (section 5).

The other modules state no fairness and no liveness.

## 4. Proofs

Assumptions are those the modules state on their constants (finite sets of keys, natural
sizes, `None` outside the data), which TLC evaluates in every run. Each module shows an
invariant `IInv` (`Settled` in `RayProofs`; several that build on one another in `EventTransportProofs`) to hold
initially and to be kept by each action, and derives the theorems from it.

* **`ByteCacheProofs`**, the in-process cache — for all keys, values, sizes, budgets and
  preload maps: `L1TypeCorrect`, `L1BytesExact`, `BudgetHolds`, `ColdestEvicted`, `NoNeedlessEviction` and
  the refinement `L1IsLossyStore`. The invariant adds to the properties that the
  entry under the key being put is absent while the loop runs (else the insertion would
  count its bytes twice) and that `evicted` is empty outside a put. The bytes really held
  are counted as a set of (key, byte) cells, so that removing or inserting an entry adds
  or takes away a block of known cardinality. That a later victim is no colder than
  what stays holds because the counter, and so every score, stands still in the loop.
* **`DiskStoreProofs`** — for any number of clients, daemons, puts and kernels of any
  length: `TypeCorrect`, `HitsFresh`, `PublishedEntriesWhole`. A block names the kernel it
  is of, and so the puts it may come from. The invariant follows these puts: under the
  temporary name they are puts that no put has seen end before it began
  (`Unsuperseded`), under the published name puts that are not stale, in what a reader
  sees those its answer may come from. Then whatever decodes is of such a put. That a
  put still running is in all three sets (`RunningPut`) is what makes a late write
  harmless; a rename makes stale only what was over when its put began, which
  excludes every block of the file it renames. For the second theorem: with one put at a
  time, only one process writes, and the file under the temporary name is what it
  has written (`Undisturbed`).
* **`TieredStoreProofs`** — for all processes, workers, paths, contents and daemons:
  `TypeCorrect`, `KeysTrue`, `StatisticsBalance` and the refinement `TiersImplementSource`.
  The invariant extends the property from the tiers to what workers carry
  (`CarriesItsOwn`), to messages and late PUTs (`MessagesTrue`), and to what a call has
  seen of its file (`SeesItsFile`), and to the hashes daemons preload under. A file
  replaced while a call, or a preload that has hashed it, is about to load it is recorded in
  `torn`, and of the hashes in it nothing is claimed: that is the window the code leaves
  open, in `get_or_load` and in `eager_preload` alike. The refinement is of the modes where
  files stay readable and are replaced outside those windows only.
* **`ByteCacheProofs`**, the device caches — for all workers, nuclides, addresses, slot lists, sizes and
  caps: `TypeCorrect`, `BytesExact`, `CapHolds`. The invariant adds where a
  worker stands (`Stages`): past the resolution it has an Arc for each nuclide of its
  case, and what it uploads is of its case; and that what an Arc points to stays
  (`ArcsStayLive`), which Rust's reference counts give and the model's heap has from them. Sizes are again counted as cells;
  the budgets a worker works with may be stale, but never exceed the cap, which is all
  that `CapHolds` needs.
* **`HistoryProofs`** — for all modes, event budgets, windows and splits: `TypeCorrect`,
  `NobodyLost`, `FairGames`. In `NobodyLost` the fissions a neutron survives, which only
  survival biasing has, are counted apart: one for a collision, however many sites it banks. The invariant types the neutrons (those waiting are alive and
  have positive weight), conserves their number with or without survival biasing, and says `w = due` of each where
  no reaction multiplies. The window lemmas show that a split into n copies,
  and a roulette survived at `survive`, change the weight as the expectation asks. Where a
  division of integers does not come out, weight and due are rounded alike; the constants of
  the run are chosen so that it does.
* **`PhotonHistoryProofs`** — for all modes, atoms, thresholds, voxels, weights and
  budgets: `TypeCorrect`, `EnergyBalanced`, `LedgersEqual`, `WeightsFair`. The energy of a
  list is counted, like the bytes of L1, as the cardinality of a set of (entry, quantum) cells,
  so that a push, a pop or an append adds or takes away a block of known size, and
  no induction over the list is needed (`QuantaPush`, `QuantaJoin` and their kin). `EnergyBalance`
  is not inductive by itself: a step out of a phase gives up what the phase holds, so `Phases`
  says what each leaves behind (an empty bank when the caller has its turn, no electron
  outside `"electron"`, a weight the window can divide on all that may be followed). From
  `LedgersAgree` follows that the caller, who reads one ledger, gets the energy of the other.
  `WeightAssumption` is what makes integer weights exact: the weights a mode starts from
  can be divided by every split and roulette of the window.
* **`EigenvalueProofs`**, the batch — for every number of histories: `BatchTypeCorrect`,
  `BankOrdered`, `EveryHistoryTallied`. The inductive invariant is
  `PiecesSequential`: a piece holds what a sequential fold of its sub-range would. One
  lemma for each of `fold_one`, `reduce_op` and the identity of the reduction says that
  it keeps that.
* **`EigenvalueProofs`**, the power iteration — for every set of configurations, number of
  batches and bank size: `TypeCorrect`, `ActiveBatches`, `MeanOfActive`,
  `ConvergenceBounded`. The invariant relates the moving threshold
  `effective_inactive` to the detector: before convergence it is the
  number of batches, so that none counts, and afterwards the converging batch, which
  is at most `LastInactive`; the count of active batches is the distance to it. For the mean, the
  sites of the active batches are counted as a set of (batch, site) pairs, to which an
  active batch adds its own.
* **`EventTransportProofs`** — for all numbers of slots, bins, sites, steps and batches:
  `TypeCorrect`, `CollisionsHandedOnce`, `NeutronsAccounted`, `BankIsWhole`,
  `SecondariesTransported`; and, while `N * MaxSteps <= CursorMax`, `DenominatorCounts` and
  `HandedOutOnce`. The core is the counting sort (`SortInv`): a counter holds the events
  of the threads that have run, the offset of a queue is the number of slots with an
  event for an earlier queue, and a placed slot lies in the range of its queue, among
  the places the queue has given out. When all are placed, counting makes the range of a
  class list its slots without repetition. `RefillInv` bounds the cursor by the
  threads that can have advanced it; without the bound the two theorems are false,
  as section 5 says.

* **`RayProofs`** — for every set of modes over well-formed scenes, of whatever depth of
  nesting, rotations, lattices and overrides, and all numbers of rays, batches and segments:
  `StackIsTrue`, `FlightsStayInMaterial`, `MirrorsKeepNeutrons`, `TalliesAreFlown`,
  `ImmortalRaysStay`. The invariant is `Settled`: the stack of a neutron is what a
  search finds at its position or, on a mirror that has just turned it, one unit ahead of it; so
  it is for the neutrons that wait and for rays at rest. The way there:
  - the search and the local coordinates are recursive functions. The library's theorem that
    such functions are what their definition says takes an operator as a parameter, which the
    provers cannot instantiate; `LocalPosEq`, `LocalDirEq` and `LevelsEq` show it
    of these three, by induction over a set of naturals (`SetInduction`);
  - a search ends at one depth (`EndsUnique`), and the frames of the stack lead from each
    cell to the next (`StackFacts`, `ChainFacts`, `FoundLocal`);
  - local positions move with the world one, each level at its own sign (`LocalMoves`);
  - a surface of a cell on the stack that lies ahead is a hit, and a distance short of the first
    hit leaves each cell and lattice element on the stack as it was (`SurfaceHitFacts`,
    `GridHitFacts`, `InsideKept`), so that a search there finds the same stack (`SameCells`,
    `SameStack`); a step therefore passes nothing the stack does not know of;
  - there is always a hit (`SomeHit`): between the borders some cell of the root ends; and
    where a grid plane or an inner surface lies on a border, the hit is the border's
    (`BorderHit`, `CrossFacts`), as the ties of `trace_step_recursive` go to the surface and to
    the level met first.

  What `WellFormed` asks is what `geometry/` takes for granted and nothing in it tests.
  Further hypotheses say where the code keeps a promise on a condition only: `EmitsFlat`, of
  all five (collisions multiply only where nothing is nested); `FliesToVacuum`, of
  `MirrorsKeepNeutrons` (no mirror for delta tracking); and `MeshFits`, of `TalliesAreFlown`
  (a region changes only where the stack does, and holds one material).
  Without each of them a property is false, as section 5 says; `MCRayTrace`
  assumes well-formed scenes and all three of the modes it runs, so TLC evaluates them.

Only model-checked: all liveness (`PutEnds`, `CallsEnd`, `HistoryEnds` twice), which is
beyond the provers used here. Every safety and action property of a passing run is a
theorem. `AddressNamesContent` is refuted by its run, and so is
`TalliedWhereFlown` for the modes that `TalliesAreFlown` leaves out.

## 5. What the source says and the code does not do

Shown by runs: `Gpu_address_reuse` and `Rays_cartesian`. The next ones are stated in the
modules and violated when checked, though no run of section 3 does so:

* `History!FairWeights` with `Modes <- MCBiased`: the secondaries of a multiplying
  reaction are born with weight one whatever their parent weighs
  (`simulate.rs:1525`), although `simulate.rs:75-77` says expectation is preserved.
* `PowerIteration!ProgressShowsK` with `Configs <- MCAdaptive`: with a detector on the CPU
  the progress bar averages over other batches than the result.
* `RayTrace!StackTrue` with `Modes <- EmittingModes`: a secondary born in a nested
  universe gets a stack of depth one (`Particle::new`, `particle.rs:32`, called at
  `simulate.rs:1525`) and flies through the wrong cells.
* `RayTrace!MirrorsKeep` with `Modes <- MirrorModes`: a delta-tracking flight that crosses
  a transmission surface first jumps to its end and, if that lies behind a mirror, counts as
  a leak (`simulate.rs:1697`; the comment at `:1657` excuses only surface tallies).
* `EventTransport!InjectsWritten` with `MaxSteps = 3`, `Batches = 1`: the counter of written
  secondaries goes past their bank (`EB:1513`) and injection reads up to the counter,
  although `EB:1641` says the cursor "never runs ahead of what's been written".
* `EventTransport!NobodyBeginsTwice` with `CursorMax = 1`, `MaxSteps = 3`, `Batches = 1`: the refill cursor is a signed int
  that every dead slot advances, and the claim is compared as signed (`EB:375`), although
  the comment above it takes precautions against just that.
* `TieredStore!KeyNamesContent` with `torn` left out of `Under`: a file replaced between
  the hash and the load puts new kernels under the old key.

Others were met while reading and modelling.

Caches:

* `eviction.rs:16` and the comment at `:215` describe a recency tie-break; entries without
  hits or weight score zero at any age (`Eviction!ScoreBelow`).
* `nuclide_cache/mod.rs:232` says new preload weights replace the old; weights of keys the new
  map does not name stay (`L1Memory!SetPreloadWeights`).
* `gpu_transport.rs:2467` says both caches "collectively never exceed the shared cap"; a
  budget is read before the sibling grows, and no cache shrinks for its sibling
  (`GpuBufferCache!ReadPerBudget`).
* `l2_disk.rs:3` says writes are atomic; two writers share the `.tmp`, and a truncated file may
  be renamed. The header's hash keeps readers from believing it (`PublishedWhole`, `HitIsFresh`).
* `wire_protocol.rs:59` says the path is informational; the daemon's map is indexed by the
  whole key (`TieredStore!PeerAnswer`).

Histories and batches:

* `simulate.rs:1244` says the window fires after every step; a step through a void, and thermal
  scattering in delta tracking, leave the body before it (`History!SkipWindow`).
* `simulate.rs:43` says delta tracking falls back to analog; it passes the survival
  biasing on to the collision.
* `simulate.rs:34` says a detector overrides `inactive`; the CUDA runner does not look at it
  (`PowerIteration!Adaptive`).
* Seeds: `simulate.rs:2111` says each seed produces independent streams. A batch takes
  `batch + seed * 100000`, so longer runs meet the streams of the next seed, and the
  stream that resamples batch 100000 is that of the next seed's initial source; the u32 form at
  `simulate.rs:2418` overflows for seeds above 42949; on the GPU `seed * 100000 + batch * 1000`
  (`dispatch.rs:268`) makes batch 101 of seed s batch 1 of seed s+1; a resumed run with
  the same seed uses the streams of the run it continues.

Device transport:

* `total == 0` ends a batch, although a secondary may wait when all slots were alive at the
  last injection and then died without colliding (`NoOrphans` needs `spare > 0`).
* An injected secondary weighs one under survival biasing; neutrons killed by roulette are
  counted nowhere; k is estimated from the bank count after the cap.
* `gpu_recursive.rs:1807` says the refill count excludes those that start outside the geometry;
  the kernel counts them (`HistoriesCounted` relies on it). The capacity of the refill pool is
  fixed by the first run.

Photons:

* `photon/data.rs:263-268` speaks of "locally-deposited energy" for holes in untabulated
  shells; the cascade drops it, and so does Compton scattering its binding energy
  (`lost.binding`). Electrons that leak into vacuum are dropped (`lost.leaked`).
* The kinetic energy of an electron is scaled by the weight, and its range is then looked up at
  energy times weight.
* `clamp(2, max_split)` panics for a `max_split` below two, in both histories.
* Copies that a window splits off have an event budget of their own each.

Geometry and rays:

* The void limit counts a leak between mirrors, too; a source on a surface falls back to
  cell 0; the normal of a nested mirror is taken at the world position.
* `random_ray/solver.rs:444` says a region no ray visits in a batch keeps its last estimate; its
  flux is zero in that batch. Immortal rays start with a source of all zeros though the doc speaks of
  q/Sigma_t. `key_for_stack` leaves out the lattice and the outer frames, so that two copies of a
  nested universe share their regions.

Depletion (not modelled):

* `mapping.rs:52-56` recommends to list a nuclide twice when it is in two materials; `pull`
  keeps the density of the last and `push` writes it to both.
* The matrix of the corrector uses the collapsed cross sections of the beginning of the step
  (`_eoc_rr` is not used, `bin/deplete_pwr.rs:725`) although `predictor_corrector.rs:13` has
  A(N, flux) rebuilt at its end. A collapsed cross section of zero leaves the one before. A
  duplicate nuclide of a chain file hides the first.

## 6. Not modelled

* Floating-point numerics: cross sections, kinematics, intersections, sampling
  laws, matrix exponentials, fluxes of the random ray solver, tally rounding. There is nothing
  finite to check.
* File formats, readers, decomposition, command line, bindings, rendering: sequential input,
  output and linear algebra. They make up most of the lines of the repository
  and keep no state that several steps or actors could disturb, which is why the
  definitions here stand for a small part of the lines, about 7 %.
* Depletion, kinetics and the adjoint solvers: straight-line drivers of numerical kernels.
* Seeds and streams: one formula per backend over 64-bit words, which TLC's integers do not
  hold; section 5 has what follows by calculation.
* The statepoint's file: written in place by one library call, without recovery to check.
* Of geometry: curved surfaces, hexagonal lattices, the bounding-volume hierarchy, the nudges in
  floating point: the tracer looks the next stack up at `distance + 1e-10` (`ray.rs:368`) and
  the neutron moves by `distance + max(distance * 1e-8, 1e-8)` (`simulate.rs:1102`), for which
  the models have one nudge of one unit; and ties are exact, where the code has a tolerance
  for a surface against a grid plane (`ray.rs:326`).
* Leaks inside the geometry that only degenerate data bring about: a majorant of zero, a
  material index out of range, a cross section of zero (`simulate.rs:902`, `:982`, `:1610`,
  `:1790`, `:1901`).
* Random rays born outside the geometry (`solver.rs:470`, `:631`, `:714`): a scene fills the box
  rays are sampled in. A voxel's material is that of its first sample, not of its centroid.
* That the tabulated transition energies of an atom (`photoelectric.rs:130`) agree with its
  binding energies: `PhotonHistory` takes them as the differences.
* Of the device: kinematics, tallies, fixed-source and history-based kernels.
* `CacheStats::reset`, the daemon's STATS and malformed requests.

## 7. What could follow

1. `History` as the fold step of `BatchTransport`, and an abstract batch that both
   `BatchTransport` and `EventTransport` implement.
2. Rays over hexagonal lattices, whose search differs from the rectangular one in its
   element and its grid only: `GridFacts` is the lemma to prove again.
3. Device caches over the full `TieredStore` instead of a map of Arcs.
4. The history-based kernels of `gpu_transport.rs`, whose refill and bank differ from
   the event-based ones.
