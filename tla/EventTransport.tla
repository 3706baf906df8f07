--------------------------- MODULE EventTransport ---------------------------
(***************************************************************************)
(* One eigenvalue batch on the device: transport_recursive_with_buffers of *)
(* gpu_recursive.rs and the kernels it launches, step after step, from     *)
(* gpu/cuda/transport_event_based.cu.                                      *)
(*                                                                         *)
(* A kernel is a set of threads (todo) that run in any order, one action   *)
(* each: what they share are counters they advance atomically.  Kernels    *)
(* of one stream run one after the other, so the host launches the next    *)
(* when todo is empty.  A slot of the particle arrays holds a neutron; a   *)
(* traced neutron that collides leaves an event, a (reaction class, bin)   *)
(* number; a counting sort turns the events into sorted, from which the    *)
(* reaction kernels find their neutrons.  Dead slots are filled again from *)
(* the refill pool and from the bank of (n,2n) and (n,3n) secondaries.     *)
(* Cross sections, geometry and random numbers are open choices.           *)
(***************************************************************************)
EXTENDS Integers, FiniteSets

CONSTANTS
  Modes,       \* the configurations to check, see EventAssumption
  N,           \* particles per batch: slots, and entries of the secondary bank
  Bins,        \* EB_N_SUB_BINS: (nuclide, energy) bins of a reaction class
  BankCap,     \* fis_capacity
  MaxNu,       \* sites of one fission
  MaxSteps,    \* max_events_per_history
  CursorMax,   \* the largest int
  Batches

\* A mode says whether survival biasing is on, the entries of the refill pool (none:
\* no refill) and where secondaries go: P_NXN_MODE.
ASSUME EventAssumption ==
  /\ {N, Bins, Batches} \subseteq Nat \ {0}
  /\ {BankCap, MaxNu, MaxSteps, CursorMax} \subseteq Nat
  /\ \A m \in Modes : /\ m.biased \in BOOLEAN /\ m.pool \in Nat
                      /\ m.nxn \in {"ingen", "bank", "drop"}

VARIABLES
  mode, batch, step,
  kernel,     \* the kernel that runs; "drained": nothing collided; "spent": MaxSteps
  todo,       \* its threads that have not run
  alive,      \* d_alive
  event,      \* d_event_type and d_event_ebin of each slot, or NoEvent
  count,      \* d_type_count
  offset,     \* d_type_offsets
  placed,     \* d_type_scatter
  sorted,     \* d_sorted_idx
  dev,        \* the device counters
  bank,       \* the fission bank: the batch that wrote each entry
  who,        \* history: the neutron in each slot
  begun,      \* history: the neutrons of this batch that were given a slot
  rouletted,  \* history: neutrons killed by roulette, which nothing counts
  spare       \* history: slots the last injection left without a secondary

sortvars == <<count, offset, placed, sorted>>
history == <<who, begun, rouletted, spare>>
vars == <<mode, batch, step, kernel, todo, alive, event, sortvars, dev, bank, history>>

Slot == 1..N
NoEvent == -1
Elastic == 0   Inelastic == 1   Fission == 2   N2N == 3   N3N == 4
Queues == 0..(5 * Bins - 1)
Class(e) == e \div Bins
Over == kernel \in {"drained", "spent"}
Live == {s \in Slot : alive[s]}

\* A neutron is a source neutron, an entry of the pool or of the secondary bank.
Neutron(kind, i) == [kind |-> kind, i |-> i]

Zeroed == [leak |-> 0, capture |-> 0, fissions |-> 0, sites |-> 0, next |-> 0,
           refilled |-> 0, secWrite |-> 0, secRead |-> 0]

-----------------------------------------------------------------------------
(***************************************************************************)
(* The host.                                                               *)
(***************************************************************************)
\* Mutant: the read cursor of the batch before is kept.
StartOfBatchUnzeroed ==
  /\ step' = 0 /\ kernel' = "init" /\ todo' = Slot
  /\ alive' = [s \in Slot |-> TRUE]
  /\ dev' = [Zeroed EXCEPT !.secRead = dev.secRead]
  /\ who' = [s \in Slot |-> Neutron("source", s)]
  /\ begun' = {Neutron("source", s) : s \in Slot}
  /\ rouletted' = 0 /\ spare' = 0

\* What is uploaded and set to zero before the first step.  The arrays of the sort are
\* those the batch before has left.
StartOfBatch ==
  /\ step' = 0 /\ kernel' = "init" /\ todo' = Slot
  /\ alive' = [s \in Slot |-> TRUE]
  /\ dev' = Zeroed
  /\ who' = [s \in Slot |-> Neutron("source", s)]
  /\ begun' = {Neutron("source", s) : s \in Slot}
  /\ rouletted' = 0 /\ spare' = 0

Init ==
  /\ mode \in Modes
  /\ batch = 1 /\ step = 0 /\ kernel = "init" /\ todo = Slot
  /\ alive = [s \in Slot |-> TRUE]
  /\ event = [s \in Slot |-> NoEvent]
  /\ count = [q \in Queues |-> 0] /\ placed = [q \in Queues |-> 0]
  /\ offset = [q \in 0..(5 * Bins) |-> 0]
  /\ sorted = [i \in 0..(N - 1) |-> 1]
  /\ dev = Zeroed
  /\ bank = [i \in 0..(BankCap - 1) |-> 0]
  /\ who = [s \in Slot |-> Neutron("source", s)]
  /\ begun = {Neutron("source", s) : s \in Slot}
  /\ rouletted = 0 /\ spare = 0

NextBatch ==
  /\ Over /\ batch < Batches
  /\ batch' = batch + 1
  /\ StartOfBatch
  /\ UNCHANGED <<mode, event, sortvars, bank>>

Launch(k, threads) ==
  /\ kernel' = k /\ todo' = threads
  /\ UNCHANGED <<mode, batch, step, alive, event, sortvars, dev, bank, who, begun, rouletted>>

\* The kernels of one step in the order of the launches.  The loop is left at its bound
\* and when no neutron collided.
AfterStep(k) ==
  /\ kernel' = IF step = MaxSteps THEN "spent" ELSE k
  /\ todo' = IF step = MaxSteps THEN {} ELSE Slot
  /\ step' = IF step = MaxSteps THEN step ELSE step + 1
  /\ UNCHANGED <<mode, batch, alive, event, sortvars, dev, bank, history>>

Total(c) == offset[(c + 1) * Bins] - offset[c * Bins]
ClassRange(c, d) == offset[c * Bins]..(offset[(d + 1) * Bins] - 1)

LaunchNext ==
  /\ todo = {} /\ ~ Over
  /\ \/ kernel \in {"init", "inject"} /\ AfterStep("trace")
     \/ kernel = "trace" /\ Launch("scan", {1}) /\ UNCHANGED spare
     \/ kernel = "scan" /\ offset[5 * Bins] = 0 /\ Launch("drained", {}) /\ UNCHANGED spare
     \/ kernel = "scan" /\ offset[5 * Bins] # 0 /\ Launch("partition", Slot) /\ UNCHANGED spare
     \/ /\ kernel = "partition" /\ UNCHANGED spare
        /\ Launch("fission", IF mode.biased THEN {} ELSE ClassRange(Fission, Fission))
     \/ kernel = "fission" /\ Launch("multi", ClassRange(N2N, N3N)) /\ UNCHANGED spare
     \/ /\ kernel = "multi" /\ UNCHANGED spare
        /\ Launch("refill", IF mode.pool = 0 THEN {} ELSE Slot)
     \/ kernel = "refill" /\ mode.nxn = "ingen" /\ Launch("inject", Slot) /\ spare' = 0
     \/ kernel = "refill" /\ mode.nxn # "ingen" /\ AfterStep("trace")

Run(k, t) ==
  /\ kernel = k /\ t \in todo
  /\ todo' = todo \ {t}
  /\ UNCHANGED <<mode, batch, step, kernel>>

-----------------------------------------------------------------------------
(***************************************************************************)
(* The kernels.                                                            *)
(***************************************************************************)
Kill(s) == alive' = [alive EXCEPT ![s] = FALSE]

\* Mutant: the index is read after the counter was advanced.
BankedOneLate(k) ==
  bank' = [i \in DOMAIN bank |->
             IF i \in (dev.sites + 1)..(dev.sites + k) THEN batch ELSE bank[i]]

\* atomicAdd(fis_count, 1) for each of k sites; those beyond the capacity are not kept.
Banked(k) ==
  bank' = [i \in DOMAIN bank |-> IF i \in dev.sites..(dev.sites + k - 1) THEN batch ELSE bank[i]]

\* gr_init_stacks: a source neutron outside every cell leaks.
InitStack(s) ==
  /\ Run("init", s)
  /\ \/ UNCHANGED <<alive, dev>>
     \/ Kill(s) /\ dev' = [dev EXCEPT !.leak = @ + 1]
  /\ UNCHANGED <<event, sortvars, bank, history>>

TraceDead(s) ==
  /\ Run("trace", s) /\ ~ alive[s]
  /\ event' = [event EXCEPT ![s] = NoEvent]
  /\ UNCHANGED <<alive, sortvars, dev, bank, history>>

\* The neutron crosses surfaces until it leaves the geometry.
TraceLeak(s) ==
  /\ Run("trace", s) /\ alive[s]
  /\ Kill(s)
  /\ event' = [event EXCEPT ![s] = NoEvent]
  /\ dev' = [dev EXCEPT !.leak = @ + 1]
  /\ UNCHANGED <<sortvars, bank, history>>

\* What a collision banks in place: nothing, unless survival biasing spreads fissions
\* over all collisions.
SitesAtCollision == IF mode.biased THEN 0..MaxNu ELSE {0}

AtCollision(k) ==
  /\ Banked(k)
  /\ dev' = [dev EXCEPT !.sites = @ + k, !.fissions = @ + IF k > 0 THEN 1 ELSE 0]

\* Analog capture; with survival biasing, a collision that cannot scatter.
TraceCapture(s) ==
  /\ Run("trace", s) /\ alive[s]
  /\ Kill(s)
  /\ event' = [event EXCEPT ![s] = NoEvent]
  /\ \E k \in SitesAtCollision :
       /\ Banked(k)
       /\ dev' = [dev EXCEPT !.sites = @ + k, !.capture = @ + 1,
                             !.fissions = @ + IF k > 0 THEN 1 ELSE 0]
  /\ UNCHANGED <<sortvars, history>>

\* Mutant: the neutron is counted for a reaction class and then killed.
TraceRouletteAfterCount(s) ==
  /\ mode.biased
  /\ Run("trace", s) /\ alive[s]
  /\ Kill(s)
  /\ event' = [event EXCEPT ![s] = NoEvent]
  /\ count' = [count EXCEPT ![Elastic * Bins] = @ + 1]
  /\ \E k \in SitesAtCollision : AtCollision(k)
  /\ rouletted' = rouletted + 1
  /\ UNCHANGED <<offset, placed, sorted, who, begun, spare>>

TraceRoulette(s) ==
  /\ mode.biased
  /\ Run("trace", s) /\ alive[s]
  /\ Kill(s)
  /\ event' = [event EXCEPT ![s] = NoEvent]
  /\ \E k \in SitesAtCollision : AtCollision(k)
  /\ rouletted' = rouletted + 1
  /\ UNCHANGED <<sortvars, who, begun, spare>>

Reactions == {Elastic, Inelastic, N2N, N3N} \cup IF mode.biased THEN {} ELSE {Fission}

TraceCollide(s) ==
  /\ Run("trace", s) /\ alive[s]
  /\ \E e \in Queues :
       /\ Class(e) \in Reactions
       /\ event' = [event EXCEPT ![s] = e]
       /\ count' = [count EXCEPT ![e] = @ + 1]
  /\ \E k \in SitesAtCollision : AtCollision(k)
  /\ UNCHANGED <<alive, offset, placed, sorted, history>>

\* The events counted for the queues before q: their number is the sum of the counts.
Before(q) == UNION {{p} \X (1..count[p]) : p \in 0..(q - 1)}

\* gr_scan_offsets, one thread.
Scan ==
  /\ Run("scan", 1)
  /\ offset' = [q \in DOMAIN offset |-> Cardinality(Before(q))]
  /\ count' = [q \in Queues |-> 0]
  /\ placed' = [q \in Queues |-> 0]
  /\ UNCHANGED <<alive, event, sorted, dev, bank, history>>

PartitionSkip(s) ==
  /\ Run("partition", s) /\ (event[s] = NoEvent \/ ~ alive[s])
  /\ UNCHANGED <<alive, event, sortvars, dev, bank, history>>

Partition(s) ==
  /\ Run("partition", s) /\ event[s] # NoEvent /\ alive[s]
  /\ placed' = [placed EXCEPT ![event[s]] = @ + 1]
  /\ sorted' = [sorted EXCEPT ![offset[event[s]] + placed[event[s]]] = s]
  /\ UNCHANGED <<alive, event, count, offset, dev, bank, history>>

\* gr_elastic_event and gr_inelastic_event change directions and energies only.
\* gr_fission_event, thread i:
FissionEvent(i) ==
  /\ Run("fission", i)
  /\ \E k \in 0..MaxNu :
       /\ Banked(k)
       /\ dev' = [dev EXCEPT !.sites = @ + k, !.fissions = @ + 1]
  /\ Kill(sorted[i])
  /\ UNCHANGED <<event, sortvars, history>>

\* gr_multi_event, thread i: the primary flies on.
MultiEvent(i) ==
  /\ Run("multi", i)
  /\ LET extra == IF Class(event[sorted[i]]) = N2N THEN 1 ELSE 2 IN
       CASE mode.nxn = "ingen" -> /\ dev' = [dev EXCEPT !.secWrite = @ + extra]
                                  /\ UNCHANGED bank
         [] mode.nxn = "bank"  -> /\ Banked(extra)
                                  /\ dev' = [dev EXCEPT !.sites = @ + extra]
         [] mode.nxn = "drop"  -> UNCHANGED <<dev, bank>>
  /\ UNCHANGED <<alive, event, sortvars, history>>

\* Neutron x takes slot s, where it lives if the geometry has a cell for it.
Occupy(s, x, counters, inside) ==
  /\ alive' = [alive EXCEPT ![s] = inside]
  /\ event' = [event EXCEPT ![s] = NoEvent]
  /\ dev' = [counters EXCEPT !.leak = @ + IF inside THEN 0 ELSE 1]
  /\ who' = [who EXCEPT ![s] = x]
  /\ begun' = begun \cup {x}

Leaves(k, s) ==
  /\ Run(k, s)
  /\ UNCHANGED <<alive, event, who, begun>>

\* gr_refill_dead: every dead slot advances the cursor, an int that wraps around.
Advanced == [dev EXCEPT !.next = IF @ = CursorMax THEN - CursorMax - 1 ELSE @ + 1]

RefillNothing(s) ==
  /\ Leaves("refill", s)
  /\ \/ alive[s] /\ UNCHANGED dev
     \/ ~ alive[s] /\ dev.next >= mode.pool /\ dev' = Advanced
  /\ UNCHANGED <<sortvars, bank, rouletted, spare>>

\* Mutant: a neutron that leaks as it is placed is no history.
RefillUncounted(s) ==
  /\ Run("refill", s) /\ ~ alive[s] /\ dev.next < mode.pool
  /\ \E inside \in BOOLEAN :
       Occupy(s, Neutron("pool", dev.next),
              [Advanced EXCEPT !.refilled = @ + IF inside THEN 1 ELSE 0], inside)
  /\ UNCHANGED <<sortvars, bank, rouletted, spare>>

Refill(s) ==
  /\ Run("refill", s) /\ ~ alive[s] /\ dev.next < mode.pool
  /\ \E inside \in BOOLEAN :
       Occupy(s, Neutron("pool", dev.next), [Advanced EXCEPT !.refilled = @ + 1], inside)
  /\ UNCHANGED <<sortvars, bank, rouletted, spare>>

\* Mutant: a dead slot claims with atomicAdd and looks afterwards.
InjectNothingAdvancing(s) ==
  /\ Leaves("inject", s)
  /\ \/ alive[s] /\ UNCHANGED <<dev, spare>>
     \/ /\ ~ alive[s] /\ dev.secRead >= dev.secWrite
        /\ spare' = spare + 1
        /\ dev' = [dev EXCEPT !.secRead = @ + 1]
  /\ UNCHANGED <<sortvars, bank, rouletted>>

\* gr_inject_secondaries: the cursor moves by compare-and-swap, never past secWrite.
InjectNothing(s) ==
  /\ Leaves("inject", s)
  /\ \/ alive[s] /\ UNCHANGED spare
     \/ ~ alive[s] /\ dev.secRead >= dev.secWrite /\ spare' = spare + 1
  /\ UNCHANGED <<sortvars, dev, bank, rouletted>>

\* Mutant: the cursor is read and not moved.
InjectPeeking(s) ==
  /\ Run("inject", s) /\ ~ alive[s] /\ dev.secRead < dev.secWrite
  /\ \E inside \in BOOLEAN : Occupy(s, Neutron("secondary", dev.secRead), dev, inside)
  /\ UNCHANGED <<sortvars, bank, rouletted, spare>>

Inject(s) ==
  /\ Run("inject", s) /\ ~ alive[s] /\ dev.secRead < dev.secWrite
  /\ \E inside \in BOOLEAN :
       Occupy(s, Neutron("secondary", dev.secRead), [dev EXCEPT !.secRead = @ + 1], inside)
  /\ UNCHANGED <<sortvars, bank, rouletted, spare>>

Trace(s) ==
  TraceDead(s) \/ TraceLeak(s) \/ TraceCapture(s) \/ TraceRoulette(s) \/ TraceCollide(s)

Thread(s) ==
  \/ InitStack(s) \/ Trace(s) \/ PartitionSkip(s) \/ Partition(s)
  \/ RefillNothing(s) \/ Refill(s) \/ InjectNothing(s) \/ Inject(s)

Next ==
  \/ NextBatch \/ LaunchNext \/ Scan
  \/ \E s \in Slot : Thread(s)
  \/ \E i \in 0..(N - 1) : FissionEvent(i) \/ MultiEvent(i)

Spec == Init /\ [][Next]_vars

-----------------------------------------------------------------------------
Counters == DOMAIN Zeroed

TypeOK ==
  /\ mode \in Modes /\ batch \in 1..Batches /\ step \in 0..MaxSteps
  /\ todo \subseteq 0..N
  /\ alive \in [Slot -> BOOLEAN]
  /\ event \in [Slot -> Queues \cup {NoEvent}]
  /\ {count, placed} \subseteq [Queues -> 0..N]
  /\ offset \in [0..(5 * Bins) -> 0..N]
  /\ sorted \in [0..(N - 1) -> Slot]
  /\ \A c \in Counters \ {"next"} : dev[c] \in Nat
  /\ dev.next \in (- CursorMax - 1)..CursorMax
  /\ bank \in [0..(BankCap - 1) -> 0..batch]

\* The counting sort gives every collision of a step to the kernel of its class once:
\* when the reaction kernels start, the range of a class in d_sorted_idx lists, without
\* repetition, the live slots whose event is of that class (gr_trace_and_sample counts
\* them, gr_scan_offsets sums, gr_partition places).
EachCollisionOnce ==
  kernel = "partition" /\ todo = {} =>
    \A c \in 0..4 :
      /\ {sorted[i] : i \in ClassRange(c, c)} = {s \in Live : Class(event[s]) = c}
      /\ Cardinality(ClassRange(c, c)) = Cardinality({s \in Live : Class(event[s]) = c})

\* No neutron vanishes and none is counted twice: the source neutrons, the refills and
\* the injected secondaries are those alive and those that leaked, were captured,
\* caused fission or lost a roulette (which no device counter records).
Accounted ==
  N + dev.refilled + dev.secRead =
    Cardinality(Live) + dev.leak + dev.capture + rouletted
    + IF mode.biased THEN 0 ELSE dev.fissions

\* total_histories, the denominator of k, is the number of source histories begun:
\* refilled counts the entries taken from the pool, those that leak at once included
\* and no claim of a drained pool, and no secondary.
HistoriesCounted ==
  N + dev.refilled = Cardinality({x \in begun : x.kind # "secondary"})

\* An entry of the pool or of the secondary bank is given to one slot only, and once
\* in a batch: the cursors hand out each index at most once.
NobodyBeginsTwice == [][\A s \in Slot : who'[s] # who[s] => who'[s] \notin begun \/ batch' # batch]_vars

\* The host reads min(fis_count, fis_capacity) sites, and each was written in this batch.
BankWhole ==
  Over =>
    \A i \in DOMAIN bank : i < dev.sites => bank[i] = batch

\* The cursor of the secondaries never outruns what was written, so that a batch that
\* ends because nothing collides has transported every secondary, unless at the last
\* injection every slot was taken (transport_event_based.cu:1636-1641).
NoOrphans ==
  kernel = "drained" /\ spare > 0 => dev.secRead = dev.secWrite

\* What the same comment says and the bound of the bank, sec_cap, does not give:
\* an injected secondary was written.
InjectsWritten == \A x \in begun : x.kind = "secondary" => x.i < N
=============================================================================
