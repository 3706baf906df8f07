------------------------------ MODULE History ------------------------------
(***************************************************************************)
(* One neutron history of transport/simulate.rs: transport_particle        *)
(* (surface tracking) and transport_particle_delta, with the collision     *)
(* dispatch both share (dispatch_real_collision) and the weight window     *)
(* they apply (weight_window.rs).                                          *)
(*                                                                         *)
(* A source neutron is followed step by step.  The neutrons (n,2n) and     *)
(* (n,3n) reactions emit, and the copies a weight window splits off, wait  *)
(* on a stack (`pending`) and are followed when the current one is over.   *)
(* All share one budget of steps.  Where the ray tracer, the cross         *)
(* sections and the random numbers decide, the model leaves the choice     *)
(* open; directions and energies are left out.  Weights are integers, in   *)
(* units of 1 / Unit: the values given make every division exact.          *)
(***************************************************************************)
EXTENDS Integers, Sequences, SequencesExt

CONSTANTS
  Modes,       \* the configurations to check, see Mode
  Unit,        \* the weight of a source neutron
  MaxSplit,    \* WeightWindow::max_split
  MaxEvents,   \* 1_000_000 steps (surface), 10_000 (delta)
  MaxVoid,     \* 100 consecutive void steps
  None

(***************************************************************************)
(* What a run is configured with: Woodcock delta tracking or surface       *)
(* tracking; survival biasing [min, survive], or None; the weight-window   *)
(* bounds [lo, hi, survive], or None; and materials with (n,2n) or (n,3n)  *)
(* reactions, or without.                                                  *)
(***************************************************************************)
ASSUME HistoryAssumption ==
  /\ Unit \in Nat \ {0} /\ MaxEvents \in Nat /\ MaxVoid \in Nat
  /\ MaxSplit \in Nat /\ MaxSplit >= 2
  /\ \A m \in Modes :
       /\ {m.delta, m.multiplies} \subseteq BOOLEAN
       /\ m.biasing = None \/ (m.biasing.min \in Nat /\ m.biasing.survive \in Nat \ {0})
       /\ \/ m.window = None
          \/ /\ {m.window.lo, m.window.survive, m.window.hi} \subseteq Nat \ {0}
             /\ m.window.lo < m.window.survive /\ m.window.survive < m.window.hi

VARIABLES
  mode,       \* the configuration, fixed at the start
  particle,   \* the neutron being followed
  pending,    \* the neutrons waiting, last in first out
  events,     \* steps taken by all of them
  voids,      \* consecutive void steps of this one
  result,     \* the counters of ParticleResult
  over,       \* the history is over
  fate        \* history: neutrons emitted, split off, rouletted, dropped, and the
              \* fissions the neutron survived

vars == <<mode, particle, pending, events, voids, result, over, fate>>

Delta == mode.delta
Biasing == mode.biasing
Window == mode.window

\* due is a history field: the weight a game of chance that preserves expectations
\* would have given.
Neutron(w, due) == [w |-> w, due |-> due, alive |-> TRUE]

Init ==
  /\ mode \in Modes
  /\ particle = Neutron(Unit, Unit)
  /\ pending = <<>>
  /\ events = 0 /\ voids = 0
  /\ result = [leakage |-> 0, absorptions |-> 0, fissions |-> 0]
  /\ over = FALSE
  /\ fate = [emitted |-> 0, split |-> 0, rouletted |-> 0, dropped |-> 0, implicit |-> 0]

Dead(p) == [p EXCEPT !.alive = FALSE]

-----------------------------------------------------------------------------
(***************************************************************************)
(* weight_window::apply: the outcomes for neutron p, as records of what p  *)
(* becomes, the copies split off and whether p was killed.                 *)
(***************************************************************************)
Outcome(p, copies, killed) == [p |-> p, copies |-> copies, killed |-> killed]

Clamp(n, lo, hi) == IF n < lo THEN lo ELSE IF n > hi THEN hi ELSE n

Splits(w) == Clamp((w + Window.survive - 1) \div Window.survive, 2, MaxSplit)

\* Mutant: the copies keep the weight of the original.
SplitKeepingWeight(p) ==
  LET n == Splits(p.w)
      q == [p EXCEPT !.due = @ \div n]
  IN  Outcome(q, [i \in 1..(n - 1) |-> q], FALSE)

Split(p) ==
  LET n == Splits(p.w)
      q == [p EXCEPT !.w = @ \div n, !.due = @ \div n]
  IN  Outcome(q, [i \in 1..(n - 1) |-> q], FALSE)

\* With probability w / survive the survivor weighs `survive`.
Roulette(p, survive) ==
  {Outcome([p EXCEPT !.w = survive, !.due = (@ * survive) \div p.w], <<>>, FALSE),
   Outcome(Dead(p), <<>>, TRUE)}

\* The voxel a neutron is in may have no window.
WindowOutcomes(p) ==
  {Outcome(p, <<>>, FALSE)} \cup
  IF Window = None \/ ~ p.alive THEN {}
  ELSE IF p.w > Window.hi THEN {Split(p)}
  ELSE IF p.w < Window.lo THEN Roulette(p, Window.survive)
  ELSE {}

\* The step leaves the neutron as p with the stack at pend, and ends with the window.
ApplyWindow(p, pend, f) ==
  \E o \in WindowOutcomes(p) :
    /\ particle' = o.p
    /\ pending' = pend \o o.copies
    /\ fate' = [f EXCEPT !.split = @ + Len(o.copies),
                         !.rouletted = @ + IF o.killed THEN 1 ELSE 0]

\* The step leaves the loop body early, by `continue` or `break`.
SkipWindow(p) ==
  /\ particle' = p
  /\ UNCHANGED <<pending, fate>>

-----------------------------------------------------------------------------
(***************************************************************************)
(* One pass of the inner loop.                                             *)
(***************************************************************************)
Steps == particle.alive /\ events < MaxEvents /\ ~ over

Step == Steps /\ events' = events + 1 /\ UNCHANGED <<mode, over>>

\* A vacuum boundary, no surface or no cell ahead, or no cross section.
Leak ==
  /\ Step
  /\ SkipWindow(Dead(particle))
  /\ result' = [result EXCEPT !.leakage = @ + 1]
  /\ UNCHANGED voids

\* Surface tracking through a void: to the next surface, at most MaxVoid in a row.
VoidStep ==
  /\ ~ Delta /\ Step
  /\ voids' = voids + 1
  /\ IF voids + 1 > MaxVoid
       THEN /\ result' = [result EXCEPT !.leakage = @ + 1]
            /\ SkipWindow(Dead(particle))
       ELSE /\ UNCHANGED result
            /\ SkipWindow(particle)

\* Surface tracking across a surface of a material cell.
CrossSurface ==
  /\ ~ Delta /\ Step
  /\ voids' = 0
  /\ ApplyWindow(particle, pending, fate)
  /\ UNCHANGED result

\* Delta tracking: a reflection, or a flight that ends in a void or in a virtual
\* collision.
DeltaFlight ==
  /\ Delta /\ Step
  /\ SkipWindow(particle)
  /\ UNCHANGED <<voids, result>>

Collide == Step /\ voids' = 0

\* Thermal scattering, S(alpha, beta): delta tracking continues at once.
ThermalScatter ==
  /\ Collide
  /\ IF Delta THEN SkipWindow(particle) ELSE ApplyWindow(particle, pending, fate)
  /\ UNCHANGED result

-----------------------------------------------------------------------------
(***************************************************************************)
(* dispatch_real_collision                                                 *)
(***************************************************************************)
Analog == Biasing = None

\* Survival biasing banks the expected fission sites before anything else, and the
\* neutron goes on.  Two sites stand for any more.
BankedSites == IF Analog THEN {0} ELSE 0..2

\* Mutant: every site is counted as a fission.
BankingPerSite(sites) == sites

\* The fissions a collision counts for the sites it banks: one, if there are any.
Banking(sites) == IF sites > 0 THEN 1 ELSE 0

SurviveFissions(f, sites) == [f EXCEPT !.implicit = @ + IF sites = 0 THEN 0 ELSE 1]

\* Analog capture, and implicit capture with nothing to scatter on.
Capture ==
  /\ Collide
  /\ \E sites \in BankedSites :
       /\ ApplyWindow(Dead(particle), pending, SurviveFissions(fate, sites))
       /\ result' = [result EXCEPT !.absorptions = @ + 1, !.fissions = @ + Banking(sites)]

AnalogFission ==
  /\ Analog /\ Collide
  /\ ApplyWindow(Dead(particle), pending, fate)
  /\ result' = [result EXCEPT !.fissions = @ + 1]

\* The weights implicit capture may leave of w: part of it is absorbed.
Reduced(w) == {w} \cup IF w % 2 = 0 THEN {w \div 2} ELSE {}

\* What survival biasing makes of p once it has scattered.
Biased(p) ==
  IF Analog \/ p.w >= Biasing.min THEN {Outcome(p, <<>>, FALSE)}
  ELSE Roulette(p, Biasing.survive)

\* Implicit capture, the sites of an implicit fission, a reaction that emits `extra`
\* more neutrons, and the roulette of survival biasing.  Particle::new gives each
\* of the emitted neutrons the weight of a source neutron.
Scatter(extra) ==
  /\ Collide
  /\ \E sites \in BankedSites, w \in IF Analog THEN {particle.w} ELSE Reduced(particle.w) :
       LET p == [particle EXCEPT !.w = w, !.due = IF w = particle.w THEN @ ELSE @ \div 2]
           emitted == [i \in 1..extra |-> Neutron(Unit, p.due)]
       IN  /\ \E o \in Biased(p) :
                ApplyWindow(o.p, pending \o emitted,
                            [SurviveFissions(fate, sites) EXCEPT
                               !.emitted = @ + extra,
                               !.rouletted = @ + IF o.killed THEN 1 ELSE 0])
           /\ result' = [result EXCEPT !.fissions = @ + Banking(sites)]

ElasticOrInelastic == Scatter(0)

\* (n,2n) and (n,3n).
Multiply == mode.multiplies /\ \E extra \in {1, 2} : Scatter(extra)

Collision == ThermalScatter \/ Capture \/ AnalogFission \/ ElasticOrInelastic \/ Multiply

-----------------------------------------------------------------------------
\* The inner loop is left: by death, or alive because the budget is spent, in which
\* case the neutron is dropped.
NextPending ==
  /\ ~ over /\ ~ Steps
  /\ pending # <<>>
  /\ particle' = Last(pending)
  /\ pending' = Front(pending)
  /\ fate' = [fate EXCEPT !.dropped = @ + IF particle.alive THEN 1 ELSE 0]
  /\ voids' = 0
  /\ UNCHANGED <<mode, events, result, over>>

\* Mutant: a neutron still alive keeps the history going.
FinishWhenDead ==
  /\ ~ over /\ ~ Steps
  /\ pending = <<>> /\ ~ particle.alive
  /\ over' = TRUE
  /\ UNCHANGED <<mode, particle, pending, events, voids, result, fate>>

Finish ==
  /\ ~ over /\ ~ Steps
  /\ pending = <<>>
  /\ over' = TRUE
  /\ particle' = Dead(particle)
  /\ fate' = [fate EXCEPT !.dropped = @ + IF particle.alive THEN 1 ELSE 0]
  /\ UNCHANGED <<mode, pending, events, voids, result>>

Next ==
  \/ Leak \/ VoidStep \/ CrossSurface \/ DeltaFlight \/ Collision
  \/ NextPending \/ Finish

Spec == Init /\ [][Next]_vars

\* transport_particle is a loop nothing blocks.
FairSpec == Spec /\ WF_vars(Next)

-----------------------------------------------------------------------------
TypeOK ==
  /\ particle.w \in Nat \ {0} /\ particle.due \in Nat
  /\ \A i \in DOMAIN pending : pending[i].w \in Nat \ {0} /\ pending[i].alive
  /\ events \in 0..MaxEvents
  /\ voids \in 0..(MaxVoid + 1)
  /\ \A c \in DOMAIN result : result[c] \in Nat
  /\ \A c \in DOMAIN fate : fate[c] \in Nat

\* Every neutron that comes to exist, as source, by a reaction or as a copy, is being
\* followed, waits, or has ended in exactly one way: the counters of ParticleResult
\* and the roulettes account for all but those the end of the budget drops.  With
\* survival biasing a collision may count a fission the neutron survives, once however
\* many sites it banks, or both a fission and the absorption that ends it.
Accounted ==
  1 + fate.emitted + fate.split + fate.implicit =
    (IF particle.alive THEN 1 ELSE 0) + Len(pending)
    + result.leakage + result.absorptions + result.fissions
    + fate.rouletted + fate.dropped

\* Roulette, splitting and the reactions preserve the expected weight: a neutron
\* weighs what a game without bias gives it (simulate.rs:75-77 "expectation preserved").
FairWeights ==
  /\ particle.alive => particle.w = particle.due
  /\ \A i \in DOMAIN pending : pending[i].w = pending[i].due

\* Survival biasing, splitting and both roulettes, in any order and on every copy,
\* preserve the expected weight of a history without multiplying reactions.
FairUnlessMultiplying == mode.multiplies \/ FairWeights

\* A history ends, however its neutrons multiply: the budget is shared by all.
HistoryEnds == <>over
=============================================================================
