--------------------------- MODULE PhotonHistory ---------------------------
(***************************************************************************)
(* One photon history and what becomes of its energy: transport_one and    *)
(* transport_one_csg of photon/transport.rs, the relaxation cascade of     *)
(* photoelectric.rs, and the callers' loop (bin/pwr_gamma_heating.rs and   *)
(* the Python binding), which tallies the deposits, lets each electron     *)
(* radiate and follows it cell by cell (electron.rs).                      *)
(*                                                                         *)
(* Photons that reactions emit and a weight window splits off wait in a    *)
(* bank; photons that electrons radiate wait with the caller, which starts *)
(* another history for each.  Energies and weights are integers; cross     *)
(* sections, the ray tracer and the sampled energies are open choices.     *)
(***************************************************************************)
EXTENDS Integers, FiniteSets, SequencesExt

CONSTANTS
  Modes,        \* the configurations to check, see PhotonAssumption
  Cells,        \* the cells that hold a material
  Voxels,       \* of the weight window
  Nowhere,      \* no voxel, no cell
  Lo, Survive, Hi,  \* the window of each voxel: Survive is sqrt(Lo * Hi)
  Weights,      \* the weights photons may have, in a unit so fine that no split rounds
  MaxSplit,     \* WeightWindow::max_split
  MaxGames,     \* bound of the model: splits and roulettes of a history
  Cutoff,       \* photons below it are absorbed
  Fluorescent,  \* DEFAULT_PHOTON_CUTOFF_EV
  Rest,         \* M_E_C2_EV
  Binding,      \* the binding energy of each shell, by EADL designator
  Tabulated,    \* the shells the photon data list
  Transitions,  \* of each tabulated shell: [primary, secondary]; secondary 0 is radiative
  MaxEvents,    \* 10_000 collisions, 100_000 events
  MaxVoid,      \* 100
  MaxSteps,     \* 65_536 steps of an electron
  StopsAt       \* E_CUTOFF_EV of electrons

\* n_split of a photon of weight w that enters voxel v.
Splits(w, v) == LET n == (w + Survive[v] - 1) \div Survive[v]
                IN  IF n < 2 THEN 2 ELSE IF n > MaxSplit THEN MaxSplit ELSE n

\* A mode: CSG or the is_inside closure; whether the caller follows the electrons; a
\* weight window or none; the source photon.
ASSUME PhotonAssumption ==
  /\ {Cutoff, Fluorescent, Rest, MaxEvents, MaxVoid, MaxSteps, StopsAt, MaxGames}
       \subseteq Nat
  /\ MaxSplit \in Nat /\ MaxSplit >= 2
  /\ IsFiniteSet(Cells)
  /\ \A m \in Modes : /\ {m.csg, m.heats, m.windowed} \subseteq BOOLEAN
                      /\ m.e \in Nat \ {0} /\ m.w \in Weights
                      /\ m.heats => m.csg /\ m.w = 1

\* Floating-point weights split without a remainder.
ASSUME WeightAssumption ==
  /\ Weights \subseteq Nat \ {0}
  /\ \A v \in Voxels :
       /\ Survive[v] * Survive[v] = Lo[v] * Hi[v]
       /\ Survive[v] \in Weights
       /\ \A w \in Weights : w > Hi[v] =>
            \E part \in Weights : w = part * Splits(w, v)

\* A transition of a shell releases energy.
ASSUME ShellAssumption ==
  /\ \A s \in DOMAIN Binding : Binding[s] \in Nat
  /\ Tabulated \subseteq DOMAIN Binding
  /\ \A s \in Tabulated : \A t \in Transitions[s] :
       /\ t.primary \in DOMAIN Binding
       /\ t.secondary # 0 => t.secondary \in DOMAIN Binding
       /\ Binding[s] >= Binding[t.primary] + IF t.secondary = 0 THEN 0 ELSE Binding[t.secondary]

VARIABLES
  mode, phase,
  photon,     \* the photon being followed
  events, voids,
  games,      \* history: the window's splits and roulettes
  bank,       \* secondaries and copies, last in first out
  relax,      \* an absorption: the open holes, the energy kept, the photons emitted
  result,     \* energy_deposited and energy_escaped of HistoryResult
  deposits,   \* its list of local deposits
  electrons,  \* its list of electrons
  outer,      \* the caller's photons: photon_bank_local
  electron,   \* the electron being followed
  tally,      \* deposited_per_cell, with Nowhere for orphan_deposit
  escaped,    \* the caller's escaped_energy
  lost        \* history: energy no tally shows

ledgers == <<result, deposits, electrons>>
caller == <<outer, electron, tally, escaped>>
vars == <<mode, phase, photon, events, voids, games, bank, relax, ledgers, caller, lost>>

\* due is a history field: the weight fair games would give.
Photon(e, w, due, cell, voxel) ==
  [e |-> e, w |-> w, due |-> due, cell |-> cell, voxel |-> voxel, prev |-> voxel]

NoPhoton == Photon(0, 1, 1, Nowhere, Nowhere)
Places == IF mode.windowed THEN Voxels ELSE {Nowhere}
NoRelaxation == [holes |-> <<>>, kept |-> 0, photons |-> <<>>]
NoResult == [deposited |-> 0, escaped |-> 0]
NoElectron == [e |-> 0, cell |-> Nowhere, steps |-> 0]

Init ==
  /\ mode \in Modes
  /\ phase = "call"
  /\ photon = NoPhoton
  /\ events = 0 /\ voids = 0 /\ games = 0 /\ bank = <<>>
  /\ relax = NoRelaxation
  /\ result = NoResult /\ deposits = <<>> /\ electrons = <<>>
  /\ outer = <<mode.e>>
  /\ electron = NoElectron
  /\ tally = [c \in Cells \cup {Nowhere} |-> 0]
  /\ escaped = 0
  /\ lost = [binding |-> 0, leaked |-> 0, roulette |-> 0]

-----------------------------------------------------------------------------
(***************************************************************************)
(* transport_history: the loop over the bank.                              *)
(***************************************************************************)
\* The caller starts a history, for its source photon or one that an electron radiated;
\* a position outside the model is an escape.
Call ==
  /\ phase = "call" /\ outer # <<>>
  /\ outer' = Front(outer)
  /\ \/ /\ \E c \in Cells, v \in Places : bank' = <<Photon(Last(outer), mode.w, mode.w, c, v)>>
        /\ result' = NoResult
     \/ bank' = <<>> /\ result' = [NoResult EXCEPT !.escaped = Last(outer) * mode.w]
  /\ phase' = "next"
  /\ deposits' = <<>> /\ electrons' = <<>>
  /\ UNCHANGED <<mode, photon, events, voids, games, relax, electron, tally, escaped, lost>>

NextPhoton ==
  /\ phase = "next" /\ bank # <<>>
  /\ photon' = Last(bank) /\ bank' = Front(bank)
  /\ events' = 0 /\ voids' = 0
  /\ phase' = "top"
  /\ UNCHANGED <<mode, games, relax, ledgers, caller, lost>>

Return ==
  /\ phase = "next" /\ bank = <<>>
  /\ phase' = IF mode.heats THEN "tally" ELSE "done"
  /\ escaped' = escaped + result.escaped
  /\ UNCHANGED <<mode, photon, events, voids, games, bank, relax, ledgers, outer, electron,
                 tally, lost>>

-----------------------------------------------------------------------------
(***************************************************************************)
(* transport_one, transport_one_csg: the passes of the loop over one       *)
(* track.  A pass checks the cutoff, then the window, then flies.          *)
(***************************************************************************)
Track(from) == phase = from /\ UNCHANGED <<mode, caller>>

Escape(e) == result' = [result EXCEPT !.escaped = @ + e]

Deposit(e) ==
  /\ result' = [result EXCEPT !.deposited = @ + e]
  /\ deposits' = Append(deposits, [e |-> e, cell |-> photon.cell])
  /\ UNCHANGED electrons

\* The energy of charged particles: an electron to follow, in the CSG loop.
Recoil(e) ==
  IF mode.csg
  THEN /\ result' = [result EXCEPT !.deposited = @ + e]
       /\ electrons' = Append(electrons, [e |-> e, cell |-> photon.cell])
       /\ UNCHANGED deposits
  ELSE Deposit(e)

Carried == photon.e * photon.w

EndTrack == phase' = "next" /\ photon' = NoPhoton /\ events' = 0 /\ voids' = 0 /\ UNCHANGED games

\* The budget of the track is spent, or the photon is below the cutoff.
Absorb ==
  /\ Track("top")
  /\ events = MaxEvents \/ photon.e < Cutoff
  /\ Deposit(Carried)
  /\ EndTrack
  /\ UNCHANGED <<bank, relax, lost>>

\* The window acts where a voxel is entered; lookup may find none there.
Enters == /\ mode.windowed /\ games < MaxGames
          /\ photon.voxel # photon.prev
          /\ games' = games + 1

Flies(p) ==
  /\ photon' = [p EXCEPT !.prev = p.voxel]
  /\ phase' = "fly"
  /\ UNCHANGED voids

\* Mutant: the events of a track are not counted.
PassUncounted == Track("top") /\ photon.e >= Cutoff /\ UNCHANGED events

Pass == Track("top") /\ events < MaxEvents /\ photon.e >= Cutoff /\ events' = events + 1

\* Mutant: the copies keep the weight of the original.
SplitKeepingWeight ==
  /\ Pass /\ Enters /\ photon.w > Hi[photon.voxel]
  /\ LET n == Splits(photon.w, photon.voxel)
         p == [photon EXCEPT !.due = @ \div n, !.prev = photon.voxel]
     IN  Flies(p) /\ bank' = bank \o [i \in 1..(n - 1) |-> p]
  /\ UNCHANGED <<relax, ledgers, lost>>

Split ==
  /\ Pass /\ Enters /\ photon.w > Hi[photon.voxel]
  /\ LET n == Splits(photon.w, photon.voxel)
         p == [photon EXCEPT !.w = @ \div n, !.due = @ \div n, !.prev = photon.voxel]
     IN  Flies(p) /\ bank' = bank \o [i \in 1..(n - 1) |-> p]
  /\ UNCHANGED <<relax, ledgers, lost>>

\* The photon survives with probability w / Survive.
Roulette ==
  /\ Pass /\ Enters /\ photon.w < Lo[photon.voxel]
  /\ LET w == Survive[photon.voxel] IN
       \/ /\ Flies([photon EXCEPT !.w = w, !.due = (@ * w) \div photon.w])
          /\ lost' = [lost EXCEPT !.roulette = @ + photon.e * (photon.w - w)]
       \/ /\ phase' = "next" /\ photon' = NoPhoton /\ UNCHANGED voids
          /\ lost' = [lost EXCEPT !.roulette = @ + Carried]
  /\ UNCHANGED <<bank, relax, ledgers>>

InWindow ==
  /\ Pass
  /\ Flies(photon)
  /\ UNCHANGED <<games, bank, relax, ledgers, lost>>

-----------------------------------------------------------------------------
\* A vacuum boundary, no neighbour, a void without a surface ahead, the flight out of
\* the region of is_inside.
Leak ==
  /\ Track("fly")
  /\ Escape(Carried)
  /\ EndTrack
  /\ UNCHANGED <<bank, relax, deposits, electrons, lost>>

\* handle_boundary, through a void (no cross section) or through a material: a
\* reflection, or into a neighbour.
Cross(streak) ==
  /\ Track("fly") /\ mode.csg
  /\ voids' = streak
  /\ \E c \in Cells, v \in Places : photon' = [photon EXCEPT !.cell = c, !.voxel = v]
  /\ phase' = "top"
  /\ UNCHANGED <<events, games, bank, relax, ledgers, lost>>

Stream == voids < MaxVoid /\ Cross(voids + 1)
CrossSurface == Cross(0)

\* The flight ends in a collision: where, in which voxel.
Collide == Track("fly") /\ voids' = 0 /\ UNCHANGED <<events, games>>

MovesOn(e) ==
  /\ \E v \in Places : photon' = [photon EXCEPT !.e = e, !.voxel = v]
  /\ phase' = "top"

Coherent ==
  /\ Collide
  /\ MovesOn(photon.e)
  /\ UNCHANGED <<bank, relax, ledgers, lost>>

\* The electron gets the photon's loss less a binding energy, but no less than zero.
Incoherent ==
  /\ Collide
  /\ \E out \in 1..photon.e, b \in 0..1 :
       LET kinetic == IF photon.e - out > b THEN photon.e - out - b ELSE 0 IN
         /\ Recoil(kinetic * photon.w)
         /\ MovesOn(out)
         /\ lost' = [lost EXCEPT !.binding = @ + (photon.e - out - kinetic) * photon.w]
  /\ UNCHANGED <<bank, relax>>

\* Secondaries are born in the cell of the collision with its weight.
Secondaries(energies, v) ==
  [i \in DOMAIN energies |-> Photon(energies[i], photon.w, photon.due, photon.cell, v)]

Pair ==
  /\ Collide
  /\ IF photon.e < 2 * Rest
       THEN Deposit(Carried) /\ UNCHANGED bank
       ELSE /\ Recoil((photon.e - 2 * Rest) * photon.w)
            /\ \E v \in Places : bank' = bank \o Secondaries(<<Rest, Rest>>, v)
  /\ phase' = "next" /\ photon' = NoPhoton
  /\ UNCHANGED <<relax, lost>>

\* photoelectric_absorb: a shell whose binding energy the photon has.
Photoelectric ==
  /\ Collide
  /\ \E s \in Tabulated :
       /\ Binding[s] <= photon.e
       /\ relax' = [holes |-> <<s>>, kept |-> photon.e - Binding[s], photons |-> <<>>]
  /\ phase' = "relax"
  /\ UNCHANGED <<photon, bank, ledgers, lost>>

-----------------------------------------------------------------------------
(***************************************************************************)
(* The relaxation cascade, hole by hole.                                   *)
(***************************************************************************)
Hole == Last(relax.holes)
Energy(t) == Binding[Hole] - Binding[t.primary]
             - IF t.secondary = 0 THEN 0 ELSE Binding[t.secondary]

Relax ==
  /\ Track("relax") /\ relax.holes # <<>>
  /\ UNCHANGED <<phase, photon, events, voids, games, bank, ledgers>>

\* A shell the data do not list.
Unlisted ==
  /\ Relax /\ Hole \notin Tabulated
  /\ relax' = [relax EXCEPT !.holes = Front(@)]
  /\ lost' = [lost EXCEPT !.binding = @ + Binding[Hole] * photon.w]

\* No transition, or the probabilities do not add up to the sample.
Persists ==
  /\ Relax /\ Hole \in Tabulated
  /\ relax' = [relax EXCEPT !.holes = Front(@), !.kept = @ + Binding[Hole]]
  /\ UNCHANGED lost

Fluoresces ==
  /\ Relax /\ Hole \in Tabulated
  /\ \E t \in Transitions[Hole] :
       /\ t.secondary = 0
       /\ relax' = [holes |-> Append(Front(relax.holes), t.primary),
                    kept |-> relax.kept + IF Energy(t) < Fluorescent THEN Energy(t) ELSE 0,
                    photons |-> IF Energy(t) < Fluorescent THEN relax.photons
                                ELSE Append(relax.photons, Energy(t))]
  /\ UNCHANGED lost

Auger ==
  /\ Relax /\ Hole \in Tabulated
  /\ \E t \in Transitions[Hole] :
       /\ t.secondary # 0
       /\ relax' = [relax EXCEPT !.holes = Front(@) \o <<t.primary, t.secondary>>,
                                 !.kept = @ + Energy(t)]
  /\ UNCHANGED lost

\* Mutant: the electron is forgotten when a photon carries the energy away.
RelaxedKeepingPhotons ==
  /\ Track("relax") /\ relax.holes = <<>>
  /\ IF relax.photons = <<>> THEN Recoil(relax.kept * photon.w)
     ELSE /\ result' = [result EXCEPT !.deposited = @ + relax.kept * photon.w]
          /\ UNCHANGED <<deposits, electrons>>
  /\ \E v \in Places : bank' = bank \o Secondaries(relax.photons, v)
  /\ relax' = NoRelaxation
  /\ EndTrack
  /\ UNCHANGED lost

Relaxed ==
  /\ Track("relax") /\ relax.holes = <<>>
  /\ Recoil(relax.kept * photon.w)
  /\ \E v \in Places : bank' = bank \o Secondaries(relax.photons, v)
  /\ relax' = NoRelaxation
  /\ EndTrack
  /\ UNCHANGED lost

-----------------------------------------------------------------------------
(***************************************************************************)
(* The caller: the deposits, then each electron.                           *)
(***************************************************************************)
Calls(from) ==
  phase = from /\ UNCHANGED <<mode, photon, events, voids, games, bank, relax, result, escaped>>

\* ray::find_cell may find no cell at the position of a deposit.
TallyDeposit ==
  /\ Calls("tally") /\ deposits # <<>>
  /\ deposits' = Tail(deposits)
  /\ \E c \in {Head(deposits).cell, Nowhere} : tally' = [tally EXCEPT ![c] = @ + Head(deposits).e]
  /\ UNCHANGED <<phase, electrons, outer, electron, lost>>

\* Mutant: the electron keeps the energy it has radiated.
TakeElectronUndiminished ==
  /\ Calls("tally") /\ deposits = <<>> /\ electrons # <<>>
  /\ electrons' = Tail(electrons)
  /\ LET e == Head(electrons).e IN
       /\ electron' = [e |-> e, cell |-> Head(electrons).cell, steps |-> 0]
       /\ outer' \in {outer} \cup {Append(outer, gamma) : gamma \in 1..(e - 1)}
  /\ phase' = "electron"
  /\ UNCHANGED <<deposits, tally, lost>>

\* One photon of bremsstrahlung, or none, of less energy than the electron's.
TakeElectron ==
  /\ Calls("tally") /\ deposits = <<>> /\ electrons # <<>>
  /\ electrons' = Tail(electrons)
  /\ \E gamma \in 0..(Head(electrons).e - 1) \cup {0} :
       /\ electron' = [e |-> Head(electrons).e - gamma, cell |-> Head(electrons).cell, steps |-> 0]
       /\ outer' = IF gamma = 0 THEN outer ELSE Append(outer, gamma)
  /\ phase' = "electron"
  /\ UNCHANGED <<deposits, tally, lost>>

HistoryTallied ==
  /\ Calls("tally") /\ deposits = <<>> /\ electrons = <<>>
  /\ phase' = IF outer = <<>> THEN "done" ELSE "call"
  /\ UNCHANGED <<deposits, electrons, outer, electron, tally, lost>>

-----------------------------------------------------------------------------
(***************************************************************************)
(* track_integrate_electron_csg_with_ms                                    *)
(***************************************************************************)
Walk == Calls("electron") /\ UNCHANGED <<deposits, electrons, outer>>

Slow == electron.e <= StopsAt \/ electron.steps = MaxSteps

\* The electron leaves d in its cell and is over.
Stop(d) ==
  /\ tally' = [tally EXCEPT ![electron.cell] = @ + d]
  /\ electron' = NoElectron
  /\ phase' = "tally"

\* Below the cutoff or out of steps; out of range, or in a void with no surface ahead.
ElectronStops ==
  /\ Walk
  /\ Stop(electron.e)
  /\ UNCHANGED lost

\* The step leaves d behind and ends inside the cell, at a surface (\E c: the cell
\* behind it), or, the electron being slow now, where it is.
ElectronSteps ==
  /\ Walk /\ ~ Slow
  /\ \E d \in 0..electron.e, c \in Cells :
       IF electron.e - d <= StopsAt THEN Stop(electron.e)
       ELSE /\ tally' = [tally EXCEPT ![electron.cell] = @ + d]
            /\ electron' = [e |-> electron.e - d, cell |-> c, steps |-> electron.steps + 1]
            /\ UNCHANGED phase
  /\ UNCHANGED lost

\* A vacuum boundary: "we drop it on the floor".
ElectronLeaks ==
  /\ Walk /\ ~ Slow
  /\ \E d \in 0..(electron.e - StopsAt - 1) :
       /\ Stop(d)
       /\ lost' = [lost EXCEPT !.leaked = @ + electron.e - d]

-----------------------------------------------------------------------------
Windowing == Split \/ Roulette \/ InWindow
Flight == Leak \/ Stream \/ CrossSurface
Collision == Coherent \/ Incoherent \/ Pair \/ Photoelectric
Cascade == Unlisted \/ Persists \/ Fluoresces \/ Auger \/ Relaxed
Electron == TallyDeposit \/ TakeElectron \/ HistoryTallied
            \/ ElectronStops \/ ElectronSteps \/ ElectronLeaks

Next == Call \/ NextPhoton \/ Return \/ Absorb \/ Windowing \/ Flight \/ Collision
        \/ Cascade \/ Electron

Spec == Init /\ [][Next]_vars

\* Loops that nothing blocks.
FairSpec == Spec /\ WF_vars(Next)

-----------------------------------------------------------------------------
\* The sum of the values of f, counted quantum by quantum.
Quanta(f) == UNION {{x} \X (1..f[x]) : x \in DOMAIN f}
TotalOf(f) == Cardinality(Quanta(f))

Energies(s) == TotalOf([i \in DOMAIN s |-> s[i].e])
Weighted(s) == TotalOf([i \in DOMAIN s |-> s[i].e * s[i].w])
Scaled(s, w) == TotalOf([i \in DOMAIN s |-> s[i] * w])

Somewhere == Cells \cup {Nowhere}
PhotonType == [e : Nat, w : Nat \ {0}, due : Nat, cell : Somewhere,
               voxel : Voxels \cup {Nowhere}, prev : Voxels \cup {Nowhere}]
Entry == [e : Nat, cell : Somewhere]

TypeOK ==
  /\ mode \in Modes
  /\ phase \in {"call", "next", "top", "fly", "relax", "tally", "electron", "done"}
  /\ photon \in PhotonType
  /\ events \in 0..MaxEvents /\ voids \in 0..MaxVoid /\ games \in 0..MaxGames
  /\ bank \in Seq(PhotonType)
  /\ relax \in [holes : Seq(DOMAIN Binding), kept : Nat, photons : Seq(Nat)]
  /\ result \in [deposited : Nat, escaped : Nat]
  /\ deposits \in Seq(Entry) /\ electrons \in Seq(Entry)
  /\ outer \in Seq(Nat)
  /\ electron \in [e : Nat, cell : Somewhere, steps : 0..MaxSteps]
  /\ tally \in [Somewhere -> Nat]
  /\ escaped \in Nat
  /\ lost \in [binding : Nat, leaked : Nat, roulette : Int]

\* What a history in progress holds: the tracks waiting and being followed, the holes
\* of the absorbing atom and its photons.
Following == IF phase \in {"top", "fly"} THEN Carried ELSE 0
Relaxing ==
  IF phase = "relax"
    THEN relax.kept * photon.w + Scaled(relax.photons, photon.w)
         + Scaled([i \in DOMAIN relax.holes |-> Binding[relax.holes[i]]], photon.w)
    ELSE 0
Escaping == IF phase \in {"next", "top", "fly", "relax"} THEN result.escaped ELSE 0

InFlight == Weighted(bank) + Following + Relaxing + Escaping

\* What the history has listed for the caller, what the caller holds, and what is gone.
Listed == Energies(deposits) + Energies(electrons)
WithCaller == Scaled(outer, mode.w) + electron.e + TotalOf(tally) + escaped
Lost == lost.binding + lost.leaked + lost.roulette

\* Every eV of the source is on its way, waits for the caller, is tallied or has left
\* in one of three named ways, whatever chain of reactions, photons, electrons and
\* radiation carries it ("Energy conservation on full histories", transport.rs:968).
EnergyBalance == mode.e * mode.w = InFlight + Listed + WithCaller + Lost

\* HistoryResult keeps two books of the deposited energy, a sum (read by the tests and
\* the shielding program) and lists (read by the heating callers): they agree.
LedgersAgree ==
  phase \in {"next", "top", "fly", "relax"} \/ (phase = "done" /\ ~ mode.heats)
    => result.deposited = Listed

\* Splitting and roulette, on any copy and on the secondaries of any reaction, keep the
\* expected weight (transport.rs:400-403 "an unbiased estimator of the analog mean").
FairWeights ==
  /\ photon.w = photon.due
  /\ \A i \in DOMAIN bank : bank[i].w = bank[i].due

\* Without a weight window a history, with all the photons its electrons radiate, ends.
HistoryEnds == mode.windowed \/ <>(phase = "done")
=============================================================================
