------------------------------ MODULE RayTrace ------------------------------
(***************************************************************************)
(* How a neutron finds its way through nested geometry: the steps by which *)
(* transport_particle and transport_particle_delta of simulate.rs move     *)
(* along it (see module Geometry).  Neutrons are at an even position only  *)
(* on the mirror that has just turned them.  Flight lengths and collisions *)
(* are open choices.                                                       *)
(***************************************************************************)
EXTENDS Geometry

CONSTANTS
  Modes,        \* the configurations to check
  MaxVoid,      \* 100 consecutive void steps
  MaxPending    \* bound of the model: neutrons waiting

Rays == {"ray", "immortal"}

\* A mode is a scene, the walk of surface or delta tracking (or of a ray, see module
\* RandomRay), and whether collisions may multiply.
ASSUME RayAssumption ==
  /\ {MaxDepth, MaxVoid, MaxPending} \subseteq Nat
  /\ \A m \in Modes : m.walk \in {"surface", "delta"} \cup Rays /\ m.multiplies \in BOOLEAN

ASSUME SceneAssumption == \A m \in Modes : WellFormed(m.scene)

VARIABLES
  mode,
  particle,   \* the neutron being followed
  pending     \* the neutrons waiting, last in first out

vars == <<mode, particle, pending>>

Scene == mode.scene

-----------------------------------------------------------------------------
(***************************************************************************)
(* The neutron.                                                            *)
(***************************************************************************)
\* exit is a history field: where a neutron that leaked has left.
Neutron(x, dir, stack) ==
  [pos |-> x, dir |-> dir, stack |-> stack, status |-> "alive", voids |-> 0, exit |-> x]

\* Particle::new: one frame, which says nothing of where the cell is nested.
NewNeutron(x, dir, c) == Neutron(x, dir, <<Coord(c, Root(Scene))>>)

Leaked(p, x) == [p EXCEPT !.status = "leaked", !.exit = x]

\* Mutant: the stack is kept.
MovedWithOldStack(p, x) == IF FindCell(Scene, x) = <<>> THEN Leaked(p, x) ELSE [p EXCEPT !.pos = x]

\* Moved to x, where the stack is looked up again.
Moved(p, x) ==
  IF FindCell(Scene, x) = <<>> THEN Leaked(p, x) ELSE [p EXCEPT !.pos = x, !.stack = FindCell(Scene, x)]

\* A crossing, once hit is known to lie before the collision.
Crossed(p, hit) ==
  LET x == p.pos + p.dir * hit.distance IN
    CASE hit = NoHit -> Leaked(p, p.pos)
      [] hit # NoHit /\ Boundary(Scene, hit) = "vacuum" -> Leaked(p, x)
      [] hit # NoHit /\ Boundary(Scene, hit) = "reflective" -> [p EXCEPT !.pos = x, !.dir = - p.dir]
      [] hit # NoHit /\ Boundary(Scene, hit) = "transmission" -> Moved(p, x + p.dir)

Positions == DOMAIN Scene.truth
Flights(p) == {d \in 1..Cardinality(Positions) : ~ Even(p.pos + d * p.dir)}
Ahead(p) == TraceStep(Scene, p.stack, p.pos, p.dir)

Init ==
  /\ mode \in Modes
  /\ \E x \in Positions, dir \in {-1, 1} : particle = Neutron(x, dir, FindCell(Scene, x))
  /\ pending = <<>>

Alive == particle.status = "alive"
InVoid == Material(Scene, particle.stack) = None

\* Void: free-stream to the next surface.
Stream ==
  /\ mode.walk = "surface" /\ Alive /\ InVoid
  /\ LET p == [particle EXCEPT !.voids = @ + 1] IN
       particle' = IF p.voids > MaxVoid THEN Leaked(p, p.pos) ELSE Crossed(p, Ahead(p))
  /\ UNCHANGED <<mode, pending>>

\* Material, and a surface before the collision.
Cross ==
  /\ mode.walk = "surface" /\ Alive /\ ~ InVoid
  /\ Ahead(particle) # NoHit
  /\ particle' = Crossed([particle EXCEPT !.voids = 0], Ahead(particle))
  /\ UNCHANGED <<mode, pending>>

\* What a collision does to p: scatters or absorbs it, and may emit a neutron, which is
\* given the cell of p and no more.
Collided(p) ==
  \/ /\ \E dir \in {-1, 1} : particle' = [p EXCEPT !.dir = dir]
     /\ UNCHANGED pending
  \/ /\ particle' = [p EXCEPT !.status = "absorbed"]
     /\ UNCHANGED pending
  \/ /\ mode.multiplies /\ Len(pending) < MaxPending
     /\ \E dir \in {-1, 1} : particle' = [p EXCEPT !.dir = dir]
     /\ \E dir \in {-1, 1} : pending' = Append(pending, NewNeutron(p.pos, dir, Last(p.stack).cell))

Collide ==
  /\ mode.walk = "surface" /\ Alive /\ ~ InVoid
  /\ \E d \in Flights(particle) :
       /\ Ahead(particle) = NoHit \/ d < Ahead(particle).distance
       /\ Collided([particle EXCEPT !.pos = @ + d * particle.dir, !.voids = 0])
  /\ UNCHANGED mode

\* Delta tracking: a flight looks at the first boundary only, and a neutron that comes
\* down in void streams to the next one in the same step.
Flown(p, d) ==
  IF Ahead(p) # NoHit /\ Ahead(p).distance < d /\ Boundary(Scene, Ahead(p)) # "transmission"
  THEN Crossed(p, Ahead(p)) ELSE Moved(p, p.pos + d * p.dir)

DeltaStep ==
  /\ mode.walk = "delta" /\ Alive
  /\ \E d \in Flights(particle) :
       LET p == Flown(particle, d) IN
         \/ /\ p.status = "leaked" \/ Even(p.pos)
            /\ particle' = p /\ UNCHANGED pending
         \/ /\ p.status = "alive" /\ ~ Even(p.pos) /\ Material(Scene, p.stack) = None
            /\ particle' = Crossed(p, Ahead(p)) /\ UNCHANGED pending
         \/ /\ p.status = "alive" /\ ~ Even(p.pos) /\ Material(Scene, p.stack) # None
            /\ \/ particle' = p /\ UNCHANGED pending
               \/ Collided(p)
  /\ UNCHANGED mode

\* The next of the neutrons that wait.
Pop ==
  /\ ~ Alive /\ pending # <<>>
  /\ particle' = Last(pending)
  /\ pending' = Front(pending)
  /\ UNCHANGED mode

Next == Stream \/ Cross \/ Collide \/ DeltaStep \/ Pop

Spec == Init /\ [][Next]_vars

-----------------------------------------------------------------------------
(***************************************************************************)
(* What the theorems ask of a mode, where the code keeps its promise on a  *)
(* condition only.                                                         *)
(***************************************************************************)
\* Collisions multiply where nothing is nested: a neutron born of one is given a stack of
\* the outermost level.
EmitsFlat(m) ==
  m.multiplies =>
    \A i \in DOMAIN m.scene.universe[m.scene.root] :
      m.scene.cell[m.scene.universe[m.scene.root][i]].fill \in {"material", "void"}

\* Delta tracking has no mirror for a border: a flight sees the first boundary only.
FliesToVacuum(m) ==
  m.walk = "delta" =>
    \A border \in {m.scene.left, m.scene.right} : m.scene.surface[border].bc # "reflective"

-----------------------------------------------------------------------------
Interior(x) == x \in Positions

\* coord_stack leads to the innermost cell that contains the neutron, through every
\* frame, wherever surfaces, grid planes and collisions have brought it, and the
\* material it names is the one that was put there (find_cell_recursive,
\* effective_material_idx).
StackTrue ==
  Alive /\ Interior(particle.pos) =>
    /\ particle.stack = FindCell(Scene, particle.pos)
    /\ Material(Scene, particle.stack) = Scene.truth[particle.pos]

\* A neutron leaks through a border that is no mirror and nowhere else, unless it has
\* been streaming through void for too long.  "treating that as a Transmission grid
\* crossing instead of a Reflective surface hit silently leaks the particle", ray.rs:330.
MirrorsKeep ==
  particle.status = "leaked" =>
    \/ particle.voids > MaxVoid
    \/ particle.exit <= Scene.surface[Scene.left].at /\ Scene.surface[Scene.left].bc # "reflective"
    \/ particle.exit >= Scene.surface[Scene.right].at /\ Scene.surface[Scene.right].bc # "reflective"

\* With surface tracking a flight stays in one material: no step passes a region that the
\* stack does not know of (trace_step_recursive considers the surfaces of every cell on
\* the stack and every grid).
Between(x, y) == {z \in Positions : (x < z /\ z < y) \/ (y < z /\ z < x)}

StaysInMaterial ==
  [][mode.walk = "surface" /\ Alive /\ Alive' =>
       \A z \in Between(particle.pos, particle'.pos) :
         Scene.truth[z] = Material(Scene, particle.stack)]_vars
=============================================================================
