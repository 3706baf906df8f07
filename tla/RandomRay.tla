----------------------------- MODULE RandomRay -----------------------------
(***************************************************************************)
(* The rays of the random ray solver (random_ray/solver.rs) on the         *)
(* geometry of RayTrace, and the flat source regions they are tallied in   *)
(* (random_ray/fsr.rs).                                                    *)
(*                                                                         *)
(* Each batch of run sweeps its rays one after the other.  A mortal ray    *)
(* is born anywhere, flies through a dead zone without a trace and then    *)
(* deposits its segments until its active length is used up or it leaves.  *)
(* Immortal rays have no dead zone, keep their place from batch to batch   *)
(* and are turned back at vacuum.  How long the zones are is left open:    *)
(* either ends at any odd position, or at the bound MaxSegments.  Fluxes,  *)
(* sources and k are numbers and are left out.                             *)
(***************************************************************************)
EXTENDS RayTrace

CONSTANTS
  RaysPerBatch, Batches,
  MaxSegments    \* 100_000 segments of one ray

ASSUME RandomRayAssumption == {RaysPerBatch, Batches, MaxSegments} \subseteq Nat \ {0}

VARIABLES
  batch,
  ray,        \* the ray of this batch that flies; particle is where
  states,     \* immortal rays: where each one rests
  active,     \* it is past its dead zone
  segments,   \* flown by this ray in this batch
  tracked     \* volume_track and track_psi: the positions tallied to each region

rayVars == <<batch, ray, states, active, segments, tracked>>
allVars == <<vars, rayVars>>

Immortal == mode.walk = "immortal"

-----------------------------------------------------------------------------
(***************************************************************************)
(* FsrMesh.                                                                *)
(***************************************************************************)
\* key_for_stack.
Key(stack) == <<Last(stack).cell, Last(stack).element>>

Voxel(m, x) == (x - m.scene.surface[m.scene.left].at) \div m.mesh.width

\* fsr_at.
Region(m, x, stack) == IF m.mesh.grid THEN Voxel(m, x) ELSE Key(stack)

\* from_geometry and cell_based: the region is given the material found at the first
\* sample point in it, None for void or where no sample has found it.
MaterialOf(f) ==
  LET samples == mode.mesh.samples
      found == {i \in DOMAIN samples :
                  LET stack == FindCell(Scene, samples[i]) IN
                    stack # <<>> /\ Region(mode, samples[i], stack) = f}
  IN IF found = {} THEN None
     ELSE Material(Scene, FindCell(Scene, samples[CHOOSE i \in found : \A j \in found : i <= j]))

-----------------------------------------------------------------------------
Finished(p) == [p EXCEPT !.status = "over"]

\* Where rays are sampled: the box around the mesh.
Births == {Neutron(x, dir, FindCell(Scene, x)) : x \in Positions, dir \in {-1, 1}}

RayInit ==
  /\ Init
  /\ batch = 1 /\ ray = 1 /\ segments = 0 /\ tracked = {}
  /\ active = Immortal
  /\ IF Immortal THEN states \in [1..RaysPerBatch -> Births] /\ particle = states[1]
                 ELSE states = <<>>

\* Mutant: the segment goes on past the surface, where the nudge has brought the ray.
SegmentWithNudge(p, x) == {p.pos} \cup Between(p.pos, x + 2 * p.dir)

\* The positions of a segment that ends before x.
Segment(p, x) == {p.pos} \cup Between(p.pos, x)

Tally(p, x) ==
  LET f == Region(mode, p.pos, p.stack) IN
    tracked' = IF active /\ MaterialOf(f) # None
               THEN tracked \cup {<<f, z>> : z \in Segment(p, x)} ELSE tracked

\* Turned back at position x, and the stack looked up past the nudge.
Turned(p, x) == Moved([p EXCEPT !.dir = - p.dir], x - p.dir)

\* A ray that has hit a boundary.
Bounced(p, hit) ==
  LET x == p.pos + p.dir * hit.distance IN
    IF Boundary(Scene, hit) = "reflective" \/ (Boundary(Scene, hit) = "vacuum" /\ Immortal)
    THEN Turned(p, x) ELSE Crossed(p, hit)

Flying == mode.walk \in Rays /\ Alive /\ segments < MaxSegments

\* The segment ends at a boundary.
ToBoundary ==
  /\ Flying /\ Ahead(particle) # NoHit
  /\ particle' = Bounced(particle, Ahead(particle))
  /\ Tally(particle, particle.pos + particle.dir * Ahead(particle).distance)
  /\ segments' = segments + 1
  /\ UNCHANGED <<mode, pending, batch, ray, states, active>>

\* The segment ends with the dead zone or with the active length.
ToPhaseEnd ==
  /\ Flying
  /\ \E d \in Flights(particle) :
       /\ Ahead(particle) = NoHit \/ d < Ahead(particle).distance
       /\ LET x == particle.pos + d * particle.dir
              moved == [particle EXCEPT !.pos = x] IN
            /\ Tally(particle, x)
            /\ particle' = IF active THEN Finished(moved) ELSE moved
  /\ active' = TRUE
  /\ segments' = segments + 1
  /\ UNCHANGED <<mode, pending, batch, ray, states>>

\* Mutant: an immortal ray keeps the direction it was born with.
RestedHeadingAsBorn ==
  IF Immortal
    THEN [states EXCEPT ![ray] = [particle EXCEPT !.status = "alive", !.dir = states[ray].dir]]
    ELSE states

Rested == IF Immortal THEN [states EXCEPT ![ray] = [particle EXCEPT !.status = "alive"]] ELSE states

\* The next ray of the sweep, or of the next batch, whose tallies start from zero.
NextRay ==
  /\ mode.walk \in Rays /\ ~ Flying
  /\ ray < RaysPerBatch \/ batch < Batches
  /\ ray' = IF ray < RaysPerBatch THEN ray + 1 ELSE 1
  /\ batch' = IF ray < RaysPerBatch THEN batch ELSE batch + 1
  /\ tracked' = IF ray < RaysPerBatch THEN tracked ELSE {}
  /\ states' = Rested
  /\ IF Immortal THEN particle' = states'[ray'] ELSE particle' \in Births
  /\ active' = Immortal
  /\ segments' = 0
  /\ UNCHANGED <<mode, pending>>

RayNext ==
  \/ Next /\ UNCHANGED rayVars
  \/ ToBoundary \/ ToPhaseEnd \/ NextRay

RaySpec == RayInit /\ [][RayNext]_allVars

-----------------------------------------------------------------------------
\* The regions of a mesh, as the tallies take them: of one material, left only where the
\* stack changes, and found by samples taken inside the scene.
MeshFits(m) ==
  LET places == DOMAIN m.scene.truth
      at(x) == Region(m, x, FindCell(m.scene, x))
  IN m.walk \in Rays =>
       /\ m.mesh.samples \in Seq(places)
       /\ \A x \in places : x + 2 \in places /\ FindCell(m.scene, x) = FindCell(m.scene, x + 2) =>
            at(x) = at(x + 2)
       /\ \A x, y \in places : at(x) = at(y) => m.scene.truth[x] = m.scene.truth[y]

\* What a ray deposits in a region was flown in that region and through its material:
\* volume_track[f] is "the sum of all ray segment lengths in FSR f", solver.rs:416.
TalliedWhereFlown ==
  \A t \in tracked :
    /\ Region(mode, t[2], FindCell(Scene, t[2])) = t[1]
    /\ MaterialOf(t[1]) = Scene.truth[t[2]]

\* Where a ray is, where it heads and the cells it is in.
Place(p) == <<p.pos, p.dir, p.stack>>

\* An immortal ray is never lost, and takes up each batch at the position, in the
\* direction and with the stack with which it ended the last.
ImmortalsStay ==
  [][Immortal =>
       /\ particle'.status # "leaked"
       /\ <<batch', ray'>> # <<batch, ray>> =>
            Place(states'[ray]) = Place(particle) /\ Place(particle') = Place(states'[ray'])]_allVars
=============================================================================
