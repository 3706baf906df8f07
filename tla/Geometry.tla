------------------------------ MODULE Geometry ------------------------------
(***************************************************************************)
(* Nested geometry: the coordinate stack of geometry/ray.rs, lattice.rs    *)
(* and coord.rs, and the search for the next boundary along a direction.   *)
(*                                                                         *)
(* Space is one line with integer positions.  Surfaces, origins and grid   *)
(* planes lie at even coordinates of their frame, particles fly and        *)
(* collide at odd ones.  The nudge past a surface is one unit and the one  *)
(* rotation of a line is x |-> -x.                                         *)
(*                                                                         *)
(* A geometry g has                                                        *)
(*   surface[s] = [at, bc]                                                 *)
(*   universe[u] = its cells in the order of their indices                 *)
(*   cell[c] = [region, fill, of, turned]: a union of intersections of     *)
(*     half-spaces, what fills it, and whether a rotation goes with it     *)
(*   lattice[l] = [origin, pitch, elements, overrides]                     *)
(*   root, the outermost universe                                          *)
(* and, for the checks, truth[x], the material meant at x, and left and    *)
(* right, the two outermost surfaces.                                      *)
(***************************************************************************)
EXTENDS Integers, Sequences, SequencesExt, FiniteSets

CONSTANTS
  MaxDepth,     \* MAX_COORD_DEPTH
  None

Even(x) == x % 2 = 0

Turn(turned, x) == IF turned THEN - x ELSE x

Surfaces(g, c) == {h.surface : h \in UNION g.cell[c].region}

-----------------------------------------------------------------------------
(***************************************************************************)
(* find_cell_recursive: from the root universe down to a cell of material  *)
(* or void.                                                                *)
(***************************************************************************)
\* Region::contains: a point on a surface is on neither side of it.
Inside(g, c, x) ==
  \E clause \in g.cell[c].region :
    \A h \in clause :
      IF h.positive THEN x > g.surface[h.surface].at ELSE x < g.surface[h.surface].at

\* RectLattice::find_element, local_position and universe_at.
Element(g, l, x) == (x - g.lattice[l].origin) \div g.lattice[l].pitch
Exists(g, l, i) == i \in 0..(Len(g.lattice[l].elements) - 1)

Centre(g, l, i) ==
  g.lattice[l].origin + i * g.lattice[l].pitch + g.lattice[l].pitch \div 2

\* A frame of the stack.
Coord(c, frame) ==
  [cell |-> c, lattice |-> frame.lattice, element |-> frame.element,
   offset |-> frame.offset, turned |-> frame.turned]

Frame(u, l, i, offset, turned) ==
  [universe |-> u, lattice |-> l, element |-> i, offset |-> offset, turned |-> turned]

Root(g) == Frame(g.root, None, 0, 0, FALSE)

\* The frame below cell c at local position x: none below material, void and outside
\* the elements of a lattice.
Below(g, c, x) ==
  LET l == g.cell[c].of
      i == Element(g, l, x)
  IN IF g.cell[c].fill = "universe" THEN {Frame(g.cell[c].of, None, 0, 0, g.cell[c].turned)}
     ELSE IF g.cell[c].fill = "lattice" /\ Exists(g, l, i)
     THEN {Frame(g.lattice[l].elements[i + 1], l, i, Centre(g, l, i), g.cell[c].turned)}
     ELSE {}

\* The first cell of universe u, in the order of their indices, that contains x.
FirstCell(g, u, x) ==
  {g.universe[u][i] : i \in {j \in DOMAIN g.universe[u] :
     /\ Inside(g, g.universe[u][j], x)
     /\ \A k \in 1..(j - 1) : ~ Inside(g, g.universe[u][k], x)}}

\* One level down, from position x of the frame above.
Enter(g, frame, x) ==
  LET y == Turn(frame.turned, x - frame.offset)
  IN {[x |-> y, cell |-> c, frame |-> frame] : c \in FirstCell(g, frame.universe, y)}

\* What is found one level below.
Descend(g, level) == UNION {UNION {Enter(g, f, l.x) : f \in Below(g, l.cell, l.x)} : l \in level}

\* The descent: what is found at each level, nothing below the last.
Levels(g, x) ==
  LET level[n \in 1..MaxDepth] ==
        IF n = 1 THEN Enter(g, Root(g), x) ELSE Descend(g, level[n - 1])
  IN level

\* The depths at which a descent arrives.
Ends(g, x) ==
  {n \in 1..MaxDepth : \E l \in Levels(g, x)[n] : g.cell[l.cell].fill \in {"material", "void"}}

\* The stack, or the empty one where no cell is found or the descent goes too deep.
FindCell(g, x) ==
  LET level == Levels(g, x)   ends == Ends(g, x) IN
    IF ends = {} THEN <<>>
    ELSE [n \in 1..(CHOOSE m \in ends : TRUE) |->
            LET l == CHOOSE l \in level[n] : TRUE IN Coord(l.cell, l.frame)]

\* effective_material_idx: an override of the lattice element wins; None for void.
Material(g, stack) ==
  LET deepest == Last(stack) IN
    IF deepest.lattice # None
         /\ <<deepest.element, deepest.cell>> \in DOMAIN g.lattice[deepest.lattice].overrides
    THEN g.lattice[deepest.lattice].overrides[<<deepest.element, deepest.cell>>]
    ELSE IF g.cell[deepest.cell].fill = "material" THEN g.cell[deepest.cell].of ELSE None

-----------------------------------------------------------------------------
(***************************************************************************)
(* trace_step_recursive: the nearest surface of a cell on the stack, or    *)
(* the nearest grid plane of a lattice on it.                              *)
(***************************************************************************)
\* local_positions and local_directions; depth 0 is the world.
LocalPos(stack, x) ==
  LET at[i \in 0..Len(stack)] ==
        IF i = 0 THEN x ELSE Turn(stack[i].turned, at[i - 1] - stack[i].offset)
  IN at

LocalDir(stack, dir) ==
  LET along[i \in 0..Len(stack)] ==
        IF i = 0 THEN dir ELSE Turn(stack[i].turned, along[i - 1])
  IN along

GridPlane(g, l, k) == g.lattice[l].origin + k * g.lattice[l].pitch

\* RectLattice::distance_to_grid: from a plane, the distance to the next one.
DistanceToGrid(g, l, x, dir, i) ==
  LET plane(k) == (GridPlane(g, l, k) - x) * dir
      ahead == IF dir > 0 THEN i + 1 ELSE i
  IN IF plane(ahead) > 0 THEN plane(ahead) ELSE plane(ahead + dir)

Hit(distance, surface, depth) == [distance |-> distance, surface |-> surface, depth |-> depth]
NoHit == Hit(0, None, 0)

\* Mutant: only the surfaces of the innermost cell.
SurfaceHitsOfDeepest(g, stack, x, dir) ==
  LET i == Len(stack)
      at == LocalPos(stack, x)[i]   along == LocalDir(stack, dir)[i]
  IN {h \in {Hit((g.surface[s].at - at) * along, s, i) : s \in Surfaces(g, stack[i].cell)} :
        h.distance > 0}

SurfaceHits(g, stack, x, dir) ==
  LET at == LocalPos(stack, x)   along == LocalDir(stack, dir)
  IN {h \in UNION {{Hit((g.surface[s].at - at[i]) * along[i], s, i) :
                      s \in Surfaces(g, stack[i].cell)} : i \in DOMAIN stack} :
        h.distance > 0}

GridHits(g, stack, x, dir) ==
  LET at == LocalPos(stack, x)   along == LocalDir(stack, dir)
  IN {Hit(DistanceToGrid(g, stack[i].lattice, at[i - 1], along[i - 1], stack[i].element), None, i) :
        i \in {j \in DOMAIN stack : stack[j].lattice # None}}

\* Of hits at one distance the one met first on the way down counts.
Shallowest(hits) == CHOOSE h \in hits : \A k \in hits : h.depth <= k.depth

Nearest(hits) == {h \in hits : \A k \in hits : h.distance <= k.distance}

\* Mutant: grid planes win ties.
TraceStepGridFirst(g, stack, x, dir) ==
  LET surfaces == SurfaceHits(g, stack, x, dir)
      near == Nearest(surfaces \cup GridHits(g, stack, x, dir))
  IN IF near = {} THEN NoHit
     ELSE IF near \subseteq surfaces THEN Shallowest(near)
     ELSE Shallowest(near \ surfaces)

TraceStep(g, stack, x, dir) ==
  LET surfaces == SurfaceHits(g, stack, x, dir)
      near == Nearest(surfaces \cup GridHits(g, stack, x, dir))
  IN IF near = {} THEN NoHit
     ELSE IF near \cap surfaces # {} THEN Shallowest(near \cap surfaces)
     ELSE Shallowest(near)

Boundary(g, hit) == IF hit.surface = None THEN "transmission" ELSE g.surface[hit.surface].bc

-----------------------------------------------------------------------------
(***************************************************************************)
(* What a scene must be, which the code takes for granted: geometries are  *)
(* not tested for gaps, overlaps or stray boundary conditions.             *)
(***************************************************************************)
\* The references of the parts to one another hold, and nothing is nested in the root.
Linked(g) ==
  /\ \A s \in DOMAIN g.surface :
       /\ g.surface[s].at \in Int /\ Even(g.surface[s].at)
       /\ g.surface[s].bc \in {"transmission", "reflective", "vacuum"}
  /\ \A u \in DOMAIN g.universe :
       g.universe[u] \in Seq(DOMAIN g.cell)
  /\ \A c \in DOMAIN g.cell :
       /\ Surfaces(g, c) \subseteq DOMAIN g.surface
       /\ g.cell[c].turned \in BOOLEAN
       /\ g.cell[c].fill = "universe" => g.cell[c].of \in DOMAIN g.universe \ {g.root}
       /\ g.cell[c].fill = "lattice" => g.cell[c].of \in DOMAIN g.lattice
  /\ \A l \in DOMAIN g.lattice :
       /\ g.lattice[l].origin \in Int /\ Even(g.lattice[l].origin)
       /\ g.lattice[l].pitch \in Nat \ {0} /\ g.lattice[l].pitch % 4 = 0
       /\ g.lattice[l].elements \in Seq(DOMAIN g.universe \ {g.root})
  /\ g.root \in DOMAIN g.universe
  /\ {g.left, g.right} \subseteq DOMAIN g.surface
  /\ None \notin DOMAIN g.surface /\ None \notin DOMAIN g.lattice

\* The root universe lies between the borders, which are mirrors or vacuum; no other
\* surface is, and where one ends a cell of the root, no other surface of it does.
Bounded(g) ==
  /\ g.surface[g.left].at < g.surface[g.right].at
  /\ \A s \in DOMAIN g.surface : g.surface[s].bc = "transmission" <=> s \notin {g.left, g.right}
  /\ \A u \in DOMAIN g.universe \ {g.root} : \A i \in DOMAIN g.universe[u] :
       Surfaces(g, g.universe[u][i]) \cap {g.left, g.right} = {}
  /\ \A i \in DOMAIN g.universe[g.root] :
       LET c == g.universe[g.root][i] IN
         /\ \A clause \in g.cell[c].region :
              /\ \E h \in clause : h.positive /\ g.surface[h.surface].at >= g.surface[g.left].at
              /\ \E h \in clause : ~ h.positive /\ g.surface[h.surface].at <= g.surface[g.right].at
         /\ \A s \in Surfaces(g, c), border \in {g.left, g.right} :
              g.surface[s].at = g.surface[border].at => s = border

\* Every position between the borders is in one cell of each universe it is found in,
\* of the material that was meant.
Complete(g) ==
  /\ DOMAIN g.truth = {x \in g.surface[g.left].at..g.surface[g.right].at : ~ Even(x)}
  /\ \A x \in DOMAIN g.truth :
       /\ FindCell(g, x) # <<>>
       /\ Material(g, FindCell(g, x)) = g.truth[x]
       /\ \A n \in 1..MaxDepth : \A l \in Levels(g, x)[n] :
            LET cells == g.universe[l.frame.universe] IN
              \A i, j \in DOMAIN cells :
                Inside(g, cells[i], l.x) /\ Inside(g, cells[j], l.x) => i = j

WellFormed(g) == Linked(g) /\ Bounded(g) /\ Complete(g)
=============================================================================
