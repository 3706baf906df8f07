----------------------------- MODULE MCRayTrace -----------------------------
(***************************************************************************)
(* Three scenes: a flat box with a void gap; a lattice of two pins whose   *)
(* outer grid planes lie on mirrors; a rotated universe beside a rotated   *)
(* lattice with a universe nested in one of its elements.                  *)
(***************************************************************************)
EXTENDS RandomRay, TLC

Plane(x, bc) == [at |-> x, bc |-> bc]
Over(s) == [surface |-> s, positive |-> TRUE]
Under(s) == [surface |-> s, positive |-> FALSE]
Filled(region, fill, of, turned) ==
  [region |-> region, fill |-> fill, of |-> of, turned |-> turned]
Of(region, m) == Filled(region, "material", m, FALSE)
NoOverrides == [x \in {} |-> None]

\* Where truth is not stated it is `other`.
Truth(last, stated, other) ==
  [x \in {y \in 1..last : ~ Even(y)} |-> IF x \in DOMAIN stated THEN stated[x] ELSE other]

Box ==
  [surface |-> [left |-> Plane(0, "reflective"), a |-> Plane(4, "transmission"),
                b |-> Plane(8, "transmission"), right |-> Plane(12, "vacuum")],
   universe |-> [world |-> <<"fuel", "gap">>],
   cell |-> [fuel |-> Of({{Over("left"), Under("a")}, {Over("b"), Under("right")}}, "U"),
             gap |-> Filled({{Over("a"), Under("b")}}, "void", None, FALSE)],
   lattice |-> [none |-> [origin |-> 0, pitch |-> 4, elements |-> <<>>, overrides |-> NoOverrides]],
   root |-> "world", left |-> "left", right |-> "right",
   truth |-> Truth(12, (5 :> None) @@ (7 :> None), "U")]

Pins ==
  [surface |-> [left |-> Plane(0, "reflective"), right |-> Plane(16, "reflective"),
                a |-> Plane(-2, "transmission"), b |-> Plane(2, "transmission")],
   universe |-> [world |-> <<"core">>, pin |-> <<"water", "rod">>],
   cell |-> [core |-> Filled({{Over("left"), Under("right")}}, "lattice", "grid", FALSE),
             rod |-> Of({{Over("a"), Under("b")}}, "U"),
             water |-> Of({{Under("a")}, {Over("b")}}, "H")],
   lattice |-> [grid |-> [origin |-> 0, pitch |-> 8, elements |-> <<"pin", "pin">>,
                          overrides |-> (<<1, "rod">> :> "Gd")]],
   root |-> "world", left |-> "left", right |-> "right",
   truth |-> Truth(16, (3 :> "U") @@ (5 :> "U") @@ (11 :> "Gd") @@ (13 :> "Gd"), "H")]

Nested(bc) ==
  [surface |-> [left |-> Plane(0, "vacuum"), mid |-> Plane(8, "transmission"),
                right |-> Plane(24, bc), a |-> Plane(-2, "transmission"),
                b |-> Plane(2, "transmission")],
   universe |-> [world |-> <<"west", "east">>, blade |-> <<"foil", "clad">>,
                 pin |-> <<"rod", "water">>, can |-> <<"inside">>, hole |-> <<"duct", "wall">>],
   cell |-> [west |-> Filled({{Over("left"), Under("mid")}}, "universe", "blade", TRUE),
             east |-> Filled({{Over("mid"), Under("right")}}, "lattice", "grid", TRUE),
             foil |-> Of({{Over("a")}}, "B"), clad |-> Of({{Under("a")}}, "Zr"),
             rod |-> Of({{Over("b")}}, "U"), water |-> Of({{Under("b")}}, "H"),
             inside |-> Filled({{}}, "universe", "hole", TRUE),
             duct |-> Filled({{Under("a")}}, "void", None, FALSE), wall |-> Of({{Over("a")}}, "Zr")],
   lattice |-> [grid |-> [origin |-> 8, pitch |-> 8, elements |-> <<"pin", "can">>,
                          overrides |-> NoOverrides]],
   root |-> "world", left |-> "left", right |-> "right",
   truth |-> Truth(24, (1 :> "B") @@ (9 :> "U") @@ (11 :> "H") @@ (13 :> "H") @@ (15 :> "H")
                         @@ (17 :> None), "Zr")]

Samples(m) == [i \in 1..Cardinality(DOMAIN m.truth) |-> 2 * i - 1]

\* One region for each cell and element, or voxels of a width.
CellMesh(scene) == [grid |-> FALSE, width |-> 0, samples |-> Samples(scene)]
Voxels(scene, w) == [grid |-> TRUE, width |-> w, samples |-> Samples(scene)]

Mode(scene, walk, multiplies, mesh) ==
  [scene |-> scene, walk |-> walk, multiplies |-> multiplies, mesh |-> mesh]

Walk(scene, walk) == Mode(scene, walk, FALSE, CellMesh(scene))

MCModes ==
  {Mode(Box, "surface", TRUE, CellMesh(Box)), Walk(Pins, "surface"),
   Walk(Nested("reflective"), "surface"), Walk(Nested("vacuum"), "delta"),
   Mode(Box, "ray", FALSE, Voxels(Box, 4)), Walk(Pins, "ray"), Walk(Nested("reflective"), "ray"),
   Walk(Nested("reflective"), "immortal")}

ASSUME ModesAssumption ==
  \A m \in MCModes : EmitsFlat(m) /\ FliesToVacuum(m) /\ MeshFits(m)

\* Neutrons emitted in a nested cell.
EmittingModes == {Mode(Pins, "surface", TRUE, CellMesh(Pins))}

\* A flight with delta tracking over a surface towards a mirror.
MirrorModes == {Walk(Box, "delta")}

\* Voxels finer than the cells.
FineVoxelModes == {Mode(Box, "ray", FALSE, Voxels(Box, 2))}
=============================================================================
