----------------------------- MODULE RayProofs -----------------------------
(***************************************************************************)
(* Theorems about neutrons and rays in nested geometry, for every well-    *)
(* formed scene of any depth, every number of rays, batches and segments.  *)
(***************************************************************************)
EXTENDS RandomRay, WellFoundedInduction, SequenceTheorems, TLAPS

-----------------------------------------------------------------------------
(***************************************************************************)
(* Induction, stated of sets.                                              *)
(***************************************************************************)
LEMMA Least ==
  ASSUME NEW T \in SUBSET Nat, T # {}
  PROVE  \E m \in T : \A n \in T : m <= n
<1> DEFINE R == OpToRel(<, Nat)
<1>1. \E m \in T : \A n \in T : ~ (<<n, m>> \in R)
  <2>1. IsWellFoundedOn(R, Nat)
    BY NatLessThanWellFounded
  <2> HIDE DEF R
  <2> QED
    BY <2>1, WFMin
<1>2. PICK m \in T : \A n \in T : ~ (<<n, m>> \in R)
  BY <1>1
<1>3. ASSUME NEW n \in T PROVE m <= n
  <2>1. <<n, m>> \in R <=> n < m
    BY DEF OpToRel
  <2> HIDE DEF R
  <2> QED
    BY <1>2, <2>1
<1> QED
  BY <1>3

LEMMA SetInduction ==
  ASSUME NEW S, NEW a \in Nat, NEW b \in Nat, a \in S,
         \A n \in a..(b - 1) : n \in S => n + 1 \in S
  PROVE  a..b \subseteq S
<1> SUFFICES ASSUME NEW k \in a..b, k \notin S
             PROVE  FALSE
  OBVIOUS
<1> DEFINE T == (a..b) \ S
<1>1. PICK m \in T : \A n \in T : m <= n
  <2>1. T \in SUBSET Nat /\ T # {}
    OBVIOUS
  <2> HIDE DEF T
  <2> QED
    BY <2>1, Least
<1>2. m # a /\ m - 1 \in a..(b - 1) /\ m - 1 \in S
  BY <1>1
<1> QED
  BY <1>1, <1>2

-----------------------------------------------------------------------------
(***************************************************************************)
(* The recursive definitions are what they say.                            *)
(***************************************************************************)
LEMMA LocalPosEq ==
  ASSUME NEW s, Len(s) \in Nat, NEW x
  PROVE  /\ LocalPos(s, x)[0] = x
         /\ \A i \in 1..Len(s) :
              LocalPos(s, x)[i] = Turn(s[i].turned, LocalPos(s, x)[i - 1] - s[i].offset)
<1> DEFINE F(f, n) == [i \in 0..n |->
                        IF i = 0 THEN x ELSE Turn(s[i].turned, f[i - 1] - s[i].offset)]
<1> DEFINE S == {n \in Nat : \E f : f = F(f, n)}
<1>1. 0 \in S
  <2>1. [i \in 0..0 |-> x] = F([i \in 0..0 |-> x], 0)
    OBVIOUS
  <2> QED
    BY <2>1
<1>2. ASSUME NEW n \in Nat, n \in S
      PROVE  n + 1 \in S
  <2> PICK f : f = F(f, n)
    BY <1>2
  <2> DEFINE h == [i \in 0..(n + 1) |->
                     IF i = n + 1 THEN Turn(s[i].turned, f[n] - s[i].offset) ELSE f[i]]
  <2>1. \A i \in 0..n : h[i] = f[i]
    OBVIOUS
  <2>2. ASSUME NEW i \in 0..(n + 1)
        PROVE  h[i] = IF i = 0 THEN x ELSE Turn(s[i].turned, h[i - 1] - s[i].offset)
    <3>1. CASE i = n + 1
      BY <3>1, <2>1
    <3>2. CASE i # n + 1
      <4>1. i \in 0..n /\ (i # 0 => i - 1 \in 0..n)
        BY <3>2
      <4>2. f[i] = IF i = 0 THEN x ELSE Turn(s[i].turned, f[i - 1] - s[i].offset)
        BY <4>1
      <4> HIDE DEF h
      <4> QED
        BY <4>1, <4>2, <2>1
    <3> QED
      BY <3>1, <3>2
  <2>3. h = [i \in 0..(n + 1) |-> h[i]]
    OBVIOUS
  <2>4. h = F(h, n + 1)
    <3> HIDE DEF h
    <3> QED
      BY <2>2, <2>3
  <2> HIDE DEF h, F
  <2> QED
    BY <2>4
<1>3. Len(s) \in S
  <2> HIDE DEF S
  <2>1. 0..Len(s) \subseteq S
    BY <1>1, <1>2, SetInduction
  <2> QED
    BY <2>1
<1> DEFINE H == CHOOSE f : f = F(f, Len(s))
<1>4. H = F(H, Len(s))
  BY <1>3
<1>5. LocalPos(s, x) = H
  BY DEF LocalPos
<1> HIDE DEF H
<1> QED
  BY <1>4, <1>5

LEMMA LocalDirEq ==
  ASSUME NEW s, Len(s) \in Nat, NEW d
  PROVE  /\ LocalDir(s, d)[0] = d
         /\ \A i \in 1..Len(s) : LocalDir(s, d)[i] = Turn(s[i].turned, LocalDir(s, d)[i - 1])
<1> DEFINE F(f, n) == [i \in 0..n |-> IF i = 0 THEN d ELSE Turn(s[i].turned, f[i - 1])]
<1> DEFINE S == {n \in Nat : \E f : f = F(f, n)}
<1>1. 0 \in S
  <2>1. [i \in 0..0 |-> d] = F([i \in 0..0 |-> d], 0)
    OBVIOUS
  <2> QED
    BY <2>1
<1>2. ASSUME NEW n \in Nat, n \in S
      PROVE  n + 1 \in S
  <2> PICK f : f = F(f, n)
    BY <1>2
  <2> DEFINE h == [i \in 0..(n + 1) |-> IF i = n + 1 THEN Turn(s[i].turned, f[n]) ELSE f[i]]
  <2>1. \A i \in 0..n : h[i] = f[i]
    OBVIOUS
  <2>2. ASSUME NEW i \in 0..(n + 1)
        PROVE  h[i] = IF i = 0 THEN d ELSE Turn(s[i].turned, h[i - 1])
    <3>1. CASE i = n + 1
      BY <3>1, <2>1
    <3>2. CASE i # n + 1
      <4>1. i \in 0..n /\ (i # 0 => i - 1 \in 0..n)
        BY <3>2
      <4>2. f[i] = IF i = 0 THEN d ELSE Turn(s[i].turned, f[i - 1])
        BY <4>1
      <4> HIDE DEF h
      <4> QED
        BY <4>1, <4>2, <2>1
    <3> QED
      BY <3>1, <3>2
  <2>3. h = [i \in 0..(n + 1) |-> h[i]]
    OBVIOUS
  <2>4. h = F(h, n + 1)
    <3> HIDE DEF h
    <3> QED
      BY <2>2, <2>3
  <2> HIDE DEF h, F
  <2> QED
    BY <2>4
<1>3. Len(s) \in S
  <2> HIDE DEF S
  <2>1. 0..Len(s) \subseteq S
    BY <1>1, <1>2, SetInduction
  <2> QED
    BY <2>1
<1> DEFINE H == CHOOSE f : f = F(f, Len(s))
<1>4. H = F(H, Len(s))
  BY <1>3
<1>5. LocalDir(s, d) = H
  BY DEF LocalDir
<1> HIDE DEF H
<1> QED
  BY <1>4, <1>5

LEMMA LevelsEq ==
  ASSUME NEW g, NEW x
  PROVE  \A n \in 1..MaxDepth :
           Levels(g, x)[n] = IF n = 1 THEN Enter(g, Root(g), x) ELSE Descend(g, Levels(g, x)[n - 1])
<1> DEFINE F(f, n) == [i \in 1..n |-> IF i = 1 THEN Enter(g, Root(g), x) ELSE Descend(g, f[i - 1])]
<1> DEFINE S == {n \in Nat : \E f : f = F(f, n)}
<1>0. MaxDepth \in Nat
  BY RayAssumption
<1>1. 0 \in S
  <2>1. [i \in 1..0 |-> x] = F([i \in 1..0 |-> x], 0)
    OBVIOUS
  <2> QED
    BY <2>1
<1>2. ASSUME NEW n \in Nat, n \in S
      PROVE  n + 1 \in S
  <2> PICK f : f = F(f, n)
    BY <1>2
  <2> DEFINE new == IF n = 0 THEN Enter(g, Root(g), x) ELSE Descend(g, f[n])
  <2> DEFINE h == [i \in 1..(n + 1) |-> IF i = n + 1 THEN new ELSE f[i]]
  <2>1. \A i \in 1..n : h[i] = f[i]
    OBVIOUS
  <2>2. ASSUME NEW i \in 1..(n + 1)
        PROVE  h[i] = IF i = 1 THEN Enter(g, Root(g), x) ELSE Descend(g, h[i - 1])
    <3>1. CASE i = n + 1
      <4>1. i # 1 => h[i - 1] = f[n]
        BY <3>1, <2>1
      <4>2. h[i] = new
        BY <3>1
      <4> HIDE DEF h
      <4> QED
        BY <3>1, <4>1, <4>2
    <3>2. CASE i # n + 1
      <4>1. i \in 1..n /\ (i # 1 => i - 1 \in 1..n)
        BY <3>2
      <4>2. f[i] = IF i = 1 THEN Enter(g, Root(g), x) ELSE Descend(g, f[i - 1])
        BY <4>1
      <4> HIDE DEF h
      <4> QED
        BY <4>1, <4>2, <2>1
    <3> QED
      BY <3>1, <3>2
  <2>3. h = [i \in 1..(n + 1) |-> h[i]]
    OBVIOUS
  <2>4. h = F(h, n + 1)
    <3> HIDE DEF h
    <3> QED
      BY <2>2, <2>3
  <2> HIDE DEF h, F
  <2> QED
    BY <2>4
<1>3. MaxDepth \in S
  <2> HIDE DEF S
  <2>1. 0..MaxDepth \subseteq S
    BY <1>0, <1>1, <1>2, SetInduction
  <2> QED
    BY <1>0, <2>1
<1> DEFINE H == CHOOSE f : f = F(f, MaxDepth)
<1>4. H = F(H, MaxDepth)
  BY <1>3
<1>5. Levels(g, x) = H
  BY DEF Levels
<1> HIDE DEF H
<1> QED
  BY <1>4, <1>5

-----------------------------------------------------------------------------
(***************************************************************************)
(* One level of the descent.                                               *)
(***************************************************************************)
LEMMA EvenShift ==
  ASSUME NEW x \in Int, NEW o \in Int, Even(o)
  PROVE  Even(x - o) <=> Even(x)
BY DEF Even

LEMMA EvenSum ==
  ASSUME NEW x \in Int, Even(x), NEW y \in Int, Even(y)
  PROVE  x + y \in Int /\ Even(x + y)
BY DEF Even

LEMMA TurnFacts ==
  ASSUME NEW x \in Int, NEW turned \in BOOLEAN
  PROVE  /\ Turn(turned, x) \in Int
         /\ Even(Turn(turned, x)) <=> Even(x)
BY DEF Turn, Even

\* Grid planes lie at even positions.
LEMMA PlaneEven ==
  ASSUME NEW o \in Int, Even(o), NEW q \in Nat, q % 4 = 0, NEW i \in Int
  PROVE  o + i * q \in Int /\ Even(o + i * q)
<1>1. PICK k \in Int : q = 4 * k
  BY q = 4 * (q \div 4)
<1>2. i * q \in Int /\ i * k \in Int
  OBVIOUS
<1>3. i * q = 4 * (i * k)
  BY <1>1
<1>4. PICK m \in Int : m = i * k
  BY <1>2
<1>5. i * q = 4 * m
  BY <1>3, <1>4
<1>6. PICK n \in Int : n = i * q
  BY <1>2
<1> QED
  BY <1>5, <1>6 DEF Even

\* Frames as FindCell meets them.
FrameOK(g, f) ==
  /\ f.universe \in DOMAIN g.universe
  /\ f.turned \in BOOLEAN
  /\ f.offset \in Int /\ Even(f.offset)

LEMMA RootOK ==
  ASSUME NEW g, Linked(g)
  PROVE  FrameOK(g, Root(g)) /\ Root(g).universe = g.root
BY DEF Linked, FrameOK, Root, Frame, Even

LEMMA ElementFacts ==
  ASSUME NEW g, Linked(g), NEW l \in DOMAIN g.lattice, NEW x \in Int
  PROVE  /\ Element(g, l, x) \in Int
         /\ g.lattice[l].origin + Element(g, l, x) * g.lattice[l].pitch <= x
         /\ x < g.lattice[l].origin + (Element(g, l, x) + 1) * g.lattice[l].pitch
<1> DEFINE o == g.lattice[l].origin
           q == g.lattice[l].pitch
<1>1. o \in Int /\ q \in Nat \ {0}
  BY DEF Linked
<1>2. Element(g, l, x) = (x - o) \div q
  BY DEF Element
<1> HIDE DEF o, q
<1>3. PICK i \in Int : i = (x - o) \div q
  BY <1>1
<1>4. q * i <= x - o /\ x - o < q * i + q
  <2>1. PICK a \in Int : a = x - o
    BY <1>1
  <2>2. a = q * (a \div q) + (a % q) /\ a % q \in 0..(q - 1)
    BY <1>1, Z3
  <2> QED
    BY <1>1, <1>3, <2>1, <2>2
<1>5. (i + 1) * q = i * q + q /\ i * q = q * i
  BY <1>1
<1> QED
  BY <1>1, <1>2, <1>3, <1>4, <1>5 DEF o, q

\* The element of a position between two planes.
LEMMA ElementIs ==
  ASSUME NEW g, Linked(g), NEW l \in DOMAIN g.lattice, NEW x \in Int, NEW i \in Int,
         g.lattice[l].origin + i * g.lattice[l].pitch <= x,
         x < g.lattice[l].origin + (i + 1) * g.lattice[l].pitch
  PROVE  Element(g, l, x) = i
<1> DEFINE o == g.lattice[l].origin
           q == g.lattice[l].pitch
           j == Element(g, l, x)
<1>1. o \in Int /\ q \in Nat \ {0}
  BY DEF Linked
<1>2. j \in Int /\ o + j * q <= x /\ x < o + (j + 1) * q
  BY ElementFacts
<1> HIDE DEF o, q, j
<1>3. o + i * q <= x /\ x < o + (i + 1) * q
  BY DEF o, q
<1>4. ~ (j < i)
  <2> SUFFICES ASSUME j < i PROVE FALSE
    OBVIOUS
  <2>1. (j + 1) * q <= i * q
    BY <1>1, <1>2, j + 1 <= i
  <2> QED
    BY <1>1, <1>2, <1>3, <2>1
<1>5. ~ (i < j)
  <2> SUFFICES ASSUME i < j PROVE FALSE
    OBVIOUS
  <2>1. (i + 1) * q <= j * q
    BY <1>1, <1>2, i + 1 <= j
  <2> QED
    BY <1>1, <1>2, <1>3, <2>1
<1> QED
  BY <1>2, <1>4, <1>5 DEF j

LEMMA BelowFacts ==
  ASSUME NEW g, Linked(g), NEW c \in DOMAIN g.cell, NEW x \in Int,
         NEW f \in Below(g, c, x)
  PROVE  /\ FrameOK(g, f) /\ f.universe # g.root
         /\ g.cell[c].fill \in {"universe", "lattice"}
         /\ Below(g, c, x) = {f}
         /\ \/ g.cell[c].fill = "universe" /\ f.lattice = None
            \/ /\ g.cell[c].fill = "lattice" /\ f.lattice = g.cell[c].of
               /\ f.lattice \in DOMAIN g.lattice
               /\ f.element = Element(g, f.lattice, x)
<1>1. CASE g.cell[c].fill = "universe"
  <2>1. Below(g, c, x) = {Frame(g.cell[c].of, None, 0, 0, g.cell[c].turned)}
    BY <1>1 DEF Below
  <2>2. f = Frame(g.cell[c].of, None, 0, 0, g.cell[c].turned)
    BY <2>1
  <2>3. g.cell[c].of \in DOMAIN g.universe \ {g.root} /\ g.cell[c].turned \in BOOLEAN
    BY <1>1 DEF Linked
  <2> QED
    BY <1>1, <2>1, <2>2, <2>3 DEF Frame, FrameOK, Even
<1>2. CASE g.cell[c].fill # "universe"
  <2> DEFINE l == g.cell[c].of
             i == Element(g, l, x)
  <2>1. g.cell[c].fill = "lattice" /\ Exists(g, l, i)
    BY <1>2 DEF Below
  <2>2. Below(g, c, x) =
          {Frame(g.lattice[l].elements[i + 1], l, i, Centre(g, l, i), g.cell[c].turned)}
    BY <1>2, <2>1 DEF Below
  <2>3. l \in DOMAIN g.lattice /\ g.cell[c].turned \in BOOLEAN
    BY <2>1 DEF Linked
  <2>4. i \in Int /\ Centre(g, l, i) \in Int /\ Even(Centre(g, l, i))
    <3> HIDE DEF i
    <3>1. i \in Int
      BY <2>3, ElementFacts DEF i
    <3>2. /\ g.lattice[l].origin \in Int /\ Even(g.lattice[l].origin)
          /\ g.lattice[l].pitch \in Nat /\ g.lattice[l].pitch % 4 = 0
      BY <2>3 DEF Linked
    <3>3. PICK plane \in Int : plane = g.lattice[l].origin + i * g.lattice[l].pitch /\ Even(plane)
      BY <3>1, <3>2, PlaneEven
    <3>4. PICK half \in Int : half = g.lattice[l].pitch \div 2 /\ Even(half)
      BY <3>2 DEF Even
    <3>5. Centre(g, l, i) = plane + half
      BY <3>3, <3>4 DEF Centre
    <3>6. plane + half \in Int /\ Even(plane + half)
      BY <3>3, <3>4, EvenSum
    <3> QED
      BY <3>1, <3>5, <3>6
  <2>5. g.lattice[l].elements[i + 1] \in DOMAIN g.universe \ {g.root}
    <3> HIDE DEF i, l
    <3>1. g.lattice[l].elements \in Seq(DOMAIN g.universe \ {g.root})
      BY <2>3 DEF Linked
    <3>2. i \in 0..(Len(g.lattice[l].elements) - 1)
      BY <2>1 DEF Exists
    <3>3. Len(g.lattice[l].elements) \in Nat
      BY <3>1
    <3>4. i + 1 \in 1..Len(g.lattice[l].elements)
      BY <3>2, <3>3
    <3> QED
      BY <3>1, <3>4
  <2> HIDE DEF i, l
  <2>6. f = Frame(g.lattice[l].elements[i + 1], l, i, Centre(g, l, i), g.cell[c].turned)
    BY <2>2
  <2> QED
    BY <2>1, <2>2, <2>3, <2>4, <2>5, <2>6 DEF Frame, FrameOK, i, l
<1> QED
  BY <1>1, <1>2

LEMMA FirstCellFacts ==
  ASSUME NEW g, Linked(g), NEW u \in DOMAIN g.universe, NEW x,
         NEW c \in FirstCell(g, u, x)
  PROVE  /\ c \in DOMAIN g.cell /\ Inside(g, c, x)
         /\ \E i \in DOMAIN g.universe[u] : c = g.universe[u][i]
         /\ FirstCell(g, u, x) = {c}
<1>1. g.universe[u] \in Seq(DOMAIN g.cell)
  BY DEF Linked
<1>2. PICK i \in DOMAIN g.universe[u] :
        /\ c = g.universe[u][i] /\ Inside(g, g.universe[u][i], x)
        /\ \A k \in 1..(i - 1) : ~ Inside(g, g.universe[u][k], x)
  BY DEF FirstCell
<1>3. ASSUME NEW b \in FirstCell(g, u, x)
      PROVE  b = c
  <2>1. PICK j \in DOMAIN g.universe[u] :
          /\ b = g.universe[u][j] /\ Inside(g, g.universe[u][j], x)
          /\ \A k \in 1..(j - 1) : ~ Inside(g, g.universe[u][k], x)
    BY DEF FirstCell
  <2>2. DOMAIN g.universe[u] = 1..Len(g.universe[u]) /\ Len(g.universe[u]) \in Nat
    BY <1>1
  <2>3. i = j
    BY <1>2, <2>1, <2>2
  <2> QED
    BY <1>2, <2>1, <2>3
<1> QED
  BY <1>1, <1>2, <1>3

\* Where some cell contains a position, a first one does.
LEMMA FirstCellExists ==
  ASSUME NEW g, Linked(g), NEW u \in DOMAIN g.universe, NEW x,
         NEW i \in DOMAIN g.universe[u], Inside(g, g.universe[u][i], x)
  PROVE  FirstCell(g, u, x) # {}
<1> DEFINE T == {k \in DOMAIN g.universe[u] : Inside(g, g.universe[u][k], x)}
<1>1. g.universe[u] \in Seq(DOMAIN g.cell)
  BY DEF Linked
<1>2. DOMAIN g.universe[u] = 1..Len(g.universe[u]) /\ Len(g.universe[u]) \in Nat
  BY <1>1
<1>3. PICK m \in T : \A n \in T : m <= n
  <2>1. T \in SUBSET Nat /\ T # {}
    BY <1>2
  <2> HIDE DEF T
  <2> QED
    BY <2>1, Least
<1>4. \A k \in 1..(m - 1) : ~ Inside(g, g.universe[u][k], x)
  BY <1>2, <1>3
<1>5. g.universe[u][m] \in FirstCell(g, u, x)
  BY <1>3, <1>4 DEF FirstCell
<1> QED
  BY <1>5

LEMMA EnterFacts ==
  ASSUME NEW g, Linked(g), NEW f, FrameOK(g, f), NEW x \in Int, NEW l \in Enter(g, f, x)
  PROVE  /\ l = [x |-> l.x, cell |-> l.cell, frame |-> f] /\ l.frame = f
         /\ l.x = Turn(f.turned, x - f.offset) /\ l.x \in Int /\ (Even(l.x) <=> Even(x))
         /\ l.cell \in DOMAIN g.cell /\ Inside(g, l.cell, l.x)
         /\ \E i \in DOMAIN g.universe[f.universe] : l.cell = g.universe[f.universe][i]
         /\ Enter(g, f, x) = {l}
<1> DEFINE y == Turn(f.turned, x - f.offset)
<1>1. f.offset \in Int /\ Even(f.offset) /\ f.turned \in BOOLEAN /\ f.universe \in DOMAIN g.universe
  BY DEF FrameOK
<1>2. y \in Int /\ (Even(y) <=> Even(x))
  <2>1. x - f.offset \in Int /\ (Even(x - f.offset) <=> Even(x))
    <3>1. PICK o \in Int : o = f.offset /\ Even(o)
      BY <1>1
    <3> QED
      BY <3>1 DEF Even
  <2> QED
    BY <1>1, <2>1, TurnFacts
<1>3. Enter(g, f, x) = {[x |-> y, cell |-> c, frame |-> f] : c \in FirstCell(g, f.universe, y)}
  BY DEF Enter
<1> HIDE DEF y
<1>4. PICK c \in FirstCell(g, f.universe, y) : l = [x |-> y, cell |-> c, frame |-> f]
  BY <1>3
<1>5. /\ c \in DOMAIN g.cell /\ Inside(g, c, y)
      /\ \E i \in DOMAIN g.universe[f.universe] : c = g.universe[f.universe][i]
      /\ FirstCell(g, f.universe, y) = {c}
  BY <1>1, <1>4, FirstCellFacts
<1>6. Enter(g, f, x) = {l}
  BY <1>3, <1>4, <1>5
<1>7. l.x = y /\ l.cell = c /\ l.frame = f
  BY <1>4
<1> QED
  BY <1>2, <1>4, <1>5, <1>6, <1>7 DEF y

-----------------------------------------------------------------------------
(***************************************************************************)
(* The whole descent: one cell per level, in one frame.                    *)
(***************************************************************************)
LevelOK(g, x, n, l) ==
  /\ l = [x |-> l.x, cell |-> l.cell, frame |-> l.frame]
  /\ l.x \in Int /\ (Even(l.x) <=> Even(x))
  /\ l.cell \in DOMAIN g.cell /\ Inside(g, l.cell, l.x)
  /\ FrameOK(g, l.frame)
  /\ \E i \in DOMAIN g.universe[l.frame.universe] : l.cell = g.universe[l.frame.universe][i]
  /\ Levels(g, x)[n] = {l}
  /\ n = 1 => l.frame = Root(g) /\ l.x = x
  /\ n > 1 => l.frame.universe # g.root

\* A level comes from the one above it.
LEMMA DescendFacts ==
  ASSUME NEW g, Linked(g), NEW x \in Int, NEW n \in 1..(MaxDepth - 1),
         NEW k, LevelOK(g, x, n, k)
  PROVE  /\ Levels(g, x)[n + 1] = UNION {Enter(g, f, k.x) : f \in Below(g, k.cell, k.x)}
         /\ \A f \in Below(g, k.cell, k.x) :
              Levels(g, x)[n + 1] = Enter(g, f, k.x) /\ FrameOK(g, f) /\ f.universe # g.root
<1>1. n + 1 \in 1..MaxDepth /\ n + 1 # 1
  BY RayAssumption
<1>2. Levels(g, x)[n + 1] = Descend(g, {k})
  <2>1. Levels(g, x)[n + 1] = Descend(g, Levels(g, x)[(n + 1) - 1])
    BY <1>1, LevelsEq
  <2>2. (n + 1) - 1 = n /\ Levels(g, x)[n] = {k}
    BY DEF LevelOK
  <2> QED
    BY <2>1, <2>2
<1>3. Levels(g, x)[n + 1] = UNION {Enter(g, f, k.x) : f \in Below(g, k.cell, k.x)}
  BY <1>2 DEF Descend
<1>4. ASSUME NEW f \in Below(g, k.cell, k.x)
      PROVE  Levels(g, x)[n + 1] = Enter(g, f, k.x) /\ FrameOK(g, f) /\ f.universe # g.root
  <2>1. Below(g, k.cell, k.x) = {f} /\ FrameOK(g, f) /\ f.universe # g.root
    BY <1>4, BelowFacts DEF LevelOK
  <2> QED
    BY <1>3, <2>1
<1> QED
  BY <1>3, <1>4

LEMMA LevelFacts ==
  ASSUME NEW g, Linked(g), NEW x \in Int
  PROVE  \A n \in 1..MaxDepth : \A l \in Levels(g, x)[n] : LevelOK(g, x, n, l)
<1> DEFINE S == {n \in 1..MaxDepth : \A l \in Levels(g, x)[n] : LevelOK(g, x, n, l)}
<1>0. MaxDepth \in Nat
  BY RayAssumption
<1>1. CASE MaxDepth = 0
  BY <1>1
<1>2. CASE MaxDepth # 0
  <2>1. 1 \in S
    <3>1. 1 \in 1..MaxDepth /\ Levels(g, x)[1] = Enter(g, Root(g), x)
      BY <1>0, <1>2, LevelsEq
    <3>2. ASSUME NEW l \in Levels(g, x)[1]
          PROVE  LevelOK(g, x, 1, l)
      <4>1. FrameOK(g, Root(g)) /\ l \in Enter(g, Root(g), x)
        BY <3>1, RootOK
      <4>2. /\ l = [x |-> l.x, cell |-> l.cell, frame |-> Root(g)] /\ l.frame = Root(g)
            /\ l.x = Turn(Root(g).turned, x - Root(g).offset) /\ l.x \in Int
            /\ (Even(l.x) <=> Even(x))
            /\ l.cell \in DOMAIN g.cell /\ Inside(g, l.cell, l.x)
            /\ \E i \in DOMAIN g.universe[Root(g).universe] :
                 l.cell = g.universe[Root(g).universe][i]
            /\ Enter(g, Root(g), x) = {l}
        BY <4>1, EnterFacts
      <4>3. l.x = x
        BY <4>2 DEF Root, Frame, Turn
      <4> QED
        BY <3>1, <4>1, <4>2, <4>3 DEF LevelOK
    <3> QED
      BY <3>1, <3>2
  <2>2. ASSUME NEW n \in 1..(MaxDepth - 1), n \in S
        PROVE  n + 1 \in S
    <3>1. n + 1 \in 1..MaxDepth
      BY <1>0
    <3>2. ASSUME NEW l \in Levels(g, x)[n + 1]
          PROVE  LevelOK(g, x, n + 1, l)
      <4>1. PICK k \in Levels(g, x)[n] : TRUE
        <5>1. Levels(g, x)[n + 1] = Descend(g, Levels(g, x)[n])
          BY <3>1, LevelsEq
        <5> QED
          BY <3>2, <5>1 DEF Descend
      <4>2. LevelOK(g, x, n, k)
        BY <2>2, <4>1
      <4>3. PICK f \in Below(g, k.cell, k.x) : l \in Enter(g, f, k.x)
        BY <3>2, <4>2, DescendFacts
      <4>4. Levels(g, x)[n + 1] = Enter(g, f, k.x) /\ FrameOK(g, f) /\ f.universe # g.root
        BY <4>2, <4>3, DescendFacts
      <4>5. k.x \in Int /\ (Even(k.x) <=> Even(x))
        BY <4>2 DEF LevelOK
      <4>6. /\ l = [x |-> l.x, cell |-> l.cell, frame |-> f] /\ l.frame = f
            /\ l.x \in Int /\ (Even(l.x) <=> Even(k.x))
            /\ l.cell \in DOMAIN g.cell /\ Inside(g, l.cell, l.x)
            /\ \E i \in DOMAIN g.universe[f.universe] : l.cell = g.universe[f.universe][i]
            /\ Enter(g, f, k.x) = {l}
        BY <4>3, <4>4, <4>5, EnterFacts
      <4>7. n + 1 # 1
        OBVIOUS
      <4> QED
        BY <4>4, <4>5, <4>6, <4>7 DEF LevelOK
    <3> QED
      BY <3>1, <3>2
  <2> HIDE DEF S
  <2>3. 1..MaxDepth \subseteq S
    BY <1>0, <2>1, <2>2, SetInduction
  <2> QED
    BY <2>3 DEF S
<1> QED
  BY <1>1, <1>2

\* Below a cell of material or void nothing is found.
LEMMA NothingBelow ==
  ASSUME NEW g, Linked(g), NEW x \in Int, NEW m \in Ends(g, x), NEW n \in (m + 1)..MaxDepth
  PROVE  Levels(g, x)[n] = {}
<1> DEFINE S == {k \in 1..MaxDepth : Levels(g, x)[k] = {}}
<1>0. MaxDepth \in Nat
  BY RayAssumption
<1>1. m \in 1..MaxDepth
  BY DEF Ends
<1>2. PICK l \in Levels(g, x)[m] : g.cell[l.cell].fill \in {"material", "void"}
  BY DEF Ends
<1>3. m + 1 \in S
  <2>1. LevelOK(g, x, m, l) /\ m \in 1..(MaxDepth - 1)
    BY <1>0, <1>1, <1>2, LevelFacts
  <2>2. Below(g, l.cell, l.x) = {}
    <3> SUFFICES ASSUME NEW f \in Below(g, l.cell, l.x) PROVE FALSE
      OBVIOUS
    <3>1. g.cell[l.cell].fill \in {"universe", "lattice"}
      BY <2>1, BelowFacts DEF LevelOK
    <3> QED
      BY <1>2, <3>1
  <2>3. Levels(g, x)[m + 1] = UNION {Enter(g, f, l.x) : f \in Below(g, l.cell, l.x)}
    BY <2>1, DescendFacts
  <2> QED
    BY <1>0, <2>1, <2>2, <2>3
<1>4. ASSUME NEW k \in (m + 1)..(MaxDepth - 1), k \in S
      PROVE  k + 1 \in S
  <2>1. k + 1 \in 1..MaxDepth /\ k + 1 # 1
    BY <1>0, <1>1
  <2>2. Levels(g, x)[k + 1] = Descend(g, {})
    BY <1>4, <2>1, LevelsEq
  <2>3. Descend(g, {}) = {}
    BY DEF Descend
  <2> QED
    BY <2>1, <2>2, <2>3
<1>5. n \in S
  <2> HIDE DEF S
  <2>1. m + 1 \in Nat
    BY <1>1
  <2>2. (m + 1)..MaxDepth \subseteq S
    BY <1>0, <1>3, <1>4, <2>1, SetInduction
  <2> QED
    BY <2>2
<1> QED
  BY <1>5

LEMMA EndsUnique ==
  ASSUME NEW g, Linked(g), NEW x \in Int, NEW m \in Ends(g, x), NEW n \in Ends(g, x)
  PROVE  m = n
<1>1. /\ m \in 1..MaxDepth /\ n \in 1..MaxDepth /\ MaxDepth \in Nat
      /\ Levels(g, x)[m] # {} /\ Levels(g, x)[n] # {}
  BY RayAssumption DEF Ends
<1>2. ~ (m < n)
  BY <1>1, NothingBelow
<1>3. ~ (n < m)
  BY <1>1, NothingBelow
<1> QED
  BY <1>1, <1>2, <1>3

\* What the descent finds at depth n.
Found(g, x, n) == CHOOSE l \in Levels(g, x)[n] : TRUE

LEMMA StackFacts ==
  ASSUME NEW g, Linked(g), NEW x \in Int, FindCell(g, x) # <<>>
  PROVE  \E N \in 1..MaxDepth :
           /\ Ends(g, x) = {N}
           /\ FindCell(g, x) = [n \in 1..N |-> Coord(Found(g, x, n).cell, Found(g, x, n).frame)]
           /\ Len(FindCell(g, x)) = N
           /\ \A n \in 1..N : LevelOK(g, x, n, Found(g, x, n))
<1>1. Ends(g, x) # {}
  BY DEF FindCell
<1>2. PICK N \in Ends(g, x) : Ends(g, x) = {N}
  BY <1>1, EndsUnique
<1>3. N \in 1..MaxDepth /\ MaxDepth \in Nat
  BY RayAssumption DEF Ends
<1>4. (CHOOSE m \in Ends(g, x) : TRUE) = N
  BY <1>2
<1>5. FindCell(g, x) = [n \in 1..N |-> Coord(Found(g, x, n).cell, Found(g, x, n).frame)]
  BY <1>1, <1>4 DEF FindCell, Found
<1>6. Len(FindCell(g, x)) = N
  BY <1>3, <1>5
<1> DEFINE S == {k \in 0..(N - 1) : Levels(g, x)[N - k] # {}}
<1>7. 0 \in S
  BY <1>3 DEF Ends
<1>8. ASSUME NEW k \in 0..((N - 1) - 1), k \in S
      PROVE  k + 1 \in S
  <2>1. k + 1 \in 0..(N - 1) /\ N - k \in 1..MaxDepth /\ N - k # 1 /\ (N - k) - 1 = N - (k + 1)
    BY <1>3
  <2>2. Levels(g, x)[N - k] = Descend(g, Levels(g, x)[N - (k + 1)])
    BY <2>1, LevelsEq
  <2>3. Levels(g, x)[N - k] # {}
    BY <1>8
  <2>4. Levels(g, x)[N - (k + 1)] # {}
    BY <2>2, <2>3 DEF Descend
  <2> QED
    BY <2>1, <2>4
<1>9. ASSUME NEW n \in 1..N
      PROVE  LevelOK(g, x, n, Found(g, x, n))
  <2> HIDE DEF S
  <2>1. PICK M \in Nat : M = N - 1
    BY <1>3
  <2>2. N - n \in S
    <3>1. \A k \in 0..(M - 1) : k \in S => k + 1 \in S
      BY <1>8, <2>1
    <3>2. 0..M \subseteq S
      BY <1>7, <2>1, <3>1, SetInduction
    <3> QED
      BY <1>3, <2>1, <3>2
  <2>3. Levels(g, x)[N - (N - n)] # {}
    BY <2>2 DEF S
  <2>4. N - (N - n) = n
    BY <1>3
  <2>5. Found(g, x, n) \in Levels(g, x)[n]
    BY <2>3, <2>4 DEF Found
  <2> QED
    BY <1>3, <2>5, LevelFacts
<1> QED
  BY <1>2, <1>3, <1>5, <1>6, <1>9

\* A level is entered through a frame below the level above it.
LEMMA ChainFacts ==
  ASSUME NEW g, Linked(g), NEW x \in Int, NEW n \in 2..MaxDepth,
         NEW k, LevelOK(g, x, n - 1, k), NEW l, LevelOK(g, x, n, l)
  PROVE  /\ l.frame \in Below(g, k.cell, k.x)
         /\ l.x = Turn(l.frame.turned, k.x - l.frame.offset)
<1>1. n - 1 \in 1..(MaxDepth - 1) /\ (n - 1) + 1 = n /\ MaxDepth \in Nat
  BY RayAssumption
<1>2. Levels(g, x)[n] = UNION {Enter(g, f, k.x) : f \in Below(g, k.cell, k.x)}
  <2>1. Levels(g, x)[(n - 1) + 1] = UNION {Enter(g, f, k.x) : f \in Below(g, k.cell, k.x)}
    BY <1>1, DescendFacts
  <2> QED
    BY <1>1, <2>1
<1>3. l \in Levels(g, x)[n]
  BY DEF LevelOK
<1>4. PICK f \in Below(g, k.cell, k.x) : l \in Enter(g, f, k.x)
  BY <1>2, <1>3
<1>5. FrameOK(g, f) /\ k.x \in Int
  BY <1>4, BelowFacts DEF LevelOK
<1>6. l.frame = f /\ l.x = Turn(f.turned, k.x - f.offset)
  BY <1>4, <1>5, EnterFacts
<1> QED
  BY <1>4, <1>6

-----------------------------------------------------------------------------
(***************************************************************************)
(* Local coordinates.                                                      *)
(***************************************************************************)
StackOK(s) ==
  /\ Len(s) \in Nat /\ DOMAIN s = 1..Len(s)
  /\ \A i \in 1..Len(s) : s[i].turned \in BOOLEAN /\ s[i].offset \in Int /\ Even(s[i].offset)

\* A product in a lemma is not matched: lemmas are stated of an operator.
Along(P, A, t) == P + A * t

\* The local position moves along the local direction as the position moves along the
\* direction, and keeps its parity.
LEMMA LocalMoves ==
  ASSUME NEW s, StackOK(s), NEW p \in Int, NEW d \in {-1, 1}, NEW t \in Int,
         NEW z, z = Along(p, d, t)
  PROVE  \A n \in 0..Len(s) :
           /\ LocalPos(s, p)[n] \in Int
           /\ Even(LocalPos(s, p)[n]) <=> Even(p)
           /\ LocalDir(s, d)[n] \in {-1, 1}
           /\ LocalPos(s, z)[n] = Along(LocalPos(s, p)[n], LocalDir(s, d)[n], t)
<1> DEFINE P(n) == LocalPos(s, p)[n]
           A(n) == LocalDir(s, d)[n]
           Z(n) == LocalPos(s, z)[n]
           S == {n \in 0..Len(s) : /\ P(n) \in Int /\ (Even(P(n)) <=> Even(p))
                                   /\ A(n) \in {-1, 1} /\ Z(n) = P(n) + A(n) * t}
<1>0. Len(s) \in Nat
  BY DEF StackOK
<1>1. 0 \in S
  <2>1. P(0) = p /\ Z(0) = p + d * t /\ A(0) = d
    BY <1>0, LocalPosEq, LocalDirEq DEF Along
  <2>2. 0 \in 0..Len(s)
    BY <1>0
  <2> HIDE DEF P, Z, A
  <2> QED
    BY <2>1, <2>2
<1>2. ASSUME NEW n \in 0..(Len(s) - 1), n \in S
      PROVE  n + 1 \in S
  <2>1. n + 1 \in 1..Len(s) /\ (n + 1) - 1 = n
    BY <1>0
  <2>2. PICK turned \in BOOLEAN : turned = s[n + 1].turned
    BY <2>1 DEF StackOK
  <2>3. PICK o \in Int : o = s[n + 1].offset /\ Even(o)
    BY <2>1 DEF StackOK
  <2>4. /\ P(n + 1) = Turn(turned, P(n) - o)
        /\ Z(n + 1) = Turn(turned, Z(n) - o)
        /\ A(n + 1) = Turn(turned, A(n))
    <3>1. PICK m \in 1..Len(s) : m = n + 1 /\ m - 1 = n
      BY <2>1
    <3>2. LocalPos(s, p)[m] = Turn(s[m].turned, LocalPos(s, p)[m - 1] - s[m].offset)
      BY <1>0, LocalPosEq
    <3>3. LocalPos(s, z)[m] = Turn(s[m].turned, LocalPos(s, z)[m - 1] - s[m].offset)
      BY <1>0, LocalPosEq
    <3>4. LocalDir(s, d)[m] = Turn(s[m].turned, LocalDir(s, d)[m - 1])
      BY <1>0, LocalDirEq
    <3> QED
      BY <2>2, <2>3, <3>1, <3>2, <3>3, <3>4
  <2> HIDE DEF P, Z, A
  <2>5. PICK q \in Int, a \in {-1, 1} :
          P(n) = q /\ A(n) = a /\ Z(n) = q + a * t /\ (Even(q) <=> Even(p))
    BY <1>2
  <2>6. (- a) * t = - (a * t) /\ a * t \in Int
    BY <2>5
  <2>7. PICK at \in Int : at = a * t
    BY <2>6
  <2>8. Even(q - o) <=> Even(q)
    BY <2>3, EvenShift
  <2>9. Turn(turned, q - o) \in Int /\ (Even(Turn(turned, q - o)) <=> Even(q - o))
    BY <2>3, <2>5, TurnFacts
  <2>10. Turn(turned, a) \in {-1, 1}
    BY <2>5 DEF Turn
  <2>11. Turn(turned, (q + a * t) - o) = Turn(turned, q - o) + Turn(turned, a) * t
    <3>1. CASE turned
      BY <2>3, <2>5, <2>6, <2>7, <3>1 DEF Turn
    <3>2. CASE ~ turned
      BY <2>3, <2>5, <2>7, <3>2 DEF Turn
    <3> QED
      BY <3>1, <3>2
  <2> QED
    BY <2>1, <2>4, <2>5, <2>8, <2>9, <2>10, <2>11
<1> HIDE DEF S
<1>3. 0..Len(s) \subseteq S
  BY <1>0, <1>1, <1>2, SetInduction
<1> QED
  BY <1>3 DEF S, Along

LEMMA LocalTypes ==
  ASSUME NEW s, StackOK(s), NEW p \in Int, NEW d \in {-1, 1}
  PROVE  \A n \in 0..Len(s) :
           /\ LocalPos(s, p)[n] \in Int
           /\ Even(LocalPos(s, p)[n]) <=> Even(p)
           /\ LocalDir(s, d)[n] \in {-1, 1}
<1>1. PICK q : q = Along(p, d, 0)
  OBVIOUS
<1> QED
  BY <1>1, LocalMoves

\* The stack of a position, and the local positions along it.
LEMMA FoundLocal ==
  ASSUME NEW g, Linked(g), NEW x \in Int, FindCell(g, x) # <<>>
  PROVE  /\ StackOK(FindCell(g, x))
         /\ \A n \in 1..Len(FindCell(g, x)) :
              /\ LevelOK(g, x, n, Found(g, x, n))
              /\ FindCell(g, x)[n] = Coord(Found(g, x, n).cell, Found(g, x, n).frame)
              /\ LocalPos(FindCell(g, x), x)[n] = Found(g, x, n).x
<1> DEFINE s == FindCell(g, x)
<1>1. PICK N \in 1..MaxDepth :
        /\ s = [n \in 1..N |-> Coord(Found(g, x, n).cell, Found(g, x, n).frame)]
        /\ Len(s) = N
        /\ \A n \in 1..N : LevelOK(g, x, n, Found(g, x, n))
  BY StackFacts
<1> HIDE DEF s
<1>2. N \in Nat /\ DOMAIN s = 1..N /\ MaxDepth \in Nat
  BY <1>1, RayAssumption
<1>3. \A n \in 1..N : s[n] = Coord(Found(g, x, n).cell, Found(g, x, n).frame)
  BY <1>1
<1>4. ASSUME NEW n \in 1..N
      PROVE  /\ s[n].turned = Found(g, x, n).frame.turned
             /\ s[n].offset = Found(g, x, n).frame.offset
  <2>1. s[n] = Coord(Found(g, x, n).cell, Found(g, x, n).frame)
    BY <1>3
  <2> QED
    BY <2>1 DEF Coord
<1>5. StackOK(s)
  <2>1. \A n \in 1..N : FrameOK(g, Found(g, x, n).frame)
    BY <1>1 DEF LevelOK
  <2> QED
    BY <1>1, <1>2, <1>4, <2>1 DEF StackOK, FrameOK
<1> DEFINE S == {n \in 1..N : LocalPos(s, x)[n] = Found(g, x, n).x}
<1>6. 1 \in S
  <2>1. 1 \in 1..N /\ 1 \in 1..Len(s)
    BY <1>1
  <2>2. LocalPos(s, x)[1] = Turn(s[1].turned, LocalPos(s, x)[1 - 1] - s[1].offset)
    BY <1>1, <1>2, <2>1, LocalPosEq
  <2>3. LocalPos(s, x)[0] = x
    BY <1>1, <1>2, LocalPosEq
  <2>4. Found(g, x, 1).x = x /\ Found(g, x, 1).frame = Root(g)
    BY <1>1, <2>1 DEF LevelOK
  <2>5. s[1].turned = FALSE /\ s[1].offset = 0
    BY <1>4, <2>1, <2>4 DEF Root, Frame
  <2>6. LocalPos(s, x)[1] = x
    BY <2>2, <2>3, <2>5 DEF Turn
  <2> QED
    BY <2>1, <2>4, <2>6
<1>7. ASSUME NEW n \in 1..(N - 1), n \in S
      PROVE  n + 1 \in S
  <2>1. n + 1 \in 1..N /\ n + 1 \in 1..Len(s) /\ (n + 1) - 1 = n /\ n + 1 \in 2..MaxDepth
    BY <1>1, <1>2
  <2>2. LocalPos(s, x)[n + 1] = Turn(s[n + 1].turned, LocalPos(s, x)[(n + 1) - 1] - s[n + 1].offset)
    <3>1. PICK m \in 1..Len(s) : m = n + 1
      BY <2>1
    <3>2. LocalPos(s, x)[m] = Turn(s[m].turned, LocalPos(s, x)[m - 1] - s[m].offset)
      BY <1>1, <1>2, LocalPosEq
    <3> QED
      BY <3>1, <3>2
  <2>3. LevelOK(g, x, (n + 1) - 1, Found(g, x, n)) /\ LevelOK(g, x, n + 1, Found(g, x, n + 1))
    BY <1>1, <2>1
  <2>4. Found(g, x, n + 1).x =
          Turn(Found(g, x, n + 1).frame.turned, Found(g, x, n).x - Found(g, x, n + 1).frame.offset)
    BY <2>1, <2>3, ChainFacts
  <2> QED
    BY <1>4, <1>7, <2>1, <2>2, <2>4
<1>8. 1..N \subseteq S
  <2> HIDE DEF S
  <2> QED
    BY <1>1, <1>2, <1>6, <1>7, SetInduction
<1> QED
  BY <1>1, <1>3, <1>5, <1>8 DEF s

-----------------------------------------------------------------------------
(***************************************************************************)
(* Two positions with the same cells and the same lattice elements along   *)
(* the stack have the same stack.                                          *)
(***************************************************************************)
LEMMA WellFormedFacts ==
  ASSUME NEW g, WellFormed(g), NEW x \in DOMAIN g.truth
  PROVE  /\ Linked(g) /\ x \in Int /\ ~ Even(x)
         /\ g.surface[g.left].at \in Int /\ Even(g.surface[g.left].at)
         /\ g.surface[g.right].at \in Int /\ Even(g.surface[g.right].at)
         /\ g.surface[g.left].at < x /\ x < g.surface[g.right].at
         /\ FindCell(g, x) # <<>>
         /\ Material(g, FindCell(g, x)) = g.truth[x]
<1>1. Linked(g) /\ Complete(g)
  BY DEF WellFormed
<1>2. /\ g.surface[g.left].at \in Int /\ Even(g.surface[g.left].at)
      /\ g.surface[g.right].at \in Int /\ Even(g.surface[g.right].at)
  BY <1>1 DEF Linked
<1>3. x \in g.surface[g.left].at..g.surface[g.right].at /\ ~ Even(x)
  BY <1>1 DEF Complete
<1>4. x # g.surface[g.left].at /\ x # g.surface[g.right].at
  BY <1>2, <1>3
<1>5. g.surface[g.left].at < x /\ x < g.surface[g.right].at /\ x \in Int
  BY <1>2, <1>3, <1>4
<1> QED
  BY <1>1, <1>2, <1>3, <1>5 DEF Complete

\* Only one cell of its universe contains what was found.
OneCell(g, l) ==
  \A i, j \in DOMAIN g.universe[l.frame.universe] :
    Inside(g, g.universe[l.frame.universe][i], l.x)
      /\ Inside(g, g.universe[l.frame.universe][j], l.x) => i = j

LEMMA OneCellFound ==
  ASSUME NEW g, WellFormed(g), NEW z \in DOMAIN g.truth, NEW n \in 1..MaxDepth
  PROVE  \A l \in Levels(g, z)[n] : OneCell(g, l)
BY DEF WellFormed, Complete, OneCell

LEMMA EnterKept ==
  ASSUME NEW g, Linked(g), NEW f, FrameOK(g, f), NEW x \in Int,
         NEW y, y = Turn(f.turned, x - f.offset),
         NEW c, \E i \in DOMAIN g.universe[f.universe] : c = g.universe[f.universe][i],
         Inside(g, c, y), \A l \in Enter(g, f, x) : OneCell(g, l)
  PROVE  \E l : /\ Enter(g, f, x) = {l}
               /\ l = [x |-> l.x, cell |-> l.cell, frame |-> l.frame]
               /\ l.x = y /\ l.cell = c /\ l.frame = f
<1>2. PICK i \in DOMAIN g.universe[f.universe] : c = g.universe[f.universe][i]
  OBVIOUS
<1>3. FirstCell(g, f.universe, y) # {}
  BY <1>2, FirstCellExists DEF FrameOK
<1>4. PICK l \in Enter(g, f, x) : TRUE
  BY <1>3 DEF Enter
<1>5. /\ l = [x |-> l.x, cell |-> l.cell, frame |-> f] /\ l.frame = f
      /\ l.x = y /\ Inside(g, l.cell, l.x) /\ Enter(g, f, x) = {l}
      /\ \E j \in DOMAIN g.universe[f.universe] : l.cell = g.universe[f.universe][j]
  BY <1>4, EnterFacts
<1>6. PICK j \in DOMAIN g.universe[f.universe] : l.cell = g.universe[f.universe][j]
  BY <1>5
<1>7. OneCell(g, l)
  BY <1>4
<1>8. i = j
  <2>1. Inside(g, g.universe[f.universe][i], l.x) /\ Inside(g, g.universe[f.universe][j], l.x)
    BY <1>2, <1>5, <1>6
  <2> QED
    BY <1>5, <1>7, <2>1 DEF OneCell
<1> QED
  BY <1>2, <1>5, <1>6, <1>8

\* z lies in the cells and in the lattice elements of stack s.
AlongStack(g, s, z) ==
  \A n \in 1..Len(s) :
    /\ Inside(g, s[n].cell, LocalPos(s, z)[n])
    /\ s[n].lattice # None => Element(g, s[n].lattice, LocalPos(s, z)[n - 1]) = s[n].element

\* What lies below a cell depends on the element only.
LEMMA BelowKept ==
  ASSUME NEW g, Linked(g), NEW c \in DOMAIN g.cell, NEW x \in Int, NEW z \in Int,
         NEW f \in Below(g, c, x),
         f.lattice # None => Element(g, f.lattice, z) = f.element
  PROVE  f \in Below(g, c, z)
<1>1. CASE g.cell[c].fill = "universe"
  BY <1>1 DEF Below
<1>2. CASE g.cell[c].fill # "universe"
  <2>1. g.cell[c].fill = "lattice" /\ f.lattice = g.cell[c].of /\ f.lattice \in DOMAIN g.lattice
    BY <1>2, BelowFacts
  <2>2. f.lattice # None
    BY <2>1 DEF Linked
  <2>3. f.element = Element(g, f.lattice, x)
    BY <1>2, BelowFacts
  <2>4. Element(g, g.cell[c].of, z) = Element(g, g.cell[c].of, x)
    BY <2>1, <2>2, <2>3
  <2> QED
    BY <1>2, <2>1, <2>4 DEF Below
<1> QED
  BY <1>1, <1>2

LEMMA SameCells ==
  ASSUME NEW g, WellFormed(g), NEW b \in DOMAIN g.truth, NEW z \in DOMAIN g.truth,
         AlongStack(g, FindCell(g, b), z)
  PROVE  FindCell(g, z) = FindCell(g, b)
<1> DEFINE s == FindCell(g, b)
           Z(n) == LocalPos(s, z)[n]
           B(n) == Found(g, b, n)
<1>0. Linked(g) /\ b \in Int /\ z \in Int /\ FindCell(g, b) # <<>> /\ MaxDepth \in Nat
  BY WellFormedFacts, RayAssumption
<1>1. PICK N \in 1..MaxDepth :
        /\ Ends(g, b) = {N} /\ Len(s) = N
        /\ s = [n \in 1..N |-> Coord(B(n).cell, B(n).frame)]
        /\ \A n \in 1..N : LevelOK(g, b, n, B(n))
  BY <1>0, StackFacts
<1>2. StackOK(s)
  BY <1>0, FoundLocal
<1> HIDE DEF s
<1>3. N \in Nat /\ 1 \in 1..N
  BY <1>0, <1>1
<1>4. ASSUME NEW n \in 1..N
      PROVE  /\ s[n].cell = B(n).cell /\ s[n].turned = B(n).frame.turned
             /\ s[n].offset = B(n).frame.offset /\ s[n].lattice = B(n).frame.lattice
             /\ s[n].element = B(n).frame.element
             /\ Inside(g, B(n).cell, Z(n))
             /\ Z(n) = Turn(B(n).frame.turned, Z(n - 1) - B(n).frame.offset)
  <2>1. s[n] = Coord(B(n).cell, B(n).frame)
    BY <1>1
  <2>2. /\ s[n].cell = B(n).cell /\ s[n].turned = B(n).frame.turned
        /\ s[n].offset = B(n).frame.offset /\ s[n].lattice = B(n).frame.lattice
        /\ s[n].element = B(n).frame.element
    BY <2>1 DEF Coord
  <2>3. Inside(g, s[n].cell, Z(n))
    BY <1>1 DEF AlongStack, s
  <2>4. Z(n) = Turn(s[n].turned, Z(n - 1) - s[n].offset)
    BY <1>1, <1>2, LocalPosEq DEF StackOK
  <2> QED
    BY <2>2, <2>3, <2>4
<1>5. \A n \in 0..N : Z(n) \in Int
  <2>1. 1 \in {-1, 1}
    OBVIOUS
  <2> QED
    BY <1>0, <1>1, <1>2, <2>1, LocalTypes
<1> DEFINE Same(n) == [x |-> Z(n), cell |-> B(n).cell, frame |-> B(n).frame]
           S == {n \in 1..N : Levels(g, z)[n] = {Same(n)}}
<1>6. 1 \in S
  <2>1. LevelOK(g, b, 1, B(1))
    BY <1>1, <1>3
  <2>2. B(1).frame = Root(g) /\ FrameOK(g, Root(g))
    BY <1>0, <2>1, RootOK DEF LevelOK
  <2>3. Z(0) = z
    BY <1>2, LocalPosEq DEF StackOK
  <2>4. 1 \in 1..MaxDepth /\ Levels(g, z)[1] = Enter(g, Root(g), z)
    BY <1>0, <1>1, LevelsEq
  <2>5. /\ \E i \in DOMAIN g.universe[Root(g).universe] :
             B(1).cell = g.universe[Root(g).universe][i]
    BY <2>1, <2>2 DEF LevelOK
  <2>6. /\ Inside(g, B(1).cell, Z(1))
        /\ Z(1) = Turn(B(1).frame.turned, Z(1 - 1) - B(1).frame.offset)
    BY <1>3, <1>4
  <2>7. Z(1) = Turn(Root(g).turned, z - Root(g).offset)
    BY <2>2, <2>3, <2>6
  <2>8. Levels(g, z)[1] = {[x |-> Z(1), cell |-> B(1).cell, frame |-> Root(g)]}
    <3> HIDE DEF Z, B
    <3>1. PICK y, c, f : y = Z(1) /\ c = B(1).cell /\ f = Root(g)
      OBVIOUS
    <3>2. /\ FrameOK(g, f) /\ Levels(g, z)[1] = Enter(g, f, z)
          /\ y = Turn(f.turned, z - f.offset) /\ Inside(g, c, y)
          /\ \E i \in DOMAIN g.universe[f.universe] : c = g.universe[f.universe][i]
      BY <2>2, <2>4, <2>5, <2>6, <2>7, <3>1
    <3>3. \A l \in Enter(g, f, z) : OneCell(g, l)
      BY <2>4, <3>2, OneCellFound
    <3>4. PICK l : /\ Enter(g, f, z) = {l}
                   /\ l = [x |-> l.x, cell |-> l.cell, frame |-> l.frame]
                   /\ l.x = y /\ l.cell = c /\ l.frame = f
      <4>1. Linked(g) /\ z \in Int
        BY <1>0, <3>2
      <4>2. FrameOK(g, f) /\ y = Turn(f.turned, z - f.offset) /\ Inside(g, c, y)
        BY <3>2
      <4>3. \E i \in DOMAIN g.universe[f.universe] : c = g.universe[f.universe][i]
        BY <3>2
      <4> QED
        BY <3>3, <4>1, <4>2, <4>3, EnterKept, Z3
    <3> QED
      BY <3>1, <3>2, <3>4
  <2> HIDE DEF Z, B
  <2> QED
    BY <1>3, <2>2, <2>8
<1>7. ASSUME NEW n \in 1..(N - 1), n \in S
      PROVE  n + 1 \in S
  <2>1. /\ n \in 1..N /\ n + 1 \in 1..N /\ (n + 1) - 1 = n /\ n + 1 \in 2..MaxDepth
        /\ n \in 1..(MaxDepth - 1)
    BY <1>0, <1>1, <1>3
  <2>2. LevelOK(g, b, (n + 1) - 1, B(n)) /\ LevelOK(g, b, n + 1, B(n + 1))
    BY <1>1, <2>1
  <2>3. B(n + 1).frame \in Below(g, B(n).cell, B(n).x)
    BY <1>0, <2>1, <2>2, ChainFacts
  <2>4. B(n + 1).frame.lattice # None =>
          Element(g, B(n + 1).frame.lattice, Z(n)) = B(n + 1).frame.element
    <3>1. s[n + 1].lattice # None =>
            Element(g, s[n + 1].lattice, LocalPos(s, z)[(n + 1) - 1]) = s[n + 1].element
      BY <1>1, <2>1 DEF AlongStack, s
    <3> QED
      BY <1>4, <2>1, <3>1
  <2>5. /\ B(n).cell \in DOMAIN g.cell /\ B(n).x \in Int /\ Z(n) \in Int
        /\ n + 1 \in 1..MaxDepth
    BY <1>5, <2>1, <2>2 DEF LevelOK
  <2>6. B(n + 1).frame \in Below(g, B(n).cell, Z(n))
    BY <1>0, <2>3, <2>4, <2>5, BelowKept
  <2>7. LevelOK(g, z, n, Same(n))
    <3>1. Levels(g, z)[n] = {Same(n)}
      BY <1>7
    <3> QED
      BY <1>0, <2>1, <3>1, LevelFacts
  <2>8. /\ Levels(g, z)[n + 1] = Enter(g, B(n + 1).frame, Z(n))
        /\ FrameOK(g, B(n + 1).frame)
    <3>1. Same(n).cell = B(n).cell /\ Same(n).x = Z(n)
      OBVIOUS
    <3> HIDE DEF Same, Z, B
    <3> QED
      BY <1>0, <2>1, <2>6, <2>7, <3>1, DescendFacts
  <2>9. /\ Inside(g, B(n + 1).cell, Z(n + 1))
        /\ Z(n + 1) = Turn(B(n + 1).frame.turned, Z(n) - B(n + 1).frame.offset)
    BY <1>4, <2>1
  <2>10. \E i \in DOMAIN g.universe[B(n + 1).frame.universe] :
           B(n + 1).cell = g.universe[B(n + 1).frame.universe][i]
    BY <2>2 DEF LevelOK
  <2>11. Levels(g, z)[n + 1] = {Same(n + 1)}
    <3> HIDE DEF Z, B
    <3>1. PICK y, c, f, x : /\ y = Z(n + 1) /\ c = B(n + 1).cell /\ f = B(n + 1).frame
                            /\ x = Z(n)
      OBVIOUS
    <3>2. PICK m \in 1..MaxDepth : m = n + 1
      BY <2>5
    <3>3. /\ FrameOK(g, f) /\ x \in Int /\ Levels(g, z)[m] = Enter(g, f, x)
          /\ y = Turn(f.turned, x - f.offset) /\ Inside(g, c, y)
          /\ \E i \in DOMAIN g.universe[f.universe] : c = g.universe[f.universe][i]
      BY <2>5, <2>8, <2>9, <2>10, <3>1, <3>2
    <3>4. \A l \in Enter(g, f, x) : OneCell(g, l)
      BY <3>3, OneCellFound
    <3>5. PICK l : /\ Enter(g, f, x) = {l}
                   /\ l = [x |-> l.x, cell |-> l.cell, frame |-> l.frame]
                   /\ l.x = y /\ l.cell = c /\ l.frame = f
      <4>1. Linked(g) /\ x \in Int
        BY <1>0, <3>3
      <4>2. FrameOK(g, f) /\ y = Turn(f.turned, x - f.offset) /\ Inside(g, c, y)
        BY <3>3
      <4>3. \E i \in DOMAIN g.universe[f.universe] : c = g.universe[f.universe][i]
        BY <3>3
      <4> QED
        BY <3>4, <4>1, <4>2, <4>3, EnterKept, Z3
    <3> QED
      BY <3>1, <3>2, <3>3, <3>5
  <2> QED
    BY <2>1, <2>11
<1>8. \A n \in 1..N : Levels(g, z)[n] = {Same(n)}
  <2> HIDE DEF S
  <2>1. 1..N \subseteq S
    BY <1>3, <1>6, <1>7, SetInduction
  <2> QED
    BY <2>1 DEF S
<1>9. ASSUME NEW n \in 1..N
      PROVE  Found(g, z, n) = Same(n)
  BY <1>8 DEF Found
<1>10. N \in Ends(g, z)
  <2>1. N \in Ends(g, b) /\ N \in 1..N
    BY <1>1, <1>3
  <2>2. PICK l \in Levels(g, b)[N] : g.cell[l.cell].fill \in {"material", "void"}
    BY <2>1 DEF Ends
  <2>3. LevelOK(g, b, N, B(N)) /\ Levels(g, z)[N] = {Same(N)}
    BY <1>1, <1>8, <2>1
  <2>4. Levels(g, b)[N] = {B(N)}
    BY <2>3 DEF LevelOK
  <2>5. l = B(N)
    BY <2>2, <2>4
  <2>6. Same(N) \in Levels(g, z)[N] /\ g.cell[Same(N).cell].fill \in {"material", "void"}
    BY <2>2, <2>3, <2>5
  <2> QED
    BY <2>6 DEF Ends
<1>11. PICK M \in 1..MaxDepth :
         /\ Ends(g, z) = {M}
         /\ FindCell(g, z) = [n \in 1..M |-> Coord(Found(g, z, n).cell, Found(g, z, n).frame)]
  <2>1. FindCell(g, z) # <<>>
    BY WellFormedFacts
  <2> QED
    BY <1>0, <2>1, StackFacts
<1>12. M = N
  BY <1>10, <1>11
<1>13. \A n \in 1..N : Found(g, z, n).cell = B(n).cell /\ Found(g, z, n).frame = B(n).frame
  BY <1>9
<1> QED
  BY <1>1, <1>11, <1>12, <1>13 DEF s

-----------------------------------------------------------------------------
(***************************************************************************)
(* A flight that meets no surface of its cells and no plane of its grids   *)
(* keeps its stack.                                                        *)
(***************************************************************************)
\* A surface that is not met is not passed; e is one where the flight starts on a mirror.
LEMMA OneSide ==
  ASSUME NEW P \in Int, NEW A \in {-1, 1}, NEW at \in Int, NEW e \in {0, 1}, NEW t \in Int,
         e <= t, (at - P) * A > 0 => (at - P) * A > t
  PROVE  /\ P + A * e > at => P + A * t > at
         /\ P + A * e < at => P + A * t < at
<1>1. CASE A = 1
  <2>1. (at - P) * A = at - P /\ P + A * e = P + e /\ P + A * t = P + t
    BY <1>1
  <2> QED
    BY <2>1
<1>2. CASE A = -1
  <2>1. (at - P) * A = P - at /\ P + A * e = P - e /\ P + A * t = P - t
    BY <1>2
  <2> QED
    BY <2>1
<1> QED
  BY <1>1, <1>2

\* No surface of c is met up to t.
NotMet(g, c, P, A, t) ==
  \A s \in Surfaces(g, c) :
    (g.surface[s].at - P) * A > 0 => (g.surface[s].at - P) * A > t

LEMMA InsideKept ==
  ASSUME NEW g, Linked(g), NEW c \in DOMAIN g.cell, NEW P \in Int, NEW A \in {-1, 1},
         NEW e \in {0, 1}, NEW t \in Int, e <= t, Inside(g, c, Along(P, A, e)),
         NotMet(g, c, P, A, t)
  PROVE  Inside(g, c, Along(P, A, t))
<1>1. PICK clause \in g.cell[c].region :
        \A h \in clause : IF h.positive THEN P + A * e > g.surface[h.surface].at
                                        ELSE P + A * e < g.surface[h.surface].at
  BY DEF Inside, Along
<1>2. ASSUME NEW h \in clause
      PROVE  IF h.positive THEN P + A * t > g.surface[h.surface].at
                           ELSE P + A * t < g.surface[h.surface].at
  <2>1. h.surface \in Surfaces(g, c)
    BY <1>1 DEF Surfaces
  <2>2. h.surface \in DOMAIN g.surface
    BY <2>1 DEF Linked
  <2>3. PICK at \in Int : at = g.surface[h.surface].at
    BY <2>2 DEF Linked
  <2>4. (at - P) * A > 0 => (at - P) * A > t
    BY <2>1, <2>3 DEF NotMet
  <2>5. /\ P + A * e > at => P + A * t > at
        /\ P + A * e < at => P + A * t < at
    BY <2>4, OneSide
  <2>6. IF h.positive THEN P + A * e > at ELSE P + A * e < at
    BY <1>1, <2>3
  <2> QED
    BY <2>3, <2>5, <2>6
<1> QED
  BY <1>1, <1>2 DEF Inside, Along

\* The next plane of a grid lies ahead, at an even position, and nothing before it is in
\* another element.
LEMMA GridFacts ==
  ASSUME NEW g, Linked(g), NEW l \in DOMAIN g.lattice, NEW P \in Int, NEW A \in {-1, 1},
         NEW e \in {0, 1}, NEW B, B = Along(P, A, e), ~ Even(B),
         NEW i, i = Element(g, l, B)
  PROVE  \E D \in Nat \ {0} :
           /\ D = DistanceToGrid(g, l, P, A, i) /\ Even(Along(P, A, D))
           /\ \A t \in Int : e <= t /\ D > t => Element(g, l, Along(P, A, t)) = i
<1> PICK D : D = DistanceToGrid(g, l, P, A, i)
  OBVIOUS
<1> SUFFICES /\ D \in Nat \ {0} /\ Even(P + A * D)
             /\ \A t \in Int : e <= t /\ D > t => Element(g, l, P + A * t) = i
  BY DEF Along
<1> DEFINE o == g.lattice[l].origin
           q == g.lattice[l].pitch
<1>0. B = P + A * e
  BY DEF Along
<1>1. o \in Int /\ Even(o) /\ q \in Nat \ {0} /\ q % 4 = 0
  BY DEF Linked
<1>2. P + A * e \in Int
  OBVIOUS
<1>3. /\ i \in Int /\ o + i * q <= P + A * e /\ P + A * e < o + (i + 1) * q
  <2>1. B \in Int
    BY <1>0, <1>2
  <2>2. i \in Int /\ o + i * q <= B /\ B < o + (i + 1) * q
    BY <2>1, ElementFacts
  <2> QED
    BY <1>0, <2>2
<1> HIDE DEF o, q
<1>4. /\ o + i * q \in Int /\ Even(o + i * q)
      /\ o + (i + 1) * q \in Int /\ Even(o + (i + 1) * q)
  <2>1. o + i * q \in Int /\ Even(o + i * q)
    BY <1>1, <1>3, PlaneEven
  <2>2. PICK j \in Int : j = i + 1
    BY <1>3
  <2>3. o + j * q \in Int /\ Even(o + j * q)
    BY <1>1, <2>2, PlaneEven
  <2> QED
    BY <2>1, <2>2, <2>3
<1>5. PICK lower \in Int, upper \in Int :
        /\ lower = o + i * q /\ upper = o + (i + 1) * q
        /\ Even(lower) /\ Even(upper)
  BY <1>4
<1>6. lower <= P + A * e /\ P + A * e < upper
  BY <1>3, <1>5
<1> DEFINE plane(k) == (GridPlane(g, l, k) - P) * A
           ahead == IF A > 0 THEN i + 1 ELSE i
<1>7. D = IF plane(ahead) > 0 THEN plane(ahead) ELSE plane(ahead + A)
  BY DEF DistanceToGrid
<1>8. CASE A = 1
  <2>1. D = upper - P /\ D \in Nat \ {0} /\ P + A * D = upper
    <3>1. ahead = i + 1
      BY <1>8
    <3>2. plane(i + 1) = upper - P /\ upper - P > 0
      <4>1. plane(i + 1) = (upper - P) * A
        <5>1. GridPlane(g, l, i + 1) = upper
          BY <1>5 DEF GridPlane, o, q
        <5> QED
          BY <5>1
      <4>2. (upper - P) * A = upper - P /\ P + A * e = P + e
        BY <1>8
      <4> QED
        BY <1>6, <4>1, <4>2
    <3> HIDE DEF plane, ahead
    <3>3. D = upper - P
      BY <1>7, <3>1, <3>2
    <3> QED
      BY <1>8, <3>2, <3>3
  <2>2. ASSUME NEW t \in Int, e <= t, D > t
        PROVE  Element(g, l, P + A * t) = i
    <3>1. P + A * t \in Int /\ lower <= P + A * t /\ P + A * t < upper
      BY <1>6, <1>8, <2>1, <2>2
    <3>2. o + i * q <= P + A * t /\ P + A * t < o + (i + 1) * q
      BY <1>5, <3>1
    <3>3. /\ g.lattice[l].origin + i * g.lattice[l].pitch <= P + A * t
          /\ P + A * t < g.lattice[l].origin + (i + 1) * g.lattice[l].pitch
      BY <3>2 DEF o, q
    <3> QED
      BY <1>3, <3>1, <3>3, ElementIs
  <2> QED
    BY <1>5, <2>1, <2>2
<1>9. CASE A = -1
  <2>1. P - lower > 0
    <3>1. P + A * e = P - e
      BY <1>9
    <3>2. P = lower => e = 0
      BY <1>6, <3>1
    <3>3. P # lower
      <4>1. B = P - e /\ P - 0 = P
        BY <1>0, <3>1
      <4> QED
        BY <1>5, <3>2, <4>1
    <3> QED
      BY <1>6, <3>1, <3>3
  <2>2. D = P - lower /\ D \in Nat \ {0} /\ P + A * D = lower
    <3>1. plane(i) = P - lower /\ ahead = i
      <4>1. plane(i) = (lower - P) * A
        <5>1. GridPlane(g, l, i) = lower
          BY <1>5 DEF GridPlane, o, q
        <5> QED
          BY <5>1
      <4>2. (lower - P) * A = P - lower
        BY <1>9
      <4> QED
        BY <1>9, <4>1, <4>2
    <3> HIDE DEF plane, ahead
    <3>2. D = P - lower
      BY <1>7, <2>1, <3>1
    <3> QED
      BY <1>9, <2>1, <3>2
  <2>3. ASSUME NEW t \in Int, e <= t, D > t
        PROVE  Element(g, l, P + A * t) = i
    <3>1. P + A * t \in Int /\ lower <= P + A * t /\ P + A * t < upper
      BY <1>6, <1>9, <2>2, <2>3
    <3>2. o + i * q <= P + A * t /\ P + A * t < o + (i + 1) * q
      BY <1>5, <3>1
    <3>3. /\ g.lattice[l].origin + i * g.lattice[l].pitch <= P + A * t
          /\ P + A * t < g.lattice[l].origin + (i + 1) * g.lattice[l].pitch
      BY <3>2 DEF o, q
    <3> QED
      BY <1>3, <3>1, <3>3, ElementIs
  <2> QED
    BY <1>5, <2>2, <2>3
<1> QED
  BY <1>8, <1>9

-----------------------------------------------------------------------------
(***************************************************************************)
(* Where a neutron is and what it meets.                                   *)
(***************************************************************************)
\* On a mirror it is in the cells it flies into.
Base(p, d) == IF Even(p) THEN p + d ELSE p

\* s is the stack of a neutron at p that flies along d.
Located(g, s, p, d) == Base(p, d) \in DOMAIN g.truth /\ s = FindCell(g, Base(p, d))

Hits(g, s, p, d) == SurfaceHits(g, s, p, d) \cup GridHits(g, s, p, d)

\* The cells, the frames and the lattice elements of the stack, as seen from p.
OnStack(g, s, p, d, e) ==
  /\ e \in {0, 1} /\ (e = 1 <=> Even(p)) /\ p + d * e = Base(p, d)
  /\ StackOK(s) /\ Len(s) \in 1..MaxDepth
  /\ \A n \in 0..Len(s) :
       /\ LocalPos(s, p)[n] \in Int /\ (Even(LocalPos(s, p)[n]) <=> Even(p))
       /\ LocalDir(s, d)[n] \in {-1, 1}
       /\ ~ Even(LocalPos(s, p)[n] + LocalDir(s, d)[n] * e)
  /\ \A n \in 1..Len(s) :
       /\ s[n].cell \in DOMAIN g.cell
       /\ Inside(g, s[n].cell, LocalPos(s, p)[n] + LocalDir(s, d)[n] * e)
       /\ s[n].lattice # None =>
            /\ n - 1 \in 1..Len(s) /\ s[n].lattice \in DOMAIN g.lattice
            /\ s[n].element =
                 Element(g, s[n].lattice, LocalPos(s, p)[n - 1] + LocalDir(s, d)[n - 1] * e)

LEMMA LocatedFacts ==
  ASSUME NEW g, WellFormed(g), NEW p \in Int, NEW d \in {-1, 1}, NEW s, Located(g, s, p, d)
  PROVE  \E e \in {0, 1} : OnStack(g, s, p, d, e)
<1> DEFINE b == Base(p, d)
           e == IF Even(p) THEN 1 ELSE 0
           B(n) == Found(g, b, n)
<1>1. b \in DOMAIN g.truth /\ s = FindCell(g, b)
  BY DEF Located
<1>2. Linked(g) /\ b \in Int /\ ~ Even(b) /\ FindCell(g, b) # <<>> /\ MaxDepth \in Nat
  BY <1>1, WellFormedFacts, RayAssumption
<1>3. e \in {0, 1} /\ (e = 1 <=> Even(p)) /\ p + d * e = b /\ e \in Int
  BY DEF Base
<1> HIDE DEF b, e
<1>4. PICK N \in 1..MaxDepth : Len(s) = N
  BY <1>1, <1>2, StackFacts
<1>5. /\ StackOK(s)
      /\ \A n \in 1..N : /\ LevelOK(g, b, n, B(n)) /\ s[n] = Coord(B(n).cell, B(n).frame)
                         /\ LocalPos(s, b)[n] = B(n).x
  BY <1>1, <1>2, <1>4, FoundLocal
<1>6. \A n \in 0..N :
        /\ LocalPos(s, p)[n] \in Int /\ (Even(LocalPos(s, p)[n]) <=> Even(p))
        /\ LocalDir(s, d)[n] \in {-1, 1}
        /\ LocalPos(s, p + d * e)[n] = LocalPos(s, p)[n] + LocalDir(s, d)[n] * e
  <2>1. PICK t \in Int : t = e
    BY <1>3
  <2>2. PICK z : z = Along(p, d, t)
    OBVIOUS
  <2>3. \A n \in 0..Len(s) :
          /\ LocalPos(s, p)[n] \in Int /\ (Even(LocalPos(s, p)[n]) <=> Even(p))
          /\ LocalDir(s, d)[n] \in {-1, 1}
          /\ LocalPos(s, z)[n] = Along(LocalPos(s, p)[n], LocalDir(s, d)[n], t)
    BY <1>5, <2>2, LocalMoves
  <2>4. z = p + d * e
    BY <2>1, <2>2 DEF Along
  <2> QED
    BY <1>4, <2>1, <2>3, <2>4 DEF Along
<1>7. \A n \in 0..N : Even(LocalPos(s, b)[n]) <=> Even(b)
  BY <1>2, <1>4, <1>5, LocalTypes
<1>8. \A n \in 0..N : /\ LocalPos(s, b)[n] = LocalPos(s, p)[n] + LocalDir(s, d)[n] * e
                      /\ ~ Even(LocalPos(s, p)[n] + LocalDir(s, d)[n] * e)
  BY <1>2, <1>3, <1>6, <1>7
<1>9. ASSUME NEW n \in 1..N
      PROVE  /\ s[n].cell \in DOMAIN g.cell
             /\ Inside(g, s[n].cell, LocalPos(s, p)[n] + LocalDir(s, d)[n] * e)
             /\ s[n].lattice # None =>
                  /\ n - 1 \in 1..N /\ s[n].lattice \in DOMAIN g.lattice
                  /\ s[n].element =
                       Element(g, s[n].lattice, LocalPos(s, p)[n - 1] + LocalDir(s, d)[n - 1] * e)
  <2>1. /\ LevelOK(g, b, n, B(n)) /\ s[n] = Coord(B(n).cell, B(n).frame)
        /\ LocalPos(s, b)[n] = B(n).x
    BY <1>5
  <2>2. /\ s[n].cell = B(n).cell /\ s[n].lattice = B(n).frame.lattice
        /\ s[n].element = B(n).frame.element
    BY <2>1 DEF Coord
  <2>3. s[n].cell \in DOMAIN g.cell /\ Inside(g, s[n].cell, B(n).x)
    BY <2>1, <2>2 DEF LevelOK
  <2>4. B(n).x = LocalPos(s, p)[n] + LocalDir(s, d)[n] * e
    <3>1. n \in 0..N
      OBVIOUS
    <3> QED
      BY <1>8, <2>1, <3>1
  <2>5. ASSUME s[n].lattice # None
        PROVE  /\ n - 1 \in 1..N /\ s[n].lattice \in DOMAIN g.lattice
               /\ s[n].element =
                    Element(g, s[n].lattice, LocalPos(s, p)[n - 1] + LocalDir(s, d)[n - 1] * e)
    <3>1. n # 1
      <4> SUFFICES ASSUME n = 1 PROVE FALSE
        OBVIOUS
      <4>1. B(n).frame = Root(g)
        BY <2>1 DEF LevelOK
      <4> QED
        BY <2>2, <2>5, <4>1 DEF Root, Frame
    <3>2. n - 1 \in 1..N /\ n \in 2..MaxDepth /\ n - 1 \in 0..N
      BY <1>2, <1>4, <3>1
    <3>3. LevelOK(g, b, n - 1, B(n - 1)) /\ LocalPos(s, b)[n - 1] = B(n - 1).x
      BY <1>5, <3>2
    <3>4. B(n).frame \in Below(g, B(n - 1).cell, B(n - 1).x)
      BY <1>2, <2>1, <3>2, <3>3, ChainFacts
    <3>5. B(n - 1).cell \in DOMAIN g.cell /\ B(n - 1).x \in Int
      BY <3>3 DEF LevelOK
    <3>6. \/ B(n).frame.lattice = None
          \/ /\ B(n).frame.lattice \in DOMAIN g.lattice
             /\ B(n).frame.element = Element(g, B(n).frame.lattice, B(n - 1).x)
      <4> PICK f, c, x : f = B(n).frame /\ c = B(n - 1).cell /\ x = B(n - 1).x
        OBVIOUS
      <4>1. f \in Below(g, c, x) /\ c \in DOMAIN g.cell /\ x \in Int
        BY <3>4, <3>5
      <4> HIDE DEF B
      <4>2. \/ f.lattice = None
            \/ f.lattice \in DOMAIN g.lattice /\ f.element = Element(g, f.lattice, x)
        BY <1>2, <4>1, BelowFacts
      <4> QED
        BY <4>2
    <3>7. B(n - 1).x = LocalPos(s, p)[n - 1] + LocalDir(s, d)[n - 1] * e
      BY <1>8, <3>2, <3>3
    <3> QED
      BY <2>2, <2>5, <3>2, <3>6, <3>7
  <2> QED
    BY <2>3, <2>4, <2>5
<1>10. OnStack(g, s, p, d, e)
  BY <1>3, <1>4, <1>5, <1>6, <1>8, <1>9 DEF OnStack, b
<1> QED
  BY <1>3, <1>10

\* Hits lie ahead, at even positions.
\* How far surface f of the cell at depth n lies ahead.
ToSurface(g, s, p, d, n, f) == (g.surface[f].at - LocalPos(s, p)[n]) * LocalDir(s, d)[n]

LEMMA SurfaceHitFacts ==
  ASSUME NEW g, Linked(g), NEW s, NEW p \in Int, NEW d \in {-1, 1}, NEW e,
         OnStack(g, s, p, d, e)
  PROVE  /\ \A h \in SurfaceHits(g, s, p, d) :
              /\ h.depth \in 1..Len(s) /\ h.distance \in Nat \ {0}
              /\ h.surface \in Surfaces(g, s[h.depth].cell) /\ h.surface # None
              /\ h.surface \in DOMAIN g.surface
              /\ g.surface[h.surface].at =
                   LocalPos(s, p)[h.depth] + LocalDir(s, d)[h.depth] * h.distance
         /\ \A n \in 1..Len(s) : \A f \in Surfaces(g, s[n].cell) :
              ToSurface(g, s, p, d, n, f) > 0 =>
                Hit(ToSurface(g, s, p, d, n, f), f, n) \in SurfaceHits(g, s, p, d)
<1>0. DOMAIN s = 1..Len(s)
  BY DEF OnStack, StackOK
<1>1. ASSUME NEW h \in SurfaceHits(g, s, p, d)
      PROVE  /\ h.depth \in 1..Len(s) /\ h.distance \in Nat \ {0}
             /\ h.surface \in Surfaces(g, s[h.depth].cell) /\ h.surface # None
             /\ h.surface \in DOMAIN g.surface
             /\ g.surface[h.surface].at =
                  LocalPos(s, p)[h.depth] + LocalDir(s, d)[h.depth] * h.distance
  <2> PICK n \in 1..Len(s) : \E f \in Surfaces(g, s[n].cell) :
        h = Hit((g.surface[f].at - LocalPos(s, p)[n]) * LocalDir(s, d)[n], f, n) /\ h.distance > 0
    BY <1>0 DEF SurfaceHits
  <2>1. PICK f \in Surfaces(g, s[n].cell) :
          h = Hit((g.surface[f].at - LocalPos(s, p)[n]) * LocalDir(s, d)[n], f, n) /\ h.distance > 0
    OBVIOUS
  <2>2. /\ h.distance = (g.surface[f].at - LocalPos(s, p)[n]) * LocalDir(s, d)[n]
        /\ h.surface = f /\ h.depth = n
    BY <2>1 DEF Hit
  <2>3. s[n].cell \in DOMAIN g.cell
    BY <2>1 DEF OnStack
  <2>4. f \in DOMAIN g.surface /\ None \notin DOMAIN g.surface
    BY <2>1, <2>3 DEF Linked
  <2>5. PICK at \in Int : at = g.surface[f].at
    BY <2>4 DEF Linked
  <2>6. PICK P \in Int, A \in {-1, 1} : P = LocalPos(s, p)[n] /\ A = LocalDir(s, d)[n]
    <3>1. n \in 0..Len(s)
      BY <2>1 DEF OnStack
    <3> QED
      BY <3>1 DEF OnStack
  <2>7. PICK D : D = h.distance
    OBVIOUS
  <2>8. D = (at - P) * A /\ D > 0
    BY <2>1, <2>2, <2>5, <2>6, <2>7
  <2>9. D \in Nat \ {0} /\ at = P + A * D
    <3>1. CASE A = 1
      BY <2>8, <3>1
    <3>2. CASE A = -1
      BY <2>8, <3>2
    <3> QED
      BY <3>1, <3>2
  <2> QED
    BY <2>1, <2>2, <2>4, <2>5, <2>6, <2>7, <2>9
<1>2. ASSUME NEW n \in 1..Len(s), NEW f \in Surfaces(g, s[n].cell),
             ToSurface(g, s, p, d, n, f) > 0
      PROVE  Hit(ToSurface(g, s, p, d, n, f), f, n) \in SurfaceHits(g, s, p, d)
  <2>1. Hit(ToSurface(g, s, p, d, n, f), f, n).distance > 0
    BY <1>2 DEF Hit
  <2> QED
    BY <1>0, <1>2, <2>1 DEF SurfaceHits, ToSurface
<1> QED
  BY <1>1, <1>2

LEMMA LocalEven ==
  ASSUME NEW s, StackOK(s), NEW p \in Int, NEW d \in {-1, 1}, NEW D \in Int,
         NEW n \in 0..Len(s)
  PROVE  Even(LocalPos(s, p)[n] + LocalDir(s, d)[n] * D) <=> Even(p + d * D)
<1>1. PICK q \in Int : q = p + d * D
  OBVIOUS
<1>2. LocalPos(s, q)[n] = LocalPos(s, p)[n] + LocalDir(s, d)[n] * D
  <2>1. q = Along(p, d, D)
    BY <1>1 DEF Along
  <2>2. LocalPos(s, q)[n] = Along(LocalPos(s, p)[n], LocalDir(s, d)[n], D)
    BY <2>1, LocalMoves
  <2> QED
    BY <2>2 DEF Along
<1>3. Even(LocalPos(s, q)[n]) <=> Even(q)
  BY LocalTypes
<1> QED
  BY <1>1, <1>2, <1>3

\* No grid plane is met up to t.
NoGridTo(g, s, p, d, t) == \A h \in GridHits(g, s, p, d) : h.distance > t

LEMMA GridHitFacts ==
  ASSUME NEW g, Linked(g), NEW s, NEW p \in Int, NEW d \in {-1, 1}, NEW e,
         OnStack(g, s, p, d, e)
  PROVE  /\ \A h \in GridHits(g, s, p, d) :
              /\ h.depth \in 1..Len(s) /\ h.surface = None /\ h.distance \in Nat \ {0}
              /\ Even(p + d * h.distance)
         /\ \A t \in Int : e <= t /\ NoGridTo(g, s, p, d, t) => \A n \in 1..Len(s) :
              s[n].lattice # None =>
                Element(g, s[n].lattice, Along(LocalPos(s, p)[n - 1], LocalDir(s, d)[n - 1], t))
                  = s[n].element
<1> DEFINE D(n) == DistanceToGrid(g, s[n].lattice, LocalPos(s, p)[n - 1], LocalDir(s, d)[n - 1],
                                  s[n].element)
<1>1. ASSUME NEW n \in 1..Len(s), s[n].lattice # None
      PROVE  /\ D(n) \in Nat \ {0} /\ Even(p + d * D(n))
             /\ \A t \in Int : e <= t /\ D(n) > t =>
                  Element(g, s[n].lattice, Along(LocalPos(s, p)[n - 1], LocalDir(s, d)[n - 1], t))
                    = s[n].element
  <2>1. /\ n - 1 \in 1..Len(s) /\ s[n].lattice \in DOMAIN g.lattice
        /\ s[n].element =
             Element(g, s[n].lattice, LocalPos(s, p)[n - 1] + LocalDir(s, d)[n - 1] * e)
    BY <1>1 DEF OnStack
  <2>2. n - 1 \in 0..Len(s) /\ StackOK(s) /\ e \in {0, 1}
    BY <2>1 DEF OnStack
  <2>3. PICK P \in Int, A \in {-1, 1} :
          P = LocalPos(s, p)[n - 1] /\ A = LocalDir(s, d)[n - 1] /\ ~ Even(P + A * e)
    BY <2>2 DEF OnStack
  <2>4. PICK l, i, B : l = s[n].lattice /\ i = s[n].element /\ B = Along(P, A, e)
    OBVIOUS
  <2>5. l \in DOMAIN g.lattice /\ i = Element(g, l, B) /\ ~ Even(B)
    BY <2>1, <2>3, <2>4 DEF Along
  <2>6. PICK far \in Nat \ {0} :
          /\ far = DistanceToGrid(g, l, P, A, i) /\ Even(Along(P, A, far))
          /\ \A t \in Int : e <= t /\ far > t => Element(g, l, Along(P, A, t)) = i
    BY <2>2, <2>4, <2>5, GridFacts
  <2>7. Even(p + d * far)
    <3>1. PICK F \in Int, m \in 0..Len(s) : F = far /\ m = n - 1
      BY <2>2, <2>6
    <3>2. Even(LocalPos(s, p)[m] + LocalDir(s, d)[m] * F) <=> Even(p + d * F)
      BY <2>2, LocalEven
    <3> QED
      BY <2>3, <2>6, <3>1, <3>2 DEF Along
  <2>8. far = D(n)
    BY <2>3, <2>4, <2>6
  <2> QED
    BY <2>3, <2>4, <2>6, <2>7, <2>8 DEF Along
<1>2. DOMAIN s = 1..Len(s)
  BY DEF OnStack, StackOK
<1>3. GridHits(g, s, p, d) = {Hit(D(n), None, n) : n \in {j \in DOMAIN s : s[j].lattice # None}}
  BY DEF GridHits
<1> HIDE DEF D
<1>4. ASSUME NEW h \in GridHits(g, s, p, d)
      PROVE  /\ h.depth \in 1..Len(s) /\ h.surface = None /\ h.distance \in Nat \ {0}
             /\ Even(p + d * h.distance)
  <2>1. PICK n \in 1..Len(s) : s[n].lattice # None /\ h = Hit(D(n), None, n)
    BY <1>2, <1>3
  <2>2. h.depth = n /\ h.surface = None /\ h.distance = D(n)
    BY <2>1 DEF Hit
  <2> QED
    BY <1>1, <2>1, <2>2
<1>5. ASSUME NEW n \in 1..Len(s), NEW t \in Int,
             s[n].lattice # None, e <= t, NoGridTo(g, s, p, d, t)
      PROVE  Element(g, s[n].lattice, Along(LocalPos(s, p)[n - 1], LocalDir(s, d)[n - 1], t))
               = s[n].element
  <2>1. Hit(D(n), None, n) \in GridHits(g, s, p, d)
    BY <1>2, <1>3, <1>5
  <2>2. Hit(D(n), None, n).distance = D(n)
    BY DEF Hit
  <2>3. D(n) > t
    BY <1>5, <2>1, <2>2 DEF NoGridTo
  <2> QED
    BY <1>1, <1>5, <2>3
<1> QED
  BY <1>4, <1>5

LEMMA HitFacts ==
  ASSUME NEW g, Linked(g), NEW s, NEW p \in Int, NEW d \in {-1, 1}, NEW e,
         OnStack(g, s, p, d, e), NEW h \in Hits(g, s, p, d)
  PROVE  h.depth \in 1..Len(s) /\ h.distance \in Nat \ {0} /\ Even(p + d * h.distance)
<1>1. CASE h \in GridHits(g, s, p, d)
  BY <1>1, GridHitFacts
<1>2. CASE h \in SurfaceHits(g, s, p, d)
  <2>1. /\ h.depth \in 1..Len(s) /\ h.distance \in Nat \ {0} /\ h.surface \in DOMAIN g.surface
        /\ g.surface[h.surface].at =
             LocalPos(s, p)[h.depth] + LocalDir(s, d)[h.depth] * h.distance
    BY <1>2, SurfaceHitFacts
  <2>2. Even(g.surface[h.surface].at)
    BY <2>1 DEF Linked
  <2>3. PICK D \in Int, n \in 0..Len(s) : D = h.distance /\ n = h.depth
    BY <2>1 DEF OnStack
  <2>4. Even(LocalPos(s, p)[n] + LocalDir(s, d)[n] * D)
    BY <2>1, <2>2, <2>3
  <2>5. Even(p + d * D)
    BY <2>4, LocalEven DEF OnStack
  <2> QED
    BY <2>1, <2>3, <2>5
<1> QED
  BY <1>1, <1>2 DEF Hits

-----------------------------------------------------------------------------
(***************************************************************************)
(* The borders.                                                            *)
(***************************************************************************)
LEMMA RootCell ==
  ASSUME NEW g, WellFormed(g), NEW x \in Int, ~ Even(x), FindCell(g, x) # <<>>
  PROVE  LET s == FindCell(g, x) IN
           /\ 1 \in 1..Len(s)
           /\ \A p \in Int : LocalPos(s, p)[1] = p
           /\ \A d \in {-1, 1} : LocalDir(s, d)[1] = d
           /\ \E i \in DOMAIN g.universe[g.root] : s[1].cell = g.universe[g.root][i]
           /\ \A n \in 2..Len(s) : \E u \in DOMAIN g.universe \ {g.root} :
                \E i \in DOMAIN g.universe[u] : s[n].cell = g.universe[u][i]
           /\ Inside(g, s[1].cell, x)
<1> DEFINE s == FindCell(g, x)
           B(n) == Found(g, x, n)
<1>1. Linked(g)
  BY DEF WellFormed
<1>2. PICK N \in 1..MaxDepth : Len(s) = N
  BY <1>1, StackFacts
<1>3. /\ StackOK(s)
      /\ \A n \in 1..N : /\ LevelOK(g, x, n, B(n)) /\ s[n] = Coord(B(n).cell, B(n).frame)
  BY <1>1, <1>2, FoundLocal
<1> HIDE DEF s
<1>4. N \in Nat /\ 1 \in 1..N /\ MaxDepth \in Nat
  BY RayAssumption
<1>5. ASSUME NEW n \in 1..N
      PROVE  /\ s[n].cell = B(n).cell /\ s[n].turned = B(n).frame.turned
             /\ s[n].offset = B(n).frame.offset
  <2>1. s[n] = Coord(B(n).cell, B(n).frame)
    BY <1>3
  <2> QED
    BY <2>1 DEF Coord
<1>6. LevelOK(g, x, 1, B(1))
  BY <1>3, <1>4
<1>7. B(1).frame = Root(g) /\ B(1).x = x
  BY <1>6 DEF LevelOK
<1>8. s[1].turned = FALSE /\ s[1].offset = 0 /\ s[1].cell = B(1).cell
  BY <1>4, <1>5, <1>7 DEF Root, Frame
<1>9. ASSUME NEW p \in Int
      PROVE  LocalPos(s, p)[1] = p
  <2>1. /\ LocalPos(s, p)[0] = p
        /\ LocalPos(s, p)[1] = Turn(s[1].turned, LocalPos(s, p)[1 - 1] - s[1].offset)
    BY <1>2, <1>4, LocalPosEq
  <2> QED
    BY <1>8, <2>1 DEF Turn
<1>10. ASSUME NEW d \in {-1, 1}
       PROVE  LocalDir(s, d)[1] = d
  <2>1. LocalDir(s, d)[0] = d /\ LocalDir(s, d)[1] = Turn(s[1].turned, LocalDir(s, d)[1 - 1])
    BY <1>2, <1>4, LocalDirEq
  <2> QED
    BY <1>8, <2>1 DEF Turn
<1>11. /\ \E i \in DOMAIN g.universe[g.root] : s[1].cell = g.universe[g.root][i]
       /\ Inside(g, s[1].cell, x)
  <2>1. Root(g).universe = g.root
    BY <1>1, RootOK
  <2> QED
    BY <1>6, <1>7, <1>8, <2>1 DEF LevelOK
<1>12. ASSUME NEW n \in 2..N
       PROVE  \E u \in DOMAIN g.universe \ {g.root} :
                \E i \in DOMAIN g.universe[u] : s[n].cell = g.universe[u][i]
  <2>1. n \in 1..N /\ n > 1
    BY <1>4
  <2>2. LevelOK(g, x, n, B(n)) /\ s[n].cell = B(n).cell
    BY <1>3, <1>5, <2>1
  <2>3. B(n).frame.universe \in DOMAIN g.universe \ {g.root}
    BY <2>1, <2>2 DEF LevelOK, FrameOK
  <2> QED
    BY <2>2, <2>3 DEF LevelOK
<1> QED
  BY <1>2, <1>4, <1>9, <1>10, <1>11, <1>12 DEF s

LEMMA WithinBorders ==
  ASSUME NEW g, WellFormed(g), NEW i \in DOMAIN g.universe[g.root], NEW z \in Int,
         Inside(g, g.universe[g.root][i], z)
  PROVE  /\ g.surface[g.left].at < z /\ z < g.surface[g.right].at
         /\ ~ Even(z) => z \in DOMAIN g.truth
<1> DEFINE c == g.universe[g.root][i]
<1>1. Linked(g) /\ Bounded(g) /\ Complete(g)
  BY DEF WellFormed
<1>2. g.surface[g.left].at \in Int /\ g.surface[g.right].at \in Int
  BY <1>1 DEF Linked
<1>3. c \in DOMAIN g.cell
  BY <1>1 DEF Linked
<1>4. PICK clause \in g.cell[c].region :
        \A h \in clause : IF h.positive THEN z > g.surface[h.surface].at
                                        ELSE z < g.surface[h.surface].at
  BY DEF Inside
<1>5. \A h \in clause : g.surface[h.surface].at \in Int
  <2>1. \A h \in clause : h.surface \in Surfaces(g, c)
    BY <1>4 DEF Surfaces
  <2> QED
    BY <1>1, <1>3, <2>1 DEF Linked
<1>6. /\ \E h \in clause : h.positive /\ g.surface[h.surface].at >= g.surface[g.left].at
      /\ \E h \in clause : ~ h.positive /\ g.surface[h.surface].at <= g.surface[g.right].at
  BY <1>1, <1>4 DEF Bounded
<1> HIDE DEF c
<1>7. g.surface[g.left].at < z
  <2>1. PICK h \in clause : h.positive /\ g.surface[h.surface].at >= g.surface[g.left].at
    BY <1>6
  <2>2. z > g.surface[h.surface].at /\ g.surface[h.surface].at \in Int
    BY <1>4, <1>5, <2>1
  <2> QED
    BY <1>2, <2>1, <2>2
<1>8. z < g.surface[g.right].at
  <2>1. PICK h \in clause : ~ h.positive /\ g.surface[h.surface].at <= g.surface[g.right].at
    BY <1>6
  <2>2. z < g.surface[h.surface].at /\ g.surface[h.surface].at \in Int
    BY <1>4, <1>5, <2>1
  <2> QED
    BY <1>2, <2>1, <2>2
<1>9. ~ Even(z) => z \in DOMAIN g.truth
  BY <1>1, <1>2, <1>7, <1>8 DEF Complete
<1> QED
  BY <1>7, <1>8, <1>9

\* Beyond the borders nothing is found.
LEMMA FoundInside ==
  ASSUME NEW g, WellFormed(g), NEW x \in Int, ~ Even(x), FindCell(g, x) # <<>>
  PROVE  x \in DOMAIN g.truth
<1>1. PICK i \in DOMAIN g.universe[g.root] : Inside(g, g.universe[g.root][i], x)
  <2>1. /\ \E i \in DOMAIN g.universe[g.root] : FindCell(g, x)[1].cell = g.universe[g.root][i]
        /\ Inside(g, FindCell(g, x)[1].cell, x)
    BY RootCell
  <2> QED
    BY <2>1
<1> QED
  BY <1>1, WithinBorders

-----------------------------------------------------------------------------
(***************************************************************************)
(* Flights.                                                                *)
(***************************************************************************)
Clear(g, s, p, d, t) == \A h \in Hits(g, s, p, d) : h.distance > t

LEMMA SameStack ==
  ASSUME NEW g, WellFormed(g), NEW p \in Int, NEW d \in {-1, 1}, NEW s, Located(g, s, p, d),
         NEW t \in Nat, Clear(g, s, p, d, t), NEW z, z = Along(p, d, t), ~ Even(z)
  PROVE  z \in DOMAIN g.truth /\ FindCell(g, z) = s
<1>0. z = p + d * t
  BY DEF Along
<1>1. PICK e \in {0, 1} : OnStack(g, s, p, d, e)
  BY LocatedFacts
<1>2. Linked(g) /\ StackOK(s) /\ z \in Int /\ MaxDepth \in Nat
  BY <1>1, <1>0, RayAssumption DEF OnStack, WellFormed
<1>3. e <= t
  <2>1. e = 1 => Even(p)
    BY <1>1 DEF OnStack
  <2>2. t = 0 => z = p
    BY <1>0
  <2> QED
    BY <2>1, <2>2
<1>4. \A n \in 0..Len(s) : LocalPos(s, z)[n] = Along(LocalPos(s, p)[n], LocalDir(s, d)[n], t)
  <2>1. t \in Int
    OBVIOUS
  <2> QED
    BY <1>2, <2>1, LocalMoves
<1>5. ASSUME NEW n \in 1..Len(s)
      PROVE  Inside(g, s[n].cell, LocalPos(s, z)[n])
  <2>0. n \in 0..Len(s)
    BY <1>2 DEF StackOK
  <2>1. PICK P \in Int, A \in {-1, 1} : P = LocalPos(s, p)[n] /\ A = LocalDir(s, d)[n]
    BY <1>1, <2>0 DEF OnStack
  <2>2. PICK c \in DOMAIN g.cell : c = s[n].cell
    BY <1>1 DEF OnStack
  <2>3. Inside(g, c, Along(P, A, e))
    BY <1>1, <2>1, <2>2 DEF OnStack, Along
  <2>4. NotMet(g, c, P, A, t)
    <3> SUFFICES ASSUME NEW f \in Surfaces(g, c), (g.surface[f].at - P) * A > 0
                 PROVE  (g.surface[f].at - P) * A > t
      BY DEF NotMet
    <3>0. ToSurface(g, s, p, d, n, f) = (g.surface[f].at - P) * A
      BY <2>1 DEF ToSurface
    <3>1. Hit(ToSurface(g, s, p, d, n, f), f, n) \in SurfaceHits(g, s, p, d)
      BY <1>1, <1>2, <2>2, <3>0, SurfaceHitFacts
    <3>2. Hit((g.surface[f].at - P) * A, f, n) \in Hits(g, s, p, d)
      BY <3>0, <3>1 DEF Hits
    <3>3. Hit((g.surface[f].at - P) * A, f, n).distance = (g.surface[f].at - P) * A
      BY DEF Hit
    <3> QED
      BY <3>2, <3>3 DEF Clear
  <2>5. Inside(g, c, Along(P, A, t))
    BY <1>2, <1>3, <2>3, <2>4, InsideKept
  <2>6. Along(P, A, t) = LocalPos(s, z)[n]
    BY <1>4, <2>0, <2>1
  <2> QED
    BY <2>2, <2>5, <2>6
<1>6. ASSUME NEW n \in 1..Len(s), s[n].lattice # None
      PROVE  Element(g, s[n].lattice, LocalPos(s, z)[n - 1]) = s[n].element
  <2>1. n - 1 \in 0..Len(s)
    BY <1>2 DEF StackOK
  <2>2. PICK k \in Int : k = t
    OBVIOUS
  <2>3. e <= k /\ NoGridTo(g, s, p, d, k)
    BY <1>3, <2>2 DEF Clear, Hits, NoGridTo
  <2>4. \A m \in 1..Len(s) : s[m].lattice # None =>
          Element(g, s[m].lattice, Along(LocalPos(s, p)[m - 1], LocalDir(s, d)[m - 1], k))
            = s[m].element
    BY <1>1, <1>2, <2>3, GridHitFacts
  <2>5. Element(g, s[n].lattice, Along(LocalPos(s, p)[n - 1], LocalDir(s, d)[n - 1], k))
          = s[n].element
    BY <1>6, <2>4
  <2> QED
    BY <1>4, <2>1, <2>2, <2>5
<1>7. AlongStack(g, s, z)
  BY <1>5, <1>6 DEF AlongStack
<1>8. Base(p, d) \in DOMAIN g.truth /\ s = FindCell(g, Base(p, d))
  BY DEF Located
<1>9. z \in DOMAIN g.truth
  <2>1. PICK b \in DOMAIN g.truth :
          b \in Int /\ ~ Even(b) /\ FindCell(g, b) # <<>> /\ s = FindCell(g, b)
    BY <1>8, WellFormedFacts
  <2>2. /\ 1 \in 1..Len(s) /\ LocalPos(s, z)[1] = z
        /\ \E i \in DOMAIN g.universe[g.root] : s[1].cell = g.universe[g.root][i]
    BY <1>2, <2>1, RootCell
  <2>3. PICK i \in DOMAIN g.universe[g.root] : s[1].cell = g.universe[g.root][i]
    BY <2>2
  <2>4. Inside(g, g.universe[g.root][i], z)
    BY <1>5, <2>2, <2>3
  <2> QED
    BY <1>2, <2>4, WithinBorders
<1> QED
  BY <1>7, <1>8, <1>9, SameCells

\* Something is always hit: at the borders the stack ends.
LEMMA SomeHit ==
  ASSUME NEW g, WellFormed(g), NEW p \in Int, NEW d \in {-1, 1}, NEW s, Located(g, s, p, d)
  PROVE  Hits(g, s, p, d) # {}
<1> SUFFICES ASSUME Hits(g, s, p, d) = {}
             PROVE  FALSE
  OBVIOUS
<1>0. PICK e \in {0, 1} : OnStack(g, s, p, d, e)
  BY LocatedFacts
<1>1. PICK b \in DOMAIN g.truth : b = p + d * e
  BY <1>0 DEF OnStack, Located
<1>2. PICK left \in Int, right \in Int :
        left = g.surface[g.left].at /\ right = g.surface[g.right].at
  BY <1>1, WellFormedFacts
<1>3. b \in Int /\ ~ Even(b) /\ left < b /\ b < right
  BY <1>1, <1>2, WellFormedFacts
<1>4. PICK K \in Nat : K = right - left
  BY <1>2, <1>3
<1>5. PICK t \in Nat : t = e + 2 * K
  BY <1>4
<1>6. PICK z \in Int : z = p + d * t
  OBVIOUS
<1>7. z = b + d * (2 * K)
  BY <1>1, <1>5, <1>6
<1>8. ~ Even(z) /\ ~ (left < z /\ z < right)
  <2>1. CASE d = 1
    <3>1. z = b + 2 * K
      BY <1>7, <2>1
    <3> QED
      BY <1>3, <1>4, <3>1 DEF Even
  <2>2. CASE d = -1
    <3>1. z = b - 2 * K
      <4>1. PICK k \in Int : k = 2 * K
        OBVIOUS
      <4>2. d * k = - k
        BY <2>2
      <4> QED
        BY <1>3, <1>7, <4>1, <4>2
    <3> QED
      BY <1>3, <1>4, <3>1 DEF Even
  <2> QED
    BY <2>1, <2>2
<1>9. z \in DOMAIN g.truth
  <2>1. Clear(g, s, p, d, t)
    BY DEF Clear
  <2> QED
    BY <1>6, <1>8, <2>1, SameStack DEF Along
<1> QED
  BY <1>2, <1>8, <1>9, WellFormedFacts

-----------------------------------------------------------------------------
(***************************************************************************)
(* What is hit first.                                                      *)
(***************************************************************************)
LEMMA ShallowestIs ==
  ASSUME NEW C, C # {}, \A h \in C : h.depth \in Nat
  PROVE  Shallowest(C) \in C /\ \A k \in C : Shallowest(C).depth <= k.depth
<1> DEFINE T == {h.depth : h \in C}
<1>1. PICK m \in T : \A n \in T : m <= n
  <2>1. T \in SUBSET Nat /\ T # {}
    OBVIOUS
  <2> HIDE DEF T
  <2> QED
    BY <2>1, Least
<1>2. \E h \in C : \A k \in C : h.depth <= k.depth
  BY <1>1
<1> QED
  BY <1>2 DEF Shallowest

LEMMA NearestIs ==
  ASSUME NEW C, C # {}, \A h \in C : h.distance \in Nat
  PROVE  /\ Nearest(C) # {}
         /\ \A h \in Nearest(C) : h \in C /\ \A k \in C : h.distance <= k.distance
         /\ \A h \in C : (\E k \in Nearest(C) : h.distance = k.distance) => h \in Nearest(C)
<1> DEFINE T == {h.distance : h \in C}
<1>1. PICK m \in T : \A n \in T : m <= n
  <2>1. T \in SUBSET Nat /\ T # {}
    OBVIOUS
  <2> HIDE DEF T
  <2> QED
    BY <2>1, Least
<1>2. \E h \in C : \A k \in C : h.distance <= k.distance
  BY <1>1
<1> QED
  BY <1>2 DEF Nearest

LEMMA TraceStepIs ==
  ASSUME NEW g, WellFormed(g), NEW p \in Int, NEW d \in {-1, 1}, NEW s, Located(g, s, p, d),
         NEW hit, hit = TraceStep(g, s, p, d)
  PROVE  /\ hit \in Hits(g, s, p, d) /\ hit # NoHit
         /\ hit.distance \in Nat \ {0} /\ Even(Along(p, d, hit.distance))
         /\ \A k \in Hits(g, s, p, d) : hit.distance <= k.distance
         /\ \A k \in SurfaceHits(g, s, p, d) :
              k.distance = hit.distance => hit \in SurfaceHits(g, s, p, d) /\ hit.depth <= k.depth
<1> DEFINE H == Hits(g, s, p, d)
           F == SurfaceHits(g, s, p, d)
           near == Nearest(H)
           C == IF near \cap F # {} THEN near \cap F ELSE near
<1>0. PICK e \in {0, 1} : OnStack(g, s, p, d, e)
  BY LocatedFacts
<1>1. \A h \in H : h.depth \in 1..Len(s) /\ h.distance \in Nat \ {0} /\ Even(p + d * h.distance)
  BY <1>0, HitFacts DEF WellFormed
<1>2. H # {} /\ F \subseteq H /\ Len(s) \in Nat
  BY <1>0, SomeHit DEF Hits, OnStack, StackOK
<1> HIDE DEF H, F
<1>3. /\ near # {}
      /\ \A h \in near : h \in H /\ \A k \in H : h.distance <= k.distance
      /\ \A h \in H : (\E k \in near : h.distance = k.distance) => h \in near
  BY <1>1, <1>2, NearestIs
<1>4. hit = Shallowest(C)
  BY <1>3 DEF TraceStep, Hits, H, F
<1>5. C # {} /\ C \subseteq near /\ C \subseteq H
  BY <1>3
<1> HIDE DEF near
<1>6. hit \in C /\ \A k \in C : hit.depth <= k.depth
  <2>1. \A h \in C : h.depth \in Nat
    BY <1>1, <1>2, <1>5
  <2> HIDE DEF C
  <2> QED
    BY <1>4, <1>5, <2>1, ShallowestIs
<1>7. hit \in H /\ hit \in near /\ \A k \in H : hit.distance <= k.distance
  BY <1>3, <1>5, <1>6
<1>8. ASSUME NEW k \in F, k.distance = hit.distance
      PROVE  hit \in F /\ hit.depth <= k.depth
  <2>1. k \in near
    BY <1>2, <1>3, <1>7, <1>8
  <2>2. C = near \cap F /\ k \in C
    BY <1>8, <2>1
  <2> QED
    BY <1>6, <2>2
<1>9. hit.distance \in Nat \ {0} /\ Even(p + d * hit.distance)
  BY <1>1, <1>7
<1>10. hit # NoHit
  BY <1>9 DEF NoHit, Hit
<1> QED
  BY <1>7, <1>8, <1>9, <1>10 DEF H, F, Along

\* Where a border is reached it is hit, and only there are boundary conditions met.
LEMMA BorderHit ==
  ASSUME NEW g, WellFormed(g), NEW i \in DOMAIN g.universe[g.root], NEW d \in {-1, 1},
         NEW x \in Int, Even(x), NEW z, z = x - d, Inside(g, g.universe[g.root][i], z),
         NEW y, y = x + d, y \notin DOMAIN g.truth
  PROVE  \E border \in {g.left, g.right} :
           /\ g.surface[border].at = x
           /\ border \in Surfaces(g, g.universe[g.root][i])
           /\ \A f \in Surfaces(g, g.universe[g.root][i]) : g.surface[f].at = x => f = border
<1> DEFINE c == g.universe[g.root][i]
<1>1. Linked(g) /\ Bounded(g) /\ Complete(g)
  BY DEF WellFormed
<1>2. PICK left \in Int, right \in Int :
        /\ left = g.surface[g.left].at /\ right = g.surface[g.right].at
        /\ Even(left) /\ Even(right)
  BY <1>1 DEF Linked
<1>3. z \in Int /\ z = x - d
  OBVIOUS
<1>4. left < z /\ z < right
  BY <1>2, <1>3, WithinBorders
<1>5. y \in Int /\ ~ Even(y)
  BY DEF Even
<1>6. y < left \/ y > right
  BY <1>1, <1>2, <1>5 DEF Complete
<1>7. \/ d = 1 /\ x = right
      \/ d = -1 /\ x = left
  BY <1>2, <1>3, <1>4, <1>6
<1>8. c \in DOMAIN g.cell
  BY <1>1 DEF Linked
<1>9. PICK clause \in g.cell[c].region :
        \A h \in clause : IF h.positive THEN z > g.surface[h.surface].at
                                        ELSE z < g.surface[h.surface].at
  BY <1>3 DEF Inside
<1>10. \A h \in clause : h.surface \in Surfaces(g, c) /\ g.surface[h.surface].at \in Int
  <2>1. \A h \in clause : h.surface \in Surfaces(g, c)
    BY <1>9 DEF Surfaces
  <2> QED
    BY <1>1, <1>8, <2>1 DEF Linked
<1>11. /\ \E h \in clause : h.positive /\ g.surface[h.surface].at >= left
       /\ \E h \in clause : ~ h.positive /\ g.surface[h.surface].at <= right
       /\ \A f \in Surfaces(g, c), border \in {g.left, g.right} :
            g.surface[f].at = g.surface[border].at => f = border
  BY <1>1, <1>2, <1>9 DEF Bounded
<1> HIDE DEF c
<1>12. PICK border \in {g.left, g.right} :
         g.surface[border].at = x /\ border \in Surfaces(g, c)
  <2>1. CASE d = 1 /\ x = right
    <3>1. PICK h \in clause : ~ h.positive /\ g.surface[h.surface].at <= right
      BY <1>11
    <3>2. z < g.surface[h.surface].at /\ g.surface[h.surface].at \in Int
      BY <1>9, <1>10, <3>1
    <3>3. g.surface[h.surface].at = right
      BY <1>3, <2>1, <3>1, <3>2
    <3>4. h.surface = g.right
      BY <1>2, <1>10, <1>11, <3>3
    <3> QED
      BY <1>2, <1>10, <2>1, <3>4
  <2>2. CASE d = -1 /\ x = left
    <3>1. PICK h \in clause : h.positive /\ g.surface[h.surface].at >= left
      BY <1>11
    <3>2. z > g.surface[h.surface].at /\ g.surface[h.surface].at \in Int
      BY <1>9, <1>10, <3>1
    <3>3. g.surface[h.surface].at = left
      BY <1>3, <2>2, <3>1, <3>2
    <3>4. h.surface = g.left
      BY <1>2, <1>10, <1>11, <3>3
    <3> QED
      BY <1>2, <1>10, <2>2, <3>4
  <2> QED
    BY <1>7, <2>1, <2>2
<1> QED
  BY <1>11, <1>12 DEF c

LEMMA CrossFacts ==
  ASSUME NEW g, WellFormed(g), NEW p \in Int, NEW d \in {-1, 1}, NEW s, Located(g, s, p, d),
         NEW hit, hit = TraceStep(g, s, p, d), NEW x, x = Along(p, d, hit.distance)
  PROVE  /\ x \in Int /\ Even(x)
         /\ x - d \in DOMAIN g.truth /\ FindCell(g, x - d) = s
         /\ Boundary(g, hit) \in {"transmission", "reflective", "vacuum"}
         /\ Boundary(g, hit) = "transmission" => x + d \in DOMAIN g.truth
         /\ Boundary(g, hit) # "transmission" =>
              \E border \in {g.left, g.right} :
                g.surface[border].at = x /\ g.surface[border].bc = Boundary(g, hit)
<1>1. Linked(g) /\ Bounded(g) /\ Complete(g)
  BY DEF WellFormed
<1>2. PICK D \in Nat \ {0} : D = hit.distance
  BY TraceStepIs
<1>3. x = p + d * D
  BY <1>2 DEF Along
<1>4. x \in Int /\ Even(x)
  <2>1. Even(x)
    BY TraceStepIs
  <2> QED
    BY <1>2, <1>3, <2>1
<1>5. x - d \in DOMAIN g.truth /\ FindCell(g, x - d) = s
  <2>1. PICK t \in Nat : t = D - 1
    BY <1>2
  <2>2. PICK z : z = Along(p, d, t)
    OBVIOUS
  <2>3. z = x - d
    <3>1. CASE d = 1
      BY <1>3, <2>1, <2>2, <3>1 DEF Along
    <3>2. CASE d = -1
      BY <1>3, <2>1, <2>2, <3>2 DEF Along
    <3> QED
      BY <3>1, <3>2
  <2>4. ~ Even(z)
    BY <1>4, <2>3 DEF Even
  <2>5. Clear(g, s, p, d, t)
    <3>1. \A k \in Hits(g, s, p, d) : D <= k.distance /\ k.distance \in Nat
      <4>1. PICK e \in {0, 1} : OnStack(g, s, p, d, e)
        BY LocatedFacts
      <4>2. \A k \in Hits(g, s, p, d) : hit.distance <= k.distance
        BY TraceStepIs
      <4>3. \A k \in Hits(g, s, p, d) : k.distance \in Nat
        BY <1>1, <4>1, HitFacts
      <4> QED
        BY <1>2, <4>2, <4>3
    <3> QED
      BY <2>1, <3>1 DEF Clear
  <2>6. z \in DOMAIN g.truth /\ FindCell(g, z) = s
    BY <2>2, <2>4, <2>5, SameStack
  <2> QED
    BY <2>3, <2>6
<1>6. PICK e \in {0, 1} : OnStack(g, s, p, d, e)
  BY LocatedFacts
<1>7. /\ 1 \in 1..Len(s) /\ LocalPos(s, p)[1] = p /\ LocalDir(s, d)[1] = d
      /\ \E i \in DOMAIN g.universe[g.root] : s[1].cell = g.universe[g.root][i]
      /\ \A n \in 2..Len(s) : \E u \in DOMAIN g.universe \ {g.root} :
           \E i \in DOMAIN g.universe[u] : s[n].cell = g.universe[u][i]
      /\ Inside(g, s[1].cell, x - d)
  <2>1. PICK z \in DOMAIN g.truth : z = x - d
    BY <1>5
  <2>2. z \in Int /\ ~ Even(z) /\ FindCell(g, z) # <<>> /\ FindCell(g, z) = s
    BY <1>5, <2>1, WellFormedFacts
  <2> QED
    BY <2>1, <2>2, RootCell
<1>8. PICK i \in DOMAIN g.universe[g.root] : s[1].cell = g.universe[g.root][i]
  BY <1>7
<1>9. ASSUME hit.surface # None
      PROVE  /\ hit \in SurfaceHits(g, s, p, d) /\ hit.depth \in 1..Len(s)
             /\ hit.surface \in Surfaces(g, s[hit.depth].cell)
             /\ hit.surface \in DOMAIN g.surface
             /\ hit.depth = 1 => g.surface[hit.surface].at = x
  <2>1. hit \in Hits(g, s, p, d)
    BY TraceStepIs
  <2>2. hit \in SurfaceHits(g, s, p, d)
    BY <1>1, <1>6, <1>9, <2>1, GridHitFacts DEF Hits
  <2>3. /\ hit.depth \in 1..Len(s) /\ hit.surface \in Surfaces(g, s[hit.depth].cell)
        /\ hit.surface \in DOMAIN g.surface
        /\ g.surface[hit.surface].at =
             LocalPos(s, p)[hit.depth] + LocalDir(s, d)[hit.depth] * hit.distance
    BY <1>1, <1>6, <2>2, SurfaceHitFacts
  <2> QED
    BY <1>2, <1>3, <1>7, <2>2, <2>3
<1>10. Boundary(g, hit) \in {"transmission", "reflective", "vacuum"}
  BY <1>1, <1>9 DEF Boundary, Linked
<1>11. ASSUME x + d \notin DOMAIN g.truth
       PROVE  Boundary(g, hit) # "transmission"
  <2>1. PICK border \in {g.left, g.right} :
          /\ g.surface[border].at = x
          /\ border \in Surfaces(g, s[1].cell)
          /\ \A f \in Surfaces(g, s[1].cell) : g.surface[f].at = x => f = border
    <3>1. PICK z, y : z = x - d /\ y = x + d
      OBVIOUS
    <3>2. Inside(g, g.universe[g.root][i], z) /\ y \notin DOMAIN g.truth
      BY <1>7, <1>8, <1>11, <3>1
    <3> QED
      BY <1>4, <1>8, <3>1, <3>2, BorderHit, Z3
  <2>2. Hit(D, border, 1) \in SurfaceHits(g, s, p, d)
    <3>1. (x - p) * d = D
      <4>1. CASE d = 1
        BY <1>3, <4>1
      <4>2. CASE d = -1
        BY <1>3, <4>2
      <4> QED
        BY <4>1, <4>2
    <3>2. ToSurface(g, s, p, d, 1, border) = D
      BY <1>7, <2>1, <3>1 DEF ToSurface
    <3>3. D > 0
      BY <1>2
    <3>4. Hit(ToSurface(g, s, p, d, 1, border), border, 1) \in SurfaceHits(g, s, p, d)
      BY <1>1, <1>6, <1>7, <2>1, <3>2, <3>3, SurfaceHitFacts
    <3> QED
      BY <3>2, <3>4
  <2>3. Hit(D, border, 1).distance = hit.distance /\ Hit(D, border, 1).depth = 1
    BY <1>2 DEF Hit
  <2>4. hit \in SurfaceHits(g, s, p, d) /\ hit.depth <= 1
    <3>1. \A k \in SurfaceHits(g, s, p, d) :
            k.distance = hit.distance => hit \in SurfaceHits(g, s, p, d) /\ hit.depth <= k.depth
      BY TraceStepIs
    <3> QED
      BY <2>2, <2>3, <3>1
  <2>5. hit.surface # None /\ hit.depth \in 1..Len(s)
    BY <1>1, <1>6, <2>4, SurfaceHitFacts
  <2>6. hit.depth = 1
    BY <2>4, <2>5
  <2>7. hit.surface = border
    BY <1>9, <2>1, <2>5, <2>6
  <2>8. border \in DOMAIN g.surface
    BY <1>9, <2>5, <2>7
  <2> QED
    BY <1>1, <2>5, <2>7, <2>8 DEF Boundary, Bounded
<1>12. ASSUME Boundary(g, hit) # "transmission"
       PROVE  \E border \in {g.left, g.right} :
                g.surface[border].at = x /\ g.surface[border].bc = Boundary(g, hit)
  <2>1. hit.surface # None /\ Boundary(g, hit) = g.surface[hit.surface].bc
    BY <1>12 DEF Boundary
  <2>2. hit.surface \in {g.left, g.right}
    BY <1>1, <1>9, <1>12, <2>1 DEF Bounded
  <2>3. hit.depth = 1
    <3> SUFFICES ASSUME hit.depth # 1
                 PROVE  FALSE
      OBVIOUS
    <3>1. hit.depth \in 2..Len(s)
      <4>1. hit.depth \in 1..Len(s)
        BY <1>9, <2>1
      <4>2. Len(s) \in Nat
        BY <1>6 DEF OnStack
      <4> QED
        BY <4>1, <4>2
    <3>2. PICK u \in DOMAIN g.universe \ {g.root} :
            \E j \in DOMAIN g.universe[u] : s[hit.depth].cell = g.universe[u][j]
      BY <1>7, <3>1
    <3>3. Surfaces(g, s[hit.depth].cell) \cap {g.left, g.right} = {}
      <4>1. \A j \in DOMAIN g.universe[u] :
              Surfaces(g, g.universe[u][j]) \cap {g.left, g.right} = {}
        BY <1>1, <3>2 DEF Bounded
      <4> QED
        BY <3>2, <4>1
    <3>4. hit.surface \in Surfaces(g, s[hit.depth].cell)
      BY <1>9, <2>1
    <3> QED
      BY <2>2, <3>3, <3>4
  <2> QED
    BY <1>9, <2>1, <2>2, <2>3
<1> QED
  BY <1>4, <1>5, <1>10, <1>11, <1>12

-----------------------------------------------------------------------------
(***************************************************************************)
(* Neutrons: where a step can leave them.                                  *)
(***************************************************************************)
Stacks(g) == {FindCell(g, x) : x \in DOMAIN g.truth}

Neutrons(g) ==
  [pos : Int, dir : {-1, 1}, stack : Stacks(g),
   status : {"alive", "absorbed", "leaked", "over"}, voids : Nat, exit : Int]

Placed(g) == {p \in Neutrons(g) : p.status # "leaked" => Located(g, p.stack, p.pos, p.dir)}

\* Those between the surfaces.
Off(g) == {p \in Placed(g) : p.status = "alive" /\ ~ Even(p.pos)}

LEMMA LocatedOff ==
  ASSUME NEW g, NEW x \in DOMAIN g.truth, ~ Even(x), NEW d
  PROVE  Located(g, FindCell(g, x), x, d) /\ FindCell(g, x) \in Stacks(g)
BY DEF Located, Base, Stacks

LEMMA NeutronOff ==
  ASSUME NEW g, WellFormed(g), NEW x \in DOMAIN g.truth, NEW d \in {-1, 1}
  PROVE  Neutron(x, d, FindCell(g, x)) \in Off(g)
<1>1. x \in Int /\ ~ Even(x)
  BY WellFormedFacts
<1>2. Located(g, FindCell(g, x), x, d) /\ FindCell(g, x) \in Stacks(g)
  BY <1>1, LocatedOff
<1> QED
  BY <1>1, <1>2 DEF Neutron, Off, Placed, Neutrons

LEMMA LeakedPlaced ==
  ASSUME NEW g, NEW p \in Neutrons(g), NEW x \in Int, NEW q, q = Leaked(p, x)
  PROVE  q \in Placed(g) /\ q.status = "leaked" /\ q.exit = x /\ q.voids = p.voids
BY DEF Leaked, Placed, Neutrons

LEMMA MovedFacts ==
  ASSUME WellFormed(Scene), NEW p \in Neutrons(Scene), p.status = "alive",
         NEW x \in Int, ~ Even(x), NEW q, q = Moved(p, x)
  PROVE  /\ q \in Placed(Scene) /\ q.voids = p.voids
         /\ x \in DOMAIN Scene.truth =>
              /\ q \in Off(Scene) /\ q.pos = x /\ q.dir = p.dir /\ q.stack = FindCell(Scene, x)
         /\ x \notin DOMAIN Scene.truth => q.status = "leaked" /\ q.exit = x
<1>1. CASE x \in DOMAIN Scene.truth
  <2>1. FindCell(Scene, x) # <<>>
    BY <1>1, WellFormedFacts
  <2>2. q = [p EXCEPT !.pos = x, !.stack = FindCell(Scene, x)]
    BY <2>1 DEF Moved
  <2>3. /\ Located(Scene, FindCell(Scene, x), x, p.dir)
        /\ FindCell(Scene, x) \in Stacks(Scene)
    BY <1>1, LocatedOff
  <2>4. /\ q \in Neutrons(Scene) /\ q.pos = x /\ q.dir = p.dir /\ q.stack = FindCell(Scene, x)
        /\ q.status = "alive" /\ q.voids = p.voids
    BY <2>2, <2>3 DEF Neutrons
  <2>5. q \in Off(Scene)
    BY <2>3, <2>4 DEF Off, Placed
  <2> QED
    BY <1>1, <2>4, <2>5 DEF Off
<1>2. CASE x \notin DOMAIN Scene.truth
  <2>1. FindCell(Scene, x) = <<>>
    BY <1>2, FoundInside
  <2>2. q = Leaked(p, x)
    BY <2>1 DEF Moved
  <2> QED
    BY <1>2, <2>2, LeakedPlaced
<1> QED
  BY <1>1, <1>2

\* A neutron is at a surface x when it crosses it: it leaks there through a border that is
\* vacuum, is turned back on a border that is a mirror, or enters the next cell.
LEMMA CrossedFacts ==
  ASSUME WellFormed(Scene), NEW p \in Placed(Scene), p.status = "alive",
         NEW hit, hit = Ahead(p), NEW q, q = Crossed(p, hit),
         NEW x, x = Along(p.pos, p.dir, hit.distance)
  PROVE  /\ hit # NoHit /\ x \in Int /\ Even(x)
         /\ x - p.dir \in DOMAIN Scene.truth /\ FindCell(Scene, x - p.dir) = p.stack
         /\ q \in Placed(Scene) /\ q.voids = p.voids
         /\ \/ /\ Boundary(Scene, hit) = "vacuum"
               /\ q.status = "leaked" /\ q.exit = x
               /\ \E border \in {Scene.left, Scene.right} :
                    Scene.surface[border].at = x /\ Scene.surface[border].bc = "vacuum"
            \/ /\ Boundary(Scene, hit) = "reflective"
               /\ q.status = "alive" /\ q.pos = x /\ q.dir = - p.dir
               /\ \E border \in {Scene.left, Scene.right} :
                    Scene.surface[border].bc = "reflective"
            \/ /\ Boundary(Scene, hit) = "transmission"
               /\ q \in Off(Scene) /\ q.pos = x + p.dir
<1>1. /\ p.pos \in Int /\ p.dir \in {-1, 1} /\ Located(Scene, p.stack, p.pos, p.dir)
      /\ p \in Neutrons(Scene) /\ hit = TraceStep(Scene, p.stack, p.pos, p.dir)
  BY DEF Placed, Neutrons, Ahead
<1>2. /\ x \in Int /\ Even(x)
      /\ x - p.dir \in DOMAIN Scene.truth /\ FindCell(Scene, x - p.dir) = p.stack
      /\ Boundary(Scene, hit) \in {"transmission", "reflective", "vacuum"}
      /\ Boundary(Scene, hit) = "transmission" => x + p.dir \in DOMAIN Scene.truth
      /\ Boundary(Scene, hit) # "transmission" =>
           \E border \in {Scene.left, Scene.right} :
             Scene.surface[border].at = x /\ Scene.surface[border].bc = Boundary(Scene, hit)
  BY <1>1, CrossFacts
<1>3. hit # NoHit
  BY <1>1, TraceStepIs
<1>4. x = p.pos + p.dir * hit.distance
  BY DEF Along
<1>5. CASE Boundary(Scene, hit) = "vacuum"
  <2>1. q = Leaked(p, x)
    BY <1>3, <1>4, <1>5 DEF Crossed
  <2>2. q \in Placed(Scene) /\ q.status = "leaked" /\ q.exit = x /\ q.voids = p.voids
    BY <1>1, <1>2, <2>1, LeakedPlaced
  <2> QED
    BY <1>2, <1>3, <1>5, <2>2
<1>6. CASE Boundary(Scene, hit) = "reflective"
  <2>1. q = [p EXCEPT !.pos = x, !.dir = - p.dir]
    BY <1>3, <1>4, <1>6 DEF Crossed
  <2>2. /\ q \in Neutrons(Scene) /\ q.status = "alive" /\ q.pos = x /\ q.dir = - p.dir
        /\ q.stack = p.stack /\ q.voids = p.voids
    <3>1. - p.dir \in {-1, 1}
      BY <1>1
    <3> QED
      BY <1>1, <1>2, <2>1, <3>1 DEF Neutrons
  <2>3. Located(Scene, p.stack, x, - p.dir)
    <3>1. x + (- p.dir) = x - p.dir
      BY <1>1, <1>2
    <3> QED
      BY <1>2, <3>1 DEF Located, Base
  <2>4. q \in Placed(Scene)
    BY <2>2, <2>3 DEF Placed
  <2> QED
    BY <1>2, <1>3, <1>6, <2>2, <2>4
<1>7. CASE Boundary(Scene, hit) = "transmission"
  <2>1. q = Moved(p, x + p.dir)
    BY <1>3, <1>4, <1>7 DEF Crossed
  <2>2. PICK y \in Int : y = x + p.dir /\ ~ Even(y)
    BY <1>1, <1>2 DEF Even
  <2>3. q = Moved(p, y) /\ y \in DOMAIN Scene.truth
    BY <1>2, <1>7, <2>1, <2>2
  <2>4. q \in Placed(Scene) /\ q.voids = p.voids /\ q \in Off(Scene) /\ q.pos = y
    BY <1>1, <2>2, <2>3, MovedFacts
  <2> QED
    BY <1>2, <1>3, <1>7, <2>2, <2>4
<1> QED
  BY <1>2, <1>5, <1>6, <1>7

\* A flight that ends before the first hit keeps the stack, and so does every position
\* on the way.
LEMMA FlightFacts ==
  ASSUME WellFormed(Scene), NEW p \in Placed(Scene), p.status = "alive",
         NEW t \in Nat, t < Ahead(p).distance,
         NEW z, z = Along(p.pos, p.dir, t), ~ Even(z)
  PROVE  z \in DOMAIN Scene.truth /\ FindCell(Scene, z) = p.stack
<1>1. /\ p.pos \in Int /\ p.dir \in {-1, 1} /\ Located(Scene, p.stack, p.pos, p.dir)
      /\ Ahead(p) = TraceStep(Scene, p.stack, p.pos, p.dir)
  BY DEF Placed, Neutrons, Ahead
<1>2. /\ Ahead(p).distance \in Nat
      /\ \A k \in Hits(Scene, p.stack, p.pos, p.dir) : Ahead(p).distance <= k.distance
  BY <1>1, TraceStepIs
<1>3. \A k \in Hits(Scene, p.stack, p.pos, p.dir) : k.distance \in Nat
  <2>1. PICK e \in {0, 1} : OnStack(Scene, p.stack, p.pos, p.dir, e)
    BY <1>1, LocatedFacts
  <2> QED
    BY <1>1, <2>1, HitFacts DEF WellFormed
<1>4. Clear(Scene, p.stack, p.pos, p.dir, t)
  BY <1>2, <1>3 DEF Clear
<1> QED
  BY <1>1, <1>4, SameStack

LEMMA FlownFacts ==
  ASSUME WellFormed(Scene), NEW p \in Placed(Scene), p.status = "alive",
         NEW t \in Nat, t < Ahead(p).distance, ~ Even(p.pos + t * p.dir),
         NEW voids \in Nat, NEW q, q = [p EXCEPT !.pos = @ + t * p.dir, !.voids = voids]
  PROVE  q \in Off(Scene) /\ q.stack = p.stack /\ q.voids = voids
<1>1. p \in Neutrons(Scene) /\ p.pos \in Int /\ p.dir \in {-1, 1}
  BY DEF Placed, Neutrons
<1>2. PICK z : z = Along(p.pos, p.dir, t)
  OBVIOUS
<1>3. z = p.pos + t * p.dir
  BY <1>1, <1>2 DEF Along
<1>4. z \in Int /\ z \in DOMAIN Scene.truth /\ FindCell(Scene, z) = p.stack
  <2>1. ~ Even(z)
    BY <1>3
  <2>2. z \in DOMAIN Scene.truth /\ FindCell(Scene, z) = p.stack
    BY <1>2, <2>1, FlightFacts
  <2> QED
    BY <2>2, WellFormedFacts
<1>5. q = [p EXCEPT !.pos = z, !.voids = voids]
  BY <1>3
<1>6. /\ q \in Neutrons(Scene) /\ q.pos = z /\ q.stack = p.stack /\ q.dir = p.dir
      /\ q.status = "alive" /\ q.voids = voids
  BY <1>1, <1>4, <1>5 DEF Neutrons
<1>7. Located(Scene, p.stack, z, p.dir)
  BY <1>3, <1>4, LocatedOff
<1> QED
  BY <1>3, <1>6, <1>7 DEF Off, Placed

-----------------------------------------------------------------------------
(***************************************************************************)
(* The inductive invariant, and what each step does with the neutron.      *)
(***************************************************************************)
\* Where there is a neutron it is between surfaces, or on the mirror that has just turned
\* it, and its stack is the one found there; so are the neutrons that wait and the rays
\* at rest.
Settled ==
  /\ mode \in Modes
  /\ particle \in Placed(Scene)
  /\ pending \in Seq(Off(Scene))
  /\ mode.walk \in Rays => pending = <<>> /\ (particle.status = "leaked" \/ ~ Even(particle.pos))
  /\ ray \in 1..RaysPerBatch
  /\ Immortal => particle.status # "leaked" /\ states \in [1..RaysPerBatch -> Off(Scene)]

\* A neutron that has leaked did so as MirrorsKeep says.
Escaped(g, p) ==
  \/ p.voids > MaxVoid
  \/ p.exit <= g.surface[g.left].at /\ g.surface[g.left].bc # "reflective"
  \/ p.exit >= g.surface[g.right].at /\ g.surface[g.right].bc # "reflective"

LEMMA SettledScene ==
  ASSUME Settled
  PROVE  /\ WellFormed(Scene)
         /\ particle \in Placed(Scene) /\ particle \in Neutrons(Scene)
         /\ particle.pos \in Int /\ particle.dir \in {-1, 1} /\ particle.voids \in Nat
         /\ Alive => particle.status = "alive"
BY SceneAssumption DEF Settled, Placed, Neutrons, Alive, Scene

LEMMA CrossedEscapes ==
  ASSUME WellFormed(Scene), NEW p \in Placed(Scene), p.status = "alive",
         NEW q, q = Crossed(p, Ahead(p)), q.status = "leaked"
  PROVE  Escaped(Scene, q)
<1>1. PICK hit, x : hit = Ahead(p) /\ x = Along(p.pos, p.dir, hit.distance)
  OBVIOUS
<1>2. q = Crossed(p, hit)
  BY <1>1
<1>3. /\ x \in Int /\ q.exit = x
      /\ \E border \in {Scene.left, Scene.right} :
           Scene.surface[border].at = x /\ Scene.surface[border].bc = "vacuum"
  BY <1>1, <1>2, CrossedFacts DEF Off
<1> QED
  BY <1>3 DEF Escaped

\* In a flat geometry the cell is all of the stack.
LEMMA FlatStack ==
  ASSUME NEW g, WellFormed(g), NEW x \in DOMAIN g.truth,
         \A i \in DOMAIN g.universe[g.root] :
           g.cell[g.universe[g.root][i]].fill \in {"material", "void"}
  PROVE  FindCell(g, x) = <<Coord(Last(FindCell(g, x)).cell, Root(g))>>
<1> DEFINE s == FindCell(g, x)
<1>1. Linked(g) /\ x \in Int /\ ~ Even(x) /\ s # <<>>
  BY WellFormedFacts
<1>2. PICK N \in 1..MaxDepth :
        /\ Ends(g, x) = {N}
        /\ s = [n \in 1..N |-> Coord(Found(g, x, n).cell, Found(g, x, n).frame)]
        /\ \A n \in 1..N : LevelOK(g, x, n, Found(g, x, n))
  BY <1>1, StackFacts
<1>3. 1 \in 1..N /\ 1 \in 1..MaxDepth
  BY RayAssumption
<1>4. LevelOK(g, x, 1, Found(g, x, 1))
  BY <1>2, <1>3
<1>5. Found(g, x, 1).frame = Root(g) /\ Levels(g, x)[1] = {Found(g, x, 1)}
  BY <1>4 DEF LevelOK
<1>6. g.cell[Found(g, x, 1).cell].fill \in {"material", "void"}
  <2>1. Root(g).universe = g.root
    BY <1>1, RootOK
  <2>2. \E i \in DOMAIN g.universe[g.root] : Found(g, x, 1).cell = g.universe[g.root][i]
    BY <1>4, <1>5, <2>1 DEF LevelOK
  <2> QED
    BY <2>2
<1>7. N = 1
  <2>1. 1 \in Ends(g, x)
    BY <1>3, <1>5, <1>6 DEF Ends
  <2> QED
    BY <1>2, <2>1
<1>8. s = [n \in 1..1 |-> Coord(Found(g, x, 1).cell, Root(g))]
  BY <1>2, <1>5, <1>7
<1> HIDE DEF s
<1>9. s = <<Coord(Found(g, x, 1).cell, Root(g))>>
  BY <1>8
<1>10. Last(s).cell = Found(g, x, 1).cell
  BY <1>9 DEF Last, Coord
<1> QED
  BY <1>9, <1>10 DEF s

LEMMA StreamStep ==
  ASSUME Settled, Stream
  PROVE  /\ particle' \in Placed(Scene)
         /\ particle'.status = "leaked" => Escaped(Scene, particle')
<1>1. PICK p : p = [particle EXCEPT !.voids = @ + 1]
  OBVIOUS
<1>2. WellFormed(Scene) /\ particle \in Placed(Scene) /\ particle.status = "alive"
  BY SettledScene DEF Stream
<1>3. /\ p \in Neutrons(Scene) /\ p.status = "alive" /\ p.pos = particle.pos
      /\ p.dir = particle.dir /\ p.stack = particle.stack /\ p.pos \in Int /\ p.voids \in Nat
  BY <1>1, <1>2 DEF Placed, Neutrons
<1>4. p \in Placed(Scene)
  BY <1>2, <1>3 DEF Placed
<1>5. particle' = IF p.voids > MaxVoid THEN Leaked(p, p.pos) ELSE Crossed(p, Ahead(p))
  BY <1>1 DEF Stream
<1>6. CASE p.voids > MaxVoid
  BY <1>3, <1>5, <1>6, LeakedPlaced DEF Escaped
<1>7. CASE ~ (p.voids > MaxVoid)
  BY <1>2, <1>3, <1>4, <1>5, <1>7, CrossedFacts, CrossedEscapes
<1> QED
  BY <1>6, <1>7

LEMMA CrossStep ==
  ASSUME Settled, Cross
  PROVE  /\ particle' \in Placed(Scene)
         /\ particle'.status = "leaked" => Escaped(Scene, particle')
<1>1. PICK p : p = [particle EXCEPT !.voids = 0]
  OBVIOUS
<1>2. WellFormed(Scene) /\ particle \in Placed(Scene) /\ particle.status = "alive"
  BY SettledScene DEF Cross
<1>3. /\ p \in Neutrons(Scene) /\ p.status = "alive" /\ p.pos = particle.pos
      /\ p.dir = particle.dir /\ p.stack = particle.stack
  BY <1>1, <1>2 DEF Placed, Neutrons
<1>4. p \in Placed(Scene)
  BY <1>2, <1>3 DEF Placed
<1>5. particle' = Crossed(p, Ahead(p))
  <2>1. Ahead(p) = Ahead(particle)
    BY <1>3 DEF Ahead
  <2> QED
    BY <1>1, <2>1 DEF Cross
<1> QED
  BY <1>2, <1>3, <1>4, <1>5, CrossedFacts, CrossedEscapes

LEMMA CollidedStep ==
  ASSUME Settled, EmitsFlat(mode), NEW p \in Off(Scene), Collided(p)
  PROVE  /\ particle' \in Placed(Scene) /\ particle'.status # "leaked"
         /\ particle'.pos = p.pos /\ pending' \in Seq(Off(Scene))
<1>1. /\ p \in Neutrons(Scene) /\ p.status = "alive" /\ ~ Even(p.pos)
      /\ Located(Scene, p.stack, p.pos, p.dir) /\ p.pos \in Int
  BY DEF Off, Placed, Neutrons
<1>2. p.pos \in DOMAIN Scene.truth /\ p.stack = FindCell(Scene, p.pos)
  BY <1>1 DEF Located, Base
<1>3. pending \in Seq(Off(Scene)) /\ WellFormed(Scene)
  BY SettledScene DEF Settled
<1>4. ASSUME NEW dir \in {-1, 1}
      PROVE  [p EXCEPT !.dir = dir] \in Off(Scene)
  <2>1. PICK q : q = [p EXCEPT !.dir = dir]
    OBVIOUS
  <2>2. /\ q \in Neutrons(Scene) /\ q.pos = p.pos /\ q.stack = p.stack /\ q.status = "alive"
    BY <1>1, <2>1 DEF Neutrons
  <2>3. Located(Scene, q.stack, q.pos, q.dir)
    BY <1>1, <1>2, <2>2 DEF Located, Base
  <2> QED
    BY <1>1, <2>1, <2>2, <2>3 DEF Off, Placed
<1>5. CASE /\ \E dir \in {-1, 1} : particle' = [p EXCEPT !.dir = dir]
           /\ UNCHANGED pending
  BY <1>1, <1>3, <1>4, <1>5 DEF Off, Neutrons
<1>6. CASE /\ particle' = [p EXCEPT !.status = "absorbed"]
           /\ UNCHANGED pending
  <2>1. /\ particle' \in Neutrons(Scene) /\ particle'.status = "absorbed"
        /\ particle'.pos = p.pos /\ particle'.stack = p.stack /\ particle'.dir = p.dir
    BY <1>1, <1>6 DEF Neutrons
  <2> QED
    BY <1>1, <1>3, <1>6, <2>1 DEF Placed
<1>7. CASE /\ mode.multiplies /\ Len(pending) < MaxPending
           /\ \E dir \in {-1, 1} : particle' = [p EXCEPT !.dir = dir]
           /\ \E dir \in {-1, 1} :
                pending' = Append(pending, NewNeutron(p.pos, dir, Last(p.stack).cell))
  <2>1. particle' \in Off(Scene) /\ particle'.pos = p.pos
    BY <1>1, <1>4, <1>7 DEF Neutrons
  <2>2. PICK dir \in {-1, 1} :
          pending' = Append(pending, NewNeutron(p.pos, dir, Last(p.stack).cell))
    BY <1>7
  <2>3. FindCell(Scene, p.pos) = <<Coord(Last(p.stack).cell, Root(Scene))>>
    BY <1>2, <1>3, <1>7, FlatStack DEF EmitsFlat, Scene
  <2>4. NewNeutron(p.pos, dir, Last(p.stack).cell) \in Off(Scene)
    BY <1>2, <1>3, <2>3, NeutronOff DEF NewNeutron
  <2>5. pending' \in Seq(Off(Scene))
    BY <1>3, <2>2, <2>4
  <2> QED
    BY <2>1, <2>5 DEF Off
<1> QED
  BY <1>5, <1>6, <1>7 DEF Collided

LEMMA CollideStep ==
  ASSUME Settled, EmitsFlat(mode), Collide
  PROVE  /\ particle' \in Placed(Scene) /\ particle'.status # "leaked"
         /\ pending' \in Seq(Off(Scene))
<1>1. WellFormed(Scene) /\ particle \in Placed(Scene) /\ particle.status = "alive"
  BY SettledScene DEF Collide
<1>2. PICK d \in Flights(particle) :
        /\ Ahead(particle) = NoHit \/ d < Ahead(particle).distance
        /\ Collided([particle EXCEPT !.pos = @ + d * particle.dir, !.voids = 0])
  BY DEF Collide
<1>3. d \in Nat /\ ~ Even(particle.pos + d * particle.dir)
  BY DEF Flights
<1>4. Ahead(particle) # NoHit
  BY <1>1, CrossedFacts
<1>5. PICK p : p = [particle EXCEPT !.pos = @ + d * particle.dir, !.voids = 0]
  OBVIOUS
<1>6. p \in Off(Scene)
  BY <1>1, <1>2, <1>3, <1>4, <1>5, FlownFacts
<1> QED
  BY <1>2, <1>5, <1>6, CollidedStep

\* A flight of delta tracking: a border may be met first, and a flight that ends beyond
\* one that is no mirror leaks there.
LEMMA DeltaFlight ==
  ASSUME Settled, mode.walk = "delta", Alive,
         NEW t \in Nat, NEW z \in Int, z = particle.pos + t * particle.dir, ~ Even(z),
         NEW q, q = Flown(particle, t)
  PROVE  /\ q \in Placed(Scene)
         /\ q.status = "leaked" /\ FliesToVacuum(mode) => Escaped(Scene, q)
         /\ q.status \in {"alive", "leaked"}
<1>1. WellFormed(Scene) /\ particle \in Placed(Scene) /\ particle.status = "alive"
  BY SettledScene
<1>2. particle \in Neutrons(Scene)
  BY SettledScene
<1>3. CASE /\ Ahead(particle) # NoHit /\ Ahead(particle).distance < t
           /\ Boundary(Scene, Ahead(particle)) # "transmission"
  <2>1. q = Crossed(particle, Ahead(particle))
    BY <1>3 DEF Flown
  <2>2. q \in Placed(Scene) /\ q.status \in {"alive", "leaked"}
    BY <1>1, <2>1, CrossedFacts DEF Off
  <2>3. q.status = "leaked" => Escaped(Scene, q)
    BY <1>1, <2>1, CrossedEscapes
  <2> QED
    BY <2>2, <2>3
<1>4. CASE ~ (/\ Ahead(particle) # NoHit /\ Ahead(particle).distance < t
              /\ Boundary(Scene, Ahead(particle)) # "transmission")
  <2>1. q = Moved(particle, z)
    BY <1>4 DEF Flown
  <2>2. /\ q \in Placed(Scene)
        /\ z \in DOMAIN Scene.truth => q \in Off(Scene)
        /\ z \notin DOMAIN Scene.truth => q.status = "leaked" /\ q.exit = z
    BY <1>1, <1>2, <2>1, MovedFacts
  <2>3. CASE z \in DOMAIN Scene.truth
    BY <2>2, <2>3 DEF Off
  <2>4. CASE z \notin DOMAIN Scene.truth
    <3>1. PICK left \in Int, right \in Int :
            left = Scene.surface[Scene.left].at /\ right = Scene.surface[Scene.right].at
      BY <1>1 DEF WellFormed, Linked
    <3>2. z < left \/ z > right
      BY <1>1, <2>4, <3>1 DEF WellFormed, Complete
    <3>3. FliesToVacuum(mode) =>
            /\ Scene.surface[Scene.left].bc # "reflective"
            /\ Scene.surface[Scene.right].bc # "reflective"
      BY DEF FliesToVacuum, Scene
    <3>4. FliesToVacuum(mode) => Escaped(Scene, q)
      BY <2>2, <2>4, <3>1, <3>2, <3>3 DEF Escaped
    <3> QED
      BY <2>2, <2>4, <3>4
  <2> QED
    BY <2>3, <2>4
<1> QED
  BY <1>3, <1>4

LEMMA DeltaFacts ==
  ASSUME Settled, EmitsFlat(mode), DeltaStep
  PROVE  /\ particle' \in Placed(Scene) /\ pending' \in Seq(Off(Scene))
         /\ particle'.status = "leaked" /\ FliesToVacuum(mode) => Escaped(Scene, particle')
<1>1. WellFormed(Scene) /\ particle.pos \in Int /\ particle.dir \in {-1, 1} /\ mode.walk = "delta"
      /\ pending \in Seq(Off(Scene)) /\ Alive
  BY SettledScene DEF DeltaStep, Settled
<1>2. PICK d \in Flights(particle) :
        LET p == Flown(particle, d) IN
          \/ /\ p.status = "leaked" \/ Even(p.pos)
             /\ particle' = p /\ UNCHANGED pending
          \/ /\ p.status = "alive" /\ ~ Even(p.pos) /\ Material(Scene, p.stack) = None
             /\ particle' = Crossed(p, Ahead(p)) /\ UNCHANGED pending
          \/ /\ p.status = "alive" /\ ~ Even(p.pos) /\ Material(Scene, p.stack) # None
             /\ \/ particle' = p /\ UNCHANGED pending
                \/ Collided(p)
  BY DEF DeltaStep
<1>3. d \in Nat /\ ~ Even(particle.pos + d * particle.dir)
  BY DEF Flights
<1>4. PICK p : p = Flown(particle, d)
  OBVIOUS
<1>5. PICK z \in Int : z = particle.pos + d * particle.dir
  BY <1>1, <1>3
<1>6. /\ p \in Placed(Scene) /\ p.status \in {"alive", "leaked"}
      /\ p.status = "leaked" /\ FliesToVacuum(mode) => Escaped(Scene, p)
  BY <1>1, <1>3, <1>4, <1>5, DeltaFlight
<1>7. CASE particle' = p /\ UNCHANGED pending
  BY <1>1, <1>6, <1>7
<1>8. CASE p.status = "alive" /\ particle' = Crossed(p, Ahead(p)) /\ UNCHANGED pending
  BY <1>1, <1>6, <1>8, CrossedFacts, CrossedEscapes
<1>9. CASE p.status = "alive" /\ ~ Even(p.pos) /\ Collided(p)
  <2>1. p \in Off(Scene)
    BY <1>6, <1>9 DEF Off
  <2> QED
    BY <1>9, <2>1, CollidedStep
<1> QED
  BY <1>2, <1>4, <1>7, <1>8, <1>9

LEMMA PopFacts ==
  ASSUME Settled, Pop
  PROVE  /\ particle' \in Off(Scene) /\ pending' \in Seq(Off(Scene))
         /\ mode.walk \notin Rays
<1>1. pending \in Seq(Off(Scene)) /\ pending # <<>>
  BY DEF Settled, Pop
<1>2. particle' = pending[Len(pending)] /\ pending' = SubSeq(pending, 1, Len(pending) - 1)
  BY DEF Pop, Last, Front
<1>3. particle' \in Off(Scene)
  BY <1>1, <1>2
<1>4. pending' \in Seq(Off(Scene))
  BY <1>1, <1>2
<1>5. mode.walk \notin Rays
  BY <1>1 DEF Settled
<1> QED
  BY <1>3, <1>4, <1>5

-----------------------------------------------------------------------------
(***************************************************************************)
(* Rays: what each step does with them.                                    *)
(***************************************************************************)
LEMMA BouncedFacts ==
  ASSUME WellFormed(Scene), NEW p \in Placed(Scene), p.status = "alive",
         NEW q, q = Bounced(p, Ahead(p))
  PROVE  /\ q \in Placed(Scene)
         /\ \/ q \in Off(Scene)
            \/ q.status = "leaked" /\ ~ Immortal /\ Escaped(Scene, q)
<1>1. PICK hit, x : hit = Ahead(p) /\ x = Along(p.pos, p.dir, hit.distance)
  OBVIOUS
<1>2. p \in Neutrons(Scene) /\ p.pos \in Int /\ p.dir \in {-1, 1}
  BY DEF Placed, Neutrons
<1>3. PICK c : c = Crossed(p, hit)
  OBVIOUS
<1>4. /\ x \in Int /\ Even(x) /\ x - p.dir \in DOMAIN Scene.truth
      /\ c \in Placed(Scene)
      /\ \/ Boundary(Scene, hit) = "vacuum" /\ c.status = "leaked"
         \/ Boundary(Scene, hit) = "reflective"
         \/ Boundary(Scene, hit) = "transmission" /\ c \in Off(Scene)
  BY <1>1, <1>3, CrossedFacts
<1>5. x = p.pos + p.dir * hit.distance
  BY <1>1 DEF Along
<1>6. CASE Boundary(Scene, hit) = "reflective" \/ (Boundary(Scene, hit) = "vacuum" /\ Immortal)
  <2>1. q = Turned(p, x)
    BY <1>1, <1>5, <1>6 DEF Bounced
  <2>2. PICK b : b = [p EXCEPT !.dir = - p.dir]
    OBVIOUS
  <2>3. b \in Neutrons(Scene) /\ b.status = "alive"
    <3>1. - p.dir \in {-1, 1}
      BY <1>2
    <3> QED
      BY <1>2, <2>2, <3>1 DEF Neutrons
  <2>4. PICK y \in DOMAIN Scene.truth : y = x - p.dir /\ y \in Int /\ ~ Even(y)
    BY <1>4, WellFormedFacts
  <2>5. q = Moved(b, y)
    BY <2>1, <2>2, <2>4 DEF Turned
  <2> QED
    BY <2>3, <2>4, <2>5, MovedFacts DEF Off
<1>7. CASE ~ (Boundary(Scene, hit) = "reflective" \/ (Boundary(Scene, hit) = "vacuum" /\ Immortal))
  <2>1. q = c
    BY <1>1, <1>3, <1>5, <1>7 DEF Bounced
  <2>2. q.status = "leaked" => Escaped(Scene, q)
    BY <1>1, <1>3, <2>1, CrossedEscapes
  <2> QED
    BY <1>4, <1>7, <2>1, <2>2
<1> QED
  BY <1>6, <1>7

LEMMA ToBoundaryStep ==
  ASSUME Settled, ToBoundary
  PROVE  /\ particle' \in Placed(Scene)
         /\ \/ particle' \in Off(Scene)
            \/ particle'.status = "leaked" /\ ~ Immortal /\ Escaped(Scene, particle')
<1>1. WellFormed(Scene) /\ particle \in Placed(Scene) /\ particle.status = "alive"
  BY SettledScene DEF ToBoundary, Flying
<1>2. particle' = Bounced(particle, Ahead(particle))
  BY DEF ToBoundary
<1> QED
  BY <1>1, <1>2, BouncedFacts

LEMMA ToPhaseEndStep ==
  ASSUME Settled, ToPhaseEnd
  PROVE  /\ particle' \in Placed(Scene) /\ particle'.status # "leaked"
         /\ ~ Even(particle'.pos)
<1>1. WellFormed(Scene) /\ particle \in Placed(Scene) /\ particle.status = "alive"
  BY SettledScene DEF ToPhaseEnd, Flying
<1>2. PICK d \in Flights(particle) :
        /\ Ahead(particle) = NoHit \/ d < Ahead(particle).distance
        /\ particle' = LET moved == [particle EXCEPT !.pos = particle.pos + d * particle.dir] IN
             IF active THEN Finished(moved) ELSE moved
  BY DEF ToPhaseEnd
<1>3. d \in Nat /\ ~ Even(particle.pos + d * particle.dir)
  BY DEF Flights
<1>4. Ahead(particle) # NoHit
  BY <1>1, CrossedFacts
<1>5. PICK voids \in Nat : voids = particle.voids
  BY SettledScene
<1>6. PICK p : p = [particle EXCEPT !.pos = @ + d * particle.dir, !.voids = voids]
  OBVIOUS
<1>7. p = [particle EXCEPT !.pos = particle.pos + d * particle.dir]
  BY <1>1, <1>5, <1>6 DEF Placed, Neutrons
<1>8. p \in Off(Scene)
  BY <1>1, <1>2, <1>3, <1>4, <1>6, FlownFacts
<1>9. p \in Neutrons(Scene) /\ p.status = "alive" /\ ~ Even(p.pos)
      /\ Located(Scene, p.stack, p.pos, p.dir)
  BY <1>8 DEF Off, Placed
<1>10. particle' = p \/ particle' = [p EXCEPT !.status = "over"]
  BY <1>2, <1>7 DEF Finished
<1>11. CASE particle' = p
  BY <1>8, <1>9, <1>11 DEF Off
<1>12. CASE particle' = [p EXCEPT !.status = "over"]
  <2>1. /\ particle' \in Neutrons(Scene) /\ particle'.status = "over"
        /\ particle'.pos = p.pos /\ particle'.stack = p.stack /\ particle'.dir = p.dir
    BY <1>9, <1>12 DEF Neutrons
  <2> QED
    BY <1>9, <2>1 DEF Placed
<1> QED
  BY <1>10, <1>11, <1>12

LEMMA BirthsOff ==
  ASSUME WellFormed(Scene)
  PROVE  Births \subseteq Off(Scene)
BY NeutronOff DEF Births, Positions

LEMMA NextRayStep ==
  ASSUME Settled, NextRay
  PROVE  /\ particle' \in Off(Scene)
         /\ ray' \in 1..RaysPerBatch
         /\ Immortal => states' \in [1..RaysPerBatch -> Off(Scene)]
<1>1. WellFormed(Scene) /\ particle \in Placed(Scene) /\ mode.walk \in Rays
  BY SettledScene DEF NextRay
<1>2. ray \in 1..RaysPerBatch /\ RaysPerBatch \in Nat \ {0}
  BY RandomRayAssumption DEF Settled
<1>3. ray' \in 1..RaysPerBatch
  BY <1>2 DEF NextRay
<1>4. CASE ~ Immortal
  <2>1. particle' \in Births
    BY <1>4 DEF NextRay
  <2> QED
    BY <1>1, <1>3, <1>4, <2>1, BirthsOff
<1>5. CASE Immortal
  <2>1. PICK p : p = [particle EXCEPT !.status = "alive"]
    OBVIOUS
  <2>2. /\ particle \in Neutrons(Scene) /\ ~ Even(particle.pos) /\ particle.status # "leaked"
        /\ states \in [1..RaysPerBatch -> Off(Scene)]
    BY <1>1, <1>5 DEF Settled, Placed
  <2>3. Located(Scene, particle.stack, particle.pos, particle.dir)
    BY <1>1, <2>2 DEF Placed
  <2>4. /\ p \in Neutrons(Scene) /\ p.status = "alive"
        /\ p.pos = particle.pos /\ p.stack = particle.stack /\ p.dir = particle.dir
    BY <2>1, <2>2 DEF Neutrons
  <2>5. p \in Off(Scene)
    BY <2>2, <2>3, <2>4 DEF Off, Placed
  <2>6. states' = [states EXCEPT ![ray] = p] /\ particle' = states'[ray']
    BY <1>5, <2>1 DEF NextRay, Rested
  <2>7. states' \in [1..RaysPerBatch -> Off(Scene)]
    BY <1>2, <2>2, <2>5, <2>6
  <2> QED
    BY <1>3, <2>6, <2>7
<1> QED
  BY <1>4, <1>5

-----------------------------------------------------------------------------
(***************************************************************************)
(* The invariant holds initially and every step keeps it.                  *)
(***************************************************************************)
\* Beside Settled: whatever has leaked has escaped.
SettledLeaks == particle.status = "leaked" => Escaped(Scene, particle)

LEMMA SettledInit ==
  ASSUME RayInit
  PROVE  Settled /\ Alive
<1>1. mode \in Modes /\ WellFormed(Scene)
  BY SceneAssumption DEF RayInit, Init, Scene
<1>2. PICK x \in DOMAIN Scene.truth, dir \in {-1, 1} :
        particle = Neutron(x, dir, FindCell(Scene, x))
  BY DEF RayInit, Init, Positions
<1>3. particle \in Off(Scene)
  BY <1>1, <1>2, NeutronOff
<1>4. pending \in Seq(Off(Scene)) /\ pending = <<>>
  BY DEF RayInit, Init
<1>5. ray \in 1..RaysPerBatch
  BY RandomRayAssumption DEF RayInit
<1>6. Immortal => states \in [1..RaysPerBatch -> Off(Scene)]
  BY <1>1, BirthsOff DEF RayInit
<1> QED
  BY <1>1, <1>3, <1>4, <1>5, <1>6 DEF Settled, Off, Alive

LEMMA SettledKept ==
  ASSUME Settled, mode' = mode, particle' \in Placed(Scene), pending' \in Seq(Off(Scene)),
         mode.walk \in Rays =>
           pending' = <<>> /\ (particle'.status = "leaked" \/ ~ Even(particle'.pos)),
         ray' \in 1..RaysPerBatch,
         Immortal =>
           particle'.status # "leaked" /\ states' \in [1..RaysPerBatch -> Off(Scene)]
  PROVE  Settled'
<1>1. Scene' = Scene /\ (Immortal' <=> Immortal)
  BY DEF Scene, Immortal
<1> QED
  BY <1>1 DEF Settled, Rays

LEMMA SettledStep ==
  ASSUME Settled, EmitsFlat(mode), [RayNext]_allVars
  PROVE  /\ Settled' /\ mode' = mode
         /\ FliesToVacuum(mode) /\ SettledLeaks => SettledLeaks'
<1>1. /\ mode \in Modes /\ particle \in Placed(Scene) /\ pending \in Seq(Off(Scene))
      /\ ray \in 1..RaysPerBatch
      /\ mode.walk \in Rays => pending = <<>>
      /\ Immortal => states \in [1..RaysPerBatch -> Off(Scene)]
  BY DEF Settled
<1>2. ASSUME mode.walk \notin Rays, mode' = mode, UNCHANGED rayVars,
             particle' \in Placed(Scene), pending' \in Seq(Off(Scene))
      PROVE  Settled' /\ mode' = mode
  <2>1. ~ Immortal /\ ray' = ray
    BY <1>2 DEF Immortal, Rays, rayVars
  <2> QED
    BY <1>1, <1>2, <2>1, SettledKept
<1>3. ASSUME mode' = mode, particle'.status = "leaked" => Escaped(Scene, particle')
      PROVE  SettledLeaks'
  BY <1>3 DEF SettledLeaks, Scene
<1>4. CASE Stream /\ UNCHANGED rayVars
  <2>1. /\ mode.walk \notin Rays /\ mode' = mode /\ pending' = pending
    BY <1>4 DEF Stream, Rays
  <2> QED
    BY <1>1, <1>2, <1>3, <1>4, <2>1, StreamStep
<1>5. CASE Cross /\ UNCHANGED rayVars
  <2>1. /\ mode.walk \notin Rays /\ mode' = mode /\ pending' = pending
    BY <1>5 DEF Cross, Rays
  <2> QED
    BY <1>1, <1>2, <1>3, <1>5, <2>1, CrossStep
<1>6. CASE Collide /\ UNCHANGED rayVars
  <2>1. /\ mode.walk \notin Rays /\ mode' = mode
    BY <1>6 DEF Collide, Rays
  <2> QED
    BY <1>2, <1>3, <1>6, <2>1, CollideStep
<1>7. CASE DeltaStep /\ UNCHANGED rayVars
  <2>1. /\ mode.walk \notin Rays /\ mode' = mode
    BY <1>7 DEF DeltaStep, Rays
  <2> QED
    BY <1>2, <1>3, <1>7, <2>1, DeltaFacts
<1>8. CASE Pop /\ UNCHANGED rayVars
  <2>1. mode' = mode
    BY <1>8 DEF Pop
  <2>2. particle' \in Off(Scene) /\ pending' \in Seq(Off(Scene)) /\ mode.walk \notin Rays
    BY <1>8, PopFacts
  <2>3. particle' \in Placed(Scene) /\ particle'.status = "alive"
    BY <2>2 DEF Off
  <2> QED
    BY <1>2, <1>3, <1>8, <2>1, <2>2, <2>3
<1>9. CASE ToBoundary
  <2>1. /\ mode' = mode /\ pending' = pending /\ ray' = ray /\ states' = states
        /\ mode.walk \in Rays
    BY <1>9 DEF ToBoundary, Flying
  <2>2. /\ particle' \in Placed(Scene)
        /\ \/ particle' \in Off(Scene)
           \/ particle'.status = "leaked" /\ ~ Immortal /\ Escaped(Scene, particle')
    BY <1>9, ToBoundaryStep
  <2>3. \/ particle'.status = "alive" /\ ~ Even(particle'.pos)
        \/ particle'.status = "leaked" /\ ~ Immortal /\ Escaped(Scene, particle')
    BY <2>2 DEF Off
  <2>4. Settled'
    BY <1>1, <2>1, <2>2, <2>3, SettledKept
  <2> QED
    BY <1>3, <2>1, <2>3, <2>4
<1>10. CASE ToPhaseEnd
  <2>1. /\ mode' = mode /\ pending' = pending /\ ray' = ray /\ states' = states
    BY <1>10 DEF ToPhaseEnd
  <2>2. particle' \in Placed(Scene) /\ particle'.status # "leaked" /\ ~ Even(particle'.pos)
    BY <1>10, ToPhaseEndStep
  <2>3. Settled'
    BY <1>1, <2>1, <2>2, SettledKept
  <2> QED
    BY <1>3, <2>1, <2>2, <2>3
<1>11. CASE NextRay
  <2>1. mode' = mode /\ pending' = pending
    BY <1>11 DEF NextRay
  <2>2. /\ particle' \in Off(Scene) /\ ray' \in 1..RaysPerBatch
        /\ Immortal => states' \in [1..RaysPerBatch -> Off(Scene)]
    BY <1>11, NextRayStep
  <2>3. particle' \in Placed(Scene) /\ particle'.status = "alive" /\ ~ Even(particle'.pos)
    BY <2>2 DEF Off
  <2>4. Settled'
    BY <1>1, <2>1, <2>2, <2>3, SettledKept
  <2> QED
    BY <1>3, <2>1, <2>3, <2>4
<1>12. CASE UNCHANGED allVars
  <2>1. /\ mode' = mode /\ particle' = particle /\ pending' = pending /\ ray' = ray
        /\ states' = states
    BY <1>12 DEF allVars, vars, rayVars
  <2>2. Settled' /\ (SettledLeaks => SettledLeaks')
    BY <2>1 DEF Settled, Immortal, Scene, SettledLeaks
  <2> QED
    BY <2>1, <2>2
<1> QED
  BY <1>4, <1>5, <1>6, <1>7, <1>8, <1>9, <1>10, <1>11, <1>12 DEF RayNext, Next

-----------------------------------------------------------------------------
(***************************************************************************)
(* What a flight passes.                                                   *)
(***************************************************************************)
\* What is passed before the nudge past the first hit is known to the stack.
LEMMA PassedFacts ==
  ASSUME WellFormed(Scene), NEW p \in Placed(Scene), p.status = "alive",
         NEW u \in Nat, u <= Ahead(p).distance + 1, NEW y, y = Along(p.pos, p.dir, u),
         NEW z \in Between(p.pos, y)
  PROVE  FindCell(Scene, z) = p.stack /\ Scene.truth[z] = Material(Scene, p.stack)
<1>1. PICK hit, x : hit = Ahead(p) /\ x = Along(p.pos, p.dir, hit.distance)
  OBVIOUS
<1>2. x \in Int /\ Even(x)
  BY <1>1, CrossedFacts
<1>3. /\ Located(Scene, p.stack, p.pos, p.dir)
      /\ Ahead(p) = TraceStep(Scene, p.stack, p.pos, p.dir)
  BY DEF Placed, Neutrons, Ahead
<1>4. PICK P \in Int, d \in {-1, 1} : P = p.pos /\ d = p.dir
  BY DEF Placed, Neutrons
<1>5. PICK D \in Nat : D = hit.distance
  BY <1>1, <1>3, <1>4, TraceStepIs
<1>6. /\ x = P + d * D /\ y = P + d * u /\ u <= D + 1
  BY <1>1, <1>4, <1>5 DEF Along
<1>7. z \in DOMAIN Scene.truth /\ z \in Int /\ ~ Even(z)
  <2>1. z \in DOMAIN Scene.truth
    BY DEF Between, Positions
  <2> QED
    BY <2>1, WellFormedFacts
<1>8. (P < z /\ z < y) \/ (y < z /\ z < P)
  BY <1>4 DEF Between
<1>9. PICK t \in Nat : z = P + d * t /\ t < u
  <2>1. CASE d = 1
    <3>1. z - P \in Nat /\ z = P + d * (z - P) /\ z - P < u
      BY <1>4, <1>6, <1>7, <1>8, <2>1
    <3> QED
      BY <3>1
  <2>2. CASE d = -1
    <3>1. P - z \in Nat /\ z = P + d * (P - z) /\ P - z < u
      BY <1>4, <1>6, <1>7, <1>8, <2>2
    <3> QED
      BY <3>1
  <2> QED
    BY <1>4, <2>1, <2>2
<1>10. t # D
  BY <1>2, <1>6, <1>7, <1>9
<1>11. t < Ahead(p).distance
  BY <1>1, <1>5, <1>6, <1>9, <1>10
<1>12. z = Along(p.pos, p.dir, t)
  BY <1>4, <1>9 DEF Along
<1>13. FindCell(Scene, z) = p.stack
  BY <1>7, <1>11, <1>12, FlightFacts
<1> QED
  BY <1>7, <1>13, WellFormedFacts

\* A crossing brings a neutron to the surface or one unit past it.
LEMMA CrossedPasses ==
  ASSUME WellFormed(Scene), NEW p \in Placed(Scene), p.status = "alive",
         NEW q, q = Crossed(p, Ahead(p)), q.status = "alive",
         NEW z \in Between(p.pos, q.pos)
  PROVE  Scene.truth[z] = Material(Scene, p.stack)
<1>1. PICK hit, x : hit = Ahead(p) /\ x = Along(p.pos, p.dir, hit.distance)
  OBVIOUS
<1>2. x \in Int /\ (q.pos = x \/ q.pos = x + p.dir)
  BY <1>1, CrossedFacts DEF Off
<1>3. PICK P \in Int, d \in {-1, 1} : P = p.pos /\ d = p.dir
  BY DEF Placed, Neutrons
<1>4. PICK D \in Nat : D = Ahead(p).distance
  <2>1. /\ Located(Scene, p.stack, p.pos, p.dir)
        /\ Ahead(p) = TraceStep(Scene, p.stack, p.pos, p.dir)
    BY DEF Placed, Neutrons, Ahead
  <2> QED
    BY <1>3, <2>1, TraceStepIs
<1>5. \E u \in {D, D + 1} : q.pos = Along(p.pos, p.dir, u)
  <2>1. x = P + d * D
    BY <1>1, <1>3, <1>4 DEF Along
  <2>2. P + d * (D + 1) = x + d
    <3>1. CASE d = 1
      BY <2>1, <3>1
    <3>2. CASE d = -1
      BY <2>1, <3>2
    <3> QED
      BY <3>1, <3>2
  <2> QED
    BY <1>2, <1>3, <2>1, <2>2 DEF Along
<1>6. PICK u \in Nat : u <= D + 1 /\ q.pos = Along(p.pos, p.dir, u)
  BY <1>5
<1> QED
  BY <1>4, <1>6, PassedFacts

LEMMA StaysStep ==
  ASSUME Settled, EmitsFlat(mode), RayNext, mode.walk = "surface", Alive, Alive',
         NEW z \in Between(particle.pos, particle'.pos)
  PROVE  Scene.truth[z] = Material(Scene, particle.stack)
<1>1. /\ WellFormed(Scene) /\ particle \in Placed(Scene) /\ particle.status = "alive"
      /\ particle \in Neutrons(Scene) /\ particle.voids \in Nat
  BY SettledScene
<1>2. particle'.status = "alive"
  BY DEF Alive
<1>3. ASSUME NEW voids \in Nat, NEW p, p = [particle EXCEPT !.voids = voids],
             particle' = Crossed(p, Ahead(p))
      PROVE  Scene.truth[z] = Material(Scene, particle.stack)
  <2>1. /\ p \in Neutrons(Scene) /\ p.status = "alive" /\ p.pos = particle.pos
        /\ p.dir = particle.dir /\ p.stack = particle.stack
    BY <1>1, <1>3 DEF Neutrons
  <2>2. p \in Placed(Scene)
    BY <1>1, <2>1 DEF Placed
  <2>3. z \in Between(p.pos, particle'.pos)
    BY <2>1
  <2>4. Scene.truth[z] = Material(Scene, p.stack)
    BY <1>1, <1>2, <1>3, <2>1, <2>2, <2>3, CrossedPasses
  <2> QED
    BY <2>1, <2>4
<1>4. CASE Stream
  <2>1. PICK p : p = [particle EXCEPT !.voids = @ + 1]
    OBVIOUS
  <2>2. PICK voids \in Nat : voids = particle.voids + 1
    BY <1>1
  <2>3. p = [particle EXCEPT !.voids = voids] /\ p \in Neutrons(Scene)
    BY <1>1, <2>1, <2>2 DEF Neutrons
  <2>4. particle' = IF p.voids > MaxVoid THEN Leaked(p, p.pos) ELSE Crossed(p, Ahead(p))
    BY <1>4, <2>1 DEF Stream
  <2>5. particle' = Crossed(p, Ahead(p))
    BY <1>2, <2>3, <2>4, LeakedPlaced DEF Leaked, Neutrons
  <2> QED
    BY <1>3, <2>3, <2>5
<1>5. CASE Cross
  <2>1. PICK p : p = [particle EXCEPT !.voids = 0]
    OBVIOUS
  <2>2. Ahead(p) = Ahead(particle)
    BY <1>1, <2>1 DEF Ahead, Neutrons
  <2> QED
    BY <1>3, <1>5, <2>1, <2>2 DEF Cross
<1>6. CASE Collide
  <2>1. PICK d \in Flights(particle) :
          /\ Ahead(particle) = NoHit \/ d < Ahead(particle).distance
          /\ Collided([particle EXCEPT !.pos = @ + d * particle.dir, !.voids = 0])
    BY <1>6 DEF Collide
  <2>2. d \in Nat /\ ~ Even(particle.pos + d * particle.dir)
    BY DEF Flights
  <2>3. Ahead(particle) # NoHit
    BY <1>1, CrossedFacts
  <2>4. PICK p : p = [particle EXCEPT !.pos = @ + d * particle.dir, !.voids = 0]
    OBVIOUS
  <2>5. p \in Off(Scene)
    BY <1>1, <2>1, <2>2, <2>3, <2>4, FlownFacts
  <2>6. particle'.pos = p.pos
    BY <2>1, <2>4, <2>5, CollidedStep
  <2>7. p.pos = particle.pos + d * particle.dir
    BY <1>1, <2>4 DEF Neutrons
  <2>8. particle.pos + d * particle.dir = Along(particle.pos, particle.dir, d)
    <3>1. particle.pos \in Int /\ particle.dir \in {-1, 1}
      BY SettledScene
    <3>2. d * particle.dir = particle.dir * d
      BY <2>2, <3>1
    <3> QED
      BY <3>2 DEF Along
  <2>9. d <= Ahead(particle).distance + 1
    <3>1. PICK D \in Nat : D = Ahead(particle).distance
      <4>1. /\ Located(Scene, particle.stack, particle.pos, particle.dir)
            /\ particle.pos \in Int /\ particle.dir \in {-1, 1}
            /\ Ahead(particle) = TraceStep(Scene, particle.stack, particle.pos, particle.dir)
        BY <1>1 DEF Placed, Neutrons, Ahead
      <4> QED
        BY <1>1, <4>1, TraceStepIs
    <3> QED
      BY <2>1, <2>2, <2>3, <3>1
  <2> QED
    BY <1>1, <2>2, <2>6, <2>7, <2>8, <2>9, PassedFacts
<1>7. ~ DeltaStep /\ ~ Pop /\ ~ ToBoundary /\ ~ ToPhaseEnd /\ ~ NextRay
  BY DEF DeltaStep, Pop, ToBoundary, ToPhaseEnd, NextRay, Flying, Rays
<1> QED
  BY <1>4, <1>5, <1>6, <1>7 DEF RayNext, Next

-----------------------------------------------------------------------------
(***************************************************************************)
(* The theorems.  Each asks of the modes what the code relies on: a        *)
(* neutron born in a nested cell is given a stack of the outermost level   *)
(* only (EmitsFlat), a flight of delta tracking may pass a mirror behind   *)
(* another surface (FliesToVacuum), and a voxel finer than a cell is       *)
(* tallied the whole segment (MeshFits).                                   *)
(***************************************************************************)
\* The invariant that all of them rest on.
LEMMA AlwaysSettled ==
  ASSUME \A m \in Modes : EmitsFlat(m)
  PROVE  RaySpec => []Settled
<1>1. RayInit => Settled
  BY SettledInit
<1>2. Settled /\ [RayNext]_allVars => Settled'
  <2> SUFFICES ASSUME Settled, [RayNext]_allVars
               PROVE  Settled'
    OBVIOUS
  <2>1. EmitsFlat(mode)
    BY DEF Settled
  <2> QED
    BY <2>1, SettledStep
<1> QED
  BY <1>1, <1>2, PTL DEF RaySpec

\* The coordinate stack leads to the innermost cell that contains the neutron, and the
\* material it names is the one that was put there, wherever surfaces, grid planes,
\* mirrors, rotations and collisions have brought it: the search of
\* trace_step_recursive and the nudge past a hit never lose the nesting.
THEOREM StackIsTrue ==
  ASSUME \A m \in Modes : EmitsFlat(m)
  PROVE  RaySpec => []StackTrue
<1>1. Settled => StackTrue
  <2> SUFFICES ASSUME Settled, Alive, Interior(particle.pos)
               PROVE  /\ particle.stack = FindCell(Scene, particle.pos)
                      /\ Material(Scene, particle.stack) = Scene.truth[particle.pos]
    BY DEF StackTrue
  <2>1. WellFormed(Scene) /\ particle \in Placed(Scene) /\ particle.status = "alive"
    BY SettledScene
  <2>2. particle.pos \in DOMAIN Scene.truth
    BY DEF Interior, Positions
  <2>3. /\ ~ Even(particle.pos)
        /\ Material(Scene, FindCell(Scene, particle.pos)) = Scene.truth[particle.pos]
    BY <2>1, <2>2, WellFormedFacts
  <2>4. particle.stack = FindCell(Scene, particle.pos)
    BY <2>1, <2>3 DEF Placed, Located, Base
  <2> QED
    BY <2>3, <2>4
<1> QED
  BY <1>1, AlwaysSettled, PTL

\* A neutron leaks through a border that is no mirror and nowhere else, unless it has
\* streamed through void for too long: no surface inside hides a mirror, and no grid
\* plane that lies on one wins over it.
THEOREM MirrorsKeepNeutrons ==
  ASSUME \A m \in Modes : EmitsFlat(m) /\ FliesToVacuum(m)
  PROVE  RaySpec => []MirrorsKeep
<1>1. RayInit => SettledLeaks
  BY SettledInit DEF SettledLeaks, Alive
<1>2. Settled /\ SettledLeaks /\ [RayNext]_allVars => SettledLeaks'
  <2> SUFFICES ASSUME Settled, SettledLeaks, [RayNext]_allVars
               PROVE  SettledLeaks'
    OBVIOUS
  <2>1. EmitsFlat(mode) /\ FliesToVacuum(mode)
    BY DEF Settled
  <2> QED
    BY <2>1, SettledStep
<1>3. RaySpec => []Settled
  BY AlwaysSettled
<1>4. SettledLeaks => MirrorsKeep
  BY DEF SettledLeaks, Escaped, MirrorsKeep
<1> QED
  BY <1>1, <1>2, <1>3, <1>4, PTL DEF RaySpec

\* With surface tracking no step passes a region that the stack does not know of:
\* trace_step_recursive finds the first surface of every cell on the stack and the first
\* plane of every grid.
THEOREM FlightsStayInMaterial ==
  ASSUME \A m \in Modes : EmitsFlat(m)
  PROVE  RaySpec => StaysInMaterial
<1>1. ASSUME Settled, [RayNext]_allVars
      PROVE  [mode.walk = "surface" /\ Alive /\ Alive' =>
                \A z \in Between(particle.pos, particle'.pos) :
                  Scene.truth[z] = Material(Scene, particle.stack)]_vars
  <2>1. EmitsFlat(mode)
    BY <1>1 DEF Settled
  <2>2. CASE RayNext
    BY <1>1, <2>1, <2>2, StaysStep
  <2>3. CASE UNCHANGED allVars
    BY <2>3 DEF allVars
  <2> QED
    BY <1>1, <2>2, <2>3
<1>2. RaySpec => []Settled
  BY AlwaysSettled
<1> QED
  BY <1>1, <1>2, PTL DEF RaySpec, StaysInMaterial

-----------------------------------------------------------------------------
(***************************************************************************)
(* Tallies.                                                                *)
(***************************************************************************)
Places(m) == DOMAIN m.scene.truth

\* Positions of one stack that nothing lies between are in one region.
LEMMA RegionAlong ==
  ASSUME NEW m, WellFormed(m.scene), MeshFits(m), m.walk \in Rays,
         NEW a \in Places(m), NEW b \in Places(m), a <= b,
         NEW s, \A y \in Places(m) : a <= y /\ y <= b => FindCell(m.scene, y) = s
  PROVE  Region(m, a, s) = Region(m, b, s)
<1>1. /\ a \in Int /\ ~ Even(a) /\ b \in Int /\ ~ Even(b)
  BY WellFormedFacts DEF Places
<1>2. \A y \in Int : a <= y /\ y <= b /\ ~ Even(y) => y \in Places(m)
  <2>1. PICK left \in Int, right \in Int :
          left = m.scene.surface[m.scene.left].at /\ right = m.scene.surface[m.scene.right].at
    BY DEF WellFormed, Linked
  <2>2. left < a /\ b < right
    BY <2>1, WellFormedFacts DEF Places
  <2>3. Places(m) = {y \in left..right : ~ Even(y)}
    BY <2>1 DEF WellFormed, Complete, Places
  <2> QED
    BY <1>1, <2>1, <2>2, <2>3
<1>3. PICK N \in Nat : b = a + 2 * N
  <2>1. PICK N \in Int : N = (b - a) \div 2
    BY <1>1
  <2>2. b = a + 2 * N /\ N >= 0
    BY <1>1, <2>1 DEF Even
  <2> QED
    BY <2>1, <2>2
<1> DEFINE S == {n \in Nat : n > N \/ Region(m, a + 2 * n, s) = Region(m, a, s)}
<1>4. 0 \in S
  <2>1. a + 2 * 0 = a
    BY <1>1
  <2> QED
    BY <2>1
<1>5. \A n \in 0..(N - 1) : n \in S => n + 1 \in S
  <2> SUFFICES ASSUME NEW n \in 0..(N - 1), n \in S
               PROVE  n + 1 \in S
    OBVIOUS
  <2>1. PICK y \in Int, z \in Int : y = a + 2 * n /\ z = a + 2 * (n + 1)
    BY <1>1
  <2>2. z = y + 2 /\ a <= y /\ y <= b /\ a <= z /\ z <= b /\ ~ Even(y) /\ ~ Even(z)
    BY <1>1, <1>3, <2>1 DEF Even
  <2>3. y \in Places(m) /\ y + 2 \in Places(m) /\ z \in Places(m)
    BY <1>2, <2>1, <2>2
  <2>4. FindCell(m.scene, y) = s /\ FindCell(m.scene, z) = s
    BY <2>2, <2>3
  <2>5. Region(m, y, FindCell(m.scene, y)) = Region(m, y + 2, FindCell(m.scene, y + 2))
    BY <2>2, <2>3, <2>4 DEF MeshFits, Places
  <2>6. Region(m, y, s) = Region(m, z, s)
    BY <2>2, <2>4, <2>5
  <2>7. Region(m, y, s) = Region(m, a, s)
    BY <1>3, <2>1
  <2> QED
    BY <2>1, <2>6, <2>7
<1> HIDE DEF S
<1>6. 0..N \subseteq S
  BY <1>3, <1>4, <1>5, SetInduction
<1>7. N \in S
  BY <1>3, <1>6
<1> QED
  BY <1>3, <1>7 DEF S

\* The material of a region is that of every place in it.
MaterialIn(m, f) ==
  LET samples == m.mesh.samples
      found == {i \in DOMAIN samples :
                  LET stack == FindCell(m.scene, samples[i]) IN
                    stack # <<>> /\ Region(m, samples[i], stack) = f}
  IN IF found = {} THEN None
     ELSE Material(m.scene,
            FindCell(m.scene, samples[CHOOSE i \in found : \A j \in found : i <= j]))

LEMMA MaterialSame ==
  ASSUME NEW f
  PROVE  MaterialOf(f) = MaterialIn(mode, f)
BY DEF MaterialOf, MaterialIn, Scene

LEMMA MaterialSameNext ==
  ASSUME NEW f
  PROVE  MaterialOf(f)' = MaterialIn(mode', f)
BY DEF MaterialOf, MaterialIn, Scene

LEMMA MaterialFacts ==
  ASSUME NEW m, WellFormed(m.scene), MeshFits(m), m.walk \in Rays,
         NEW f, MaterialIn(m, f) # None,
         NEW z \in Places(m), Region(m, z, FindCell(m.scene, z)) = f
  PROVE  MaterialIn(m, f) = m.scene.truth[z]
<1> DEFINE samples == m.mesh.samples
           found == {i \in DOMAIN samples :
                       LET stack == FindCell(m.scene, samples[i]) IN
                         stack # <<>> /\ Region(m, samples[i], stack) = f}
<1>1. found # {}
  BY DEF MaterialIn
<1>2. samples \in Seq(Places(m))
  BY DEF MeshFits, Places
<1>3. found \subseteq Nat
  BY <1>2
<1>4. \E i \in found : \A j \in found : i <= j
  BY <1>1, <1>3, Least
<1>5. PICK i \in found : i = CHOOSE k \in found : \A j \in found : k <= j
  BY <1>4
<1>6. MaterialIn(m, f) = Material(m.scene, FindCell(m.scene, samples[i]))
  BY <1>1, <1>5 DEF MaterialIn
<1>7. samples[i] \in Places(m) /\ Region(m, samples[i], FindCell(m.scene, samples[i])) = f
  <2>1. i \in DOMAIN samples /\ Region(m, samples[i], FindCell(m.scene, samples[i])) = f
    BY <1>5
  <2> HIDE DEF samples
  <2> QED
    BY <1>2, <2>1
<1> HIDE DEF samples, found
<1>8. m.scene.truth[samples[i]] = m.scene.truth[z]
  BY <1>7 DEF MeshFits, Places
<1>9. Material(m.scene, FindCell(m.scene, samples[i])) = m.scene.truth[samples[i]]
  BY <1>7, WellFormedFacts DEF Places
<1> QED
  BY <1>6, <1>8, <1>9

LEMMA SegmentFacts ==
  ASSUME Settled, Alive,
         NEW u \in Nat, u <= Ahead(particle).distance,
         NEW x, x = Along(particle.pos, particle.dir, u),
         ~ Even(particle.pos), MeshFits(mode), mode.walk \in Rays,
         NEW z \in Segment(particle, x)
  PROVE  /\ z \in DOMAIN Scene.truth /\ FindCell(Scene, z) = particle.stack
         /\ Region(mode, z, particle.stack) = Region(mode, particle.pos, particle.stack)
<1>1. /\ WellFormed(Scene) /\ particle \in Placed(Scene) /\ particle.status = "alive"
      /\ Places(mode) = DOMAIN Scene.truth
  BY SettledScene DEF Places, Scene
<1>2. PICK P \in Int, d \in {-1, 1} : P = particle.pos /\ d = particle.dir
  BY SettledScene
<1>3. P \in DOMAIN Scene.truth /\ FindCell(Scene, P) = particle.stack
  BY <1>1, <1>2 DEF Placed, Located, Base
<1>4. x \in Int /\ x = P + d * u
  BY <1>2 DEF Along
<1>5. PICK D \in Nat : D = Ahead(particle).distance
  <2>1. /\ Located(Scene, particle.stack, particle.pos, particle.dir)
        /\ Ahead(particle) = TraceStep(Scene, particle.stack, particle.pos, particle.dir)
    BY <1>1 DEF Placed, Ahead
  <2> QED
    BY <1>1, <1>2, <2>1, TraceStepIs
<1>6. ASSUME NEW y \in Between(particle.pos, x)
      PROVE  FindCell(Scene, y) = particle.stack
  BY <1>1, <1>5, <1>6, PassedFacts
<1>7. CASE z = P
  BY <1>2, <1>3, <1>7
<1>8. CASE z \in Between(particle.pos, x)
  <2>1. z \in DOMAIN Scene.truth /\ z \in Int
    <3>1. z \in DOMAIN Scene.truth
      BY <1>8 DEF Between, Positions
    <3> QED
      BY <1>1, <3>1, WellFormedFacts
  <2>2. \A y \in Places(mode) : y \in Int
    BY <1>1, WellFormedFacts
  <2>3. \A y \in Places(mode) :
          (P < y /\ y < x) \/ (x < y /\ y < P) => FindCell(Scene, y) = particle.stack
    BY <1>1, <1>2, <1>6 DEF Between, Positions
  <2>4. FindCell(Scene, z) = particle.stack /\ ((P < z /\ z < x) \/ (x < z /\ z < P))
    BY <1>2, <1>6, <1>8 DEF Between
  <2>5. CASE P < z
    <3>1. \A y \in Places(mode) : P <= y /\ y <= z => FindCell(mode.scene, y) = particle.stack
      BY <1>2, <1>3, <1>4, <2>1, <2>2, <2>3, <2>4, <2>5 DEF Scene
    <3>2. Region(mode, P, particle.stack) = Region(mode, z, particle.stack)
      BY <1>1, <1>3, <2>1, <2>5, <3>1, RegionAlong DEF Scene
    <3> QED
      BY <1>2, <2>1, <2>4, <3>2
  <2>6. CASE z < P
    <3>1. \A y \in Places(mode) : z <= y /\ y <= P => FindCell(mode.scene, y) = particle.stack
      BY <1>2, <1>3, <1>4, <2>1, <2>2, <2>3, <2>4, <2>6 DEF Scene
    <3>2. Region(mode, z, particle.stack) = Region(mode, P, particle.stack)
      BY <1>1, <1>3, <2>1, <2>6, <3>1, RegionAlong DEF Scene
    <3> QED
      BY <1>2, <2>1, <2>4, <3>2
  <2> QED
    BY <1>2, <2>1, <2>4, <2>5, <2>6
<1> QED
  BY <1>2, <1>7, <1>8 DEF Segment

LEMMA TallyStep ==
  ASSUME Settled, Alive, MeshFits(mode), mode.walk \in Rays, mode' = mode,
         NEW u \in Nat, u <= Ahead(particle).distance,
         NEW x, x = Along(particle.pos, particle.dir, u),
         Tally(particle, x), TalliedWhereFlown
  PROVE  TalliedWhereFlown'
<1> DEFINE f == Region(mode, particle.pos, particle.stack)
<1>1. /\ WellFormed(Scene) /\ ~ Even(particle.pos)
      /\ WellFormed(mode.scene) /\ Places(mode) = DOMAIN mode.scene.truth
  BY SettledScene DEF Settled, Alive, Scene, Places
<1>2. ASSUME NEW t \in tracked
      PROVE  /\ Region(mode, t[2], FindCell(mode.scene, t[2])) = t[1]
             /\ MaterialIn(mode, t[1]) = mode.scene.truth[t[2]]
  BY MaterialSame DEF TalliedWhereFlown, Scene
<1>3. ASSUME NEW z \in Segment(particle, x), MaterialOf(f) # None
      PROVE  /\ Region(mode, z, FindCell(mode.scene, z)) = f
             /\ MaterialIn(mode, f) = mode.scene.truth[z]
  <2>1. /\ z \in DOMAIN Scene.truth /\ FindCell(Scene, z) = particle.stack
        /\ Region(mode, z, particle.stack) = f
    BY <1>1, SegmentFacts
  <2>2. z \in Places(mode) /\ Region(mode, z, FindCell(mode.scene, z)) = f
    BY <1>1, <2>1 DEF Scene
  <2>3. MaterialIn(mode, f) # None
    BY <1>3, MaterialSame
  <2> HIDE DEF f
  <2> QED
    BY <1>1, <2>2, <2>3, MaterialFacts
<1>4. tracked' \subseteq
        tracked \cup {t \in {<<f, z>> : z \in Segment(particle, x)} : MaterialOf(f) # None}
  BY DEF Tally
<1> HIDE DEF f
<1>5. ASSUME NEW t \in tracked'
      PROVE  /\ Region(mode, t[2], FindCell(mode.scene, t[2])) = t[1]
             /\ MaterialIn(mode, t[1]) = mode.scene.truth[t[2]]
  <2>1. CASE t \in tracked
    BY <1>2, <2>1
  <2>2. CASE t \notin tracked
    <3>1. PICK z \in Segment(particle, x) : t = <<f, z>> /\ MaterialOf(f) # None
      BY <1>4, <2>2
    <3>2. t[1] = f /\ t[2] = z
      BY <3>1
    <3> QED
      BY <1>3, <3>1, <3>2
  <2> QED
    BY <2>1, <2>2
<1>6. \A t \in tracked' : MaterialOf(t[1])' = MaterialIn(mode, t[1])
  BY MaterialSameNext
<1> QED
  BY <1>5, <1>6 DEF TalliedWhereFlown, Scene

LEMMA TalliesStep ==
  ASSUME Settled, MeshFits(mode), [RayNext]_allVars, TalliedWhereFlown
  PROVE  TalliedWhereFlown'
<1>1. ASSUME mode' = mode, tracked' \subseteq tracked
      PROVE  TalliedWhereFlown'
  <2>1. ASSUME NEW t \in tracked
        PROVE  /\ Region(mode, t[2], FindCell(mode.scene, t[2])) = t[1]
               /\ MaterialIn(mode, t[1]) = mode.scene.truth[t[2]]
    BY MaterialSame DEF TalliedWhereFlown, Scene
  <2>2. \A t \in tracked' : MaterialOf(t[1])' = MaterialIn(mode, t[1])
    BY <1>1, MaterialSameNext
  <2> QED
    BY <1>1, <2>1, <2>2 DEF TalliedWhereFlown, Scene
<1>2. ASSUME Alive
      PROVE  /\ particle \in Placed(Scene) /\ particle.pos \in Int /\ particle.dir \in {-1, 1}
             /\ Ahead(particle).distance \in Nat /\ Ahead(particle) # NoHit
  <2>1. /\ WellFormed(Scene) /\ particle \in Placed(Scene) /\ particle.status = "alive"
        /\ particle.pos \in Int /\ particle.dir \in {-1, 1}
    BY <1>2, SettledScene
  <2>2. /\ Located(Scene, particle.stack, particle.pos, particle.dir)
        /\ Ahead(particle) = TraceStep(Scene, particle.stack, particle.pos, particle.dir)
    BY <2>1 DEF Placed, Ahead
  <2> QED
    BY <2>1, <2>2, TraceStepIs, CrossedFacts
<1>3. CASE ToBoundary
  <2>1. mode' = mode /\ Alive /\ mode.walk \in Rays
        /\ Tally(particle, particle.pos + particle.dir * Ahead(particle).distance)
    BY <1>3 DEF ToBoundary, Flying
  <2>2. PICK u \in Nat : u = Ahead(particle).distance
    BY <1>2, <2>1
  <2>3. PICK x : x = Along(particle.pos, particle.dir, u)
    OBVIOUS
  <2>4. x = particle.pos + particle.dir * Ahead(particle).distance
    BY <2>2, <2>3 DEF Along
  <2>5. Tally(particle, x) /\ u <= Ahead(particle).distance
    BY <2>1, <2>2, <2>4
  <2> QED
    BY <2>1, <2>3, <2>5, TallyStep
<1>4. CASE ToPhaseEnd
  <2>1. mode' = mode /\ Alive /\ mode.walk \in Rays
    BY <1>4 DEF ToPhaseEnd, Flying
  <2>2. PICK d \in Flights(particle) :
          /\ Ahead(particle) = NoHit \/ d < Ahead(particle).distance
          /\ Tally(particle, particle.pos + d * particle.dir)
    BY <1>4 DEF ToPhaseEnd
  <2>3. d \in Nat
    BY DEF Flights
  <2>4. PICK x : x = Along(particle.pos, particle.dir, d)
    OBVIOUS
  <2>5. x = particle.pos + d * particle.dir
    <3>1. d * particle.dir = particle.dir * d
      BY <1>2, <2>1, <2>3
    <3> QED
      BY <2>4, <3>1 DEF Along
  <2>6. Tally(particle, x) /\ d <= Ahead(particle).distance
    BY <1>2, <2>1, <2>2, <2>3, <2>5
  <2> QED
    BY <2>1, <2>3, <2>4, <2>6, TallyStep
<1>5. CASE NextRay
  BY <1>1, <1>5 DEF NextRay
<1>6. CASE Next /\ UNCHANGED rayVars
  <2>1. mode' = mode
    BY <1>6 DEF Next, Stream, Cross, Collide, DeltaStep, Pop
  <2> QED
    BY <1>1, <1>6, <2>1 DEF rayVars
<1>7. CASE UNCHANGED allVars
  BY <1>1, <1>7 DEF allVars, vars, rayVars
<1> QED
  BY <1>3, <1>4, <1>5, <1>6, <1>7 DEF RayNext

-----------------------------------------------------------------------------
\* What a ray deposits in a source region was flown in that region and through its
\* material: a segment is tallied before the ray is nudged past its end, under the stack
\* it had on all of its way (solver.rs, the sweep).
THEOREM TalliesAreFlown ==
  ASSUME \A m \in Modes : EmitsFlat(m) /\ MeshFits(m)
  PROVE  RaySpec => []TalliedWhereFlown
<1>1. RayInit => TalliedWhereFlown
  BY DEF RayInit, TalliedWhereFlown
<1>2. Settled /\ TalliedWhereFlown /\ [RayNext]_allVars => TalliedWhereFlown'
  <2> SUFFICES ASSUME Settled, TalliedWhereFlown, [RayNext]_allVars
               PROVE  TalliedWhereFlown'
    OBVIOUS
  <2>1. MeshFits(mode)
    BY DEF Settled
  <2> QED
    BY <2>1, TalliesStep
<1>3. RaySpec => []Settled
  BY AlwaysSettled
<1> QED
  BY <1>1, <1>2, <1>3, PTL DEF RaySpec

\* An immortal ray is never lost, at a vacuum border neither, and takes up each batch at
\* the position, in the direction and with the stack with which it ended the last
\* (solver.rs, the persistent states).
THEOREM ImmortalRaysStay ==
  ASSUME \A m \in Modes : EmitsFlat(m)
  PROVE  RaySpec => ImmortalsStay
<1>1. ASSUME Settled, [RayNext]_allVars
      PROVE  [Immortal =>
                /\ particle'.status # "leaked"
                /\ <<batch', ray'>> # <<batch, ray>> =>
                     /\ Place(states'[ray]) = Place(particle)
                     /\ Place(particle') = Place(states'[ray'])]_allVars
  <2> SUFFICES ASSUME Immortal, RayNext
               PROVE  /\ particle'.status # "leaked"
                      /\ <<batch', ray'>> # <<batch, ray>> =>
                           /\ Place(states'[ray]) = Place(particle)
                           /\ Place(particle') = Place(states'[ray'])
    BY <1>1
  <2>1. EmitsFlat(mode)
    BY <1>1 DEF Settled
  <2>2. Settled' /\ mode' = mode
    BY <1>1, <2>1, SettledStep
  <2>3. particle'.status # "leaked"
    BY <2>2 DEF Settled, Immortal
  <2>4. CASE NextRay
    <3>1. /\ states' = [states EXCEPT ![ray] = [particle EXCEPT !.status = "alive"]]
          /\ particle' = states'[ray']
      BY <2>4 DEF NextRay, Rested
    <3>2. ray \in 1..RaysPerBatch /\ states \in [1..RaysPerBatch -> Off(Scene)]
      BY <1>1 DEF Settled
    <3>3. particle \in Neutrons(Scene)
      BY <1>1, SettledScene
    <3>4. states'[ray] = [particle EXCEPT !.status = "alive"]
      BY <3>1, <3>2
    <3>5. Place([particle EXCEPT !.status = "alive"]) = Place(particle)
      BY <3>3 DEF Neutrons, Place
    <3> QED
      BY <2>3, <3>1, <3>4, <3>5
  <2>5. CASE ~ NextRay
    <3>1. batch' = batch /\ ray' = ray
      BY <2>5 DEF RayNext, rayVars, ToBoundary, ToPhaseEnd
    <3> QED
      BY <2>3, <3>1
  <2> QED
    BY <2>4, <2>5
<1>2. RaySpec => []Settled
  BY AlwaysSettled
<1> QED
  BY <1>1, <1>2, PTL DEF RaySpec, ImmortalsStay
=============================================================================
