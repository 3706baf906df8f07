------------------------ MODULE PhotonHistoryProofs -------------------------
(***************************************************************************)
(* Theorems about photon histories, for every set of modes, every atom,    *)
(* every weight window and every limit: no energy is created or lost       *)
(* unnamed, the two ledgers agree and the games are fair.                  *)
(***************************************************************************)
EXTENDS PhotonHistory, FiniteSetTheorems, SequenceTheorems, TLAPS

-----------------------------------------------------------------------------
(***************************************************************************)
(* Sums.  The sum of a function is the number of its quanta, so what is    *)
(* known of finite sets replaces the induction over its domain.            *)
(***************************************************************************)
Block(x, n) == {x} \X (1..n)

LEMMA BlockSize ==
  ASSUME NEW x, NEW n \in Nat
  PROVE  IsFiniteSet(Block(x, n)) /\ Cardinality(Block(x, n)) = n
<1>1. IsFiniteSet({x}) /\ Cardinality({x}) = 1
  BY FS_Singleton
<1>2. IsFiniteSet(1..n) /\ Cardinality(1..n) = n
  BY FS_Interval
<1>3. /\ IsFiniteSet({x} \X (1..n))
      /\ Cardinality({x} \X (1..n)) = Cardinality({x}) * Cardinality(1..n)
  BY <1>1, <1>2, FS_Product, Zenon
<1> QED
  BY <1>1, <1>2, <1>3 DEF Block

LEMMA TotalNat ==
  ASSUME NEW S, IsFiniteSet(S), NEW f \in [S -> Nat]
  PROVE  IsFiniteSet(Quanta(f)) /\ TotalOf(f) \in Nat
<1> DEFINE T == {Block(x, f[x]) : x \in S}
           F == [x \in S |-> Block(x, f[x])]
<1>1. IsFiniteSet(T)
  <2>1. F \in Surjection(S, T)
    BY DEF Surjection
  <2> QED
    BY <2>1, FS_Surjection
<1>2. \A t \in T : IsFiniteSet(t)
  BY BlockSize
<1>3. IsFiniteSet(UNION T)
  BY <1>1, <1>2, FS_UNION
<1>4. UNION T = Quanta(f)
  BY DEF Block, Quanta
<1> QED
  BY <1>3, <1>4, FS_CardinalityType DEF TotalOf

\* The sum over two disjoint sets is the sum of the sums.
On(f, S) == [x \in S |-> f[x]]
Parts(U, S, T) == U = S \cup T /\ S \cap T = {}

LEMMA TotalUnion ==
  ASSUME NEW U, NEW S, NEW T, IsFiniteSet(S), IsFiniteSet(T), Parts(U, S, T),
         NEW f \in [U -> Nat]
  PROVE  TotalOf(f) = TotalOf(On(f, S)) + TotalOf(On(f, T))
<1> DEFINE g == On(f, S)
           h == On(f, T)
<1>1. g \in [S -> Nat] /\ h \in [T -> Nat]
  BY DEF On, Parts
<1>2. /\ IsFiniteSet(Quanta(g)) /\ IsFiniteSet(Quanta(h))
      /\ TotalOf(g) \in Nat /\ TotalOf(h) \in Nat
  BY <1>1, TotalNat
<1>3. Quanta(f) = Quanta(g) \cup Quanta(h)
  BY DEF Quanta, On, Parts
<1>4. Quanta(g) \cap Quanta(h) = {}
  BY DEF Quanta, On, Parts
<1>5. Cardinality(Quanta(g) \cap Quanta(h)) = 0
  BY <1>4, FS_EmptySet
<1>6. Cardinality(Quanta(f))
        = Cardinality(Quanta(g)) + Cardinality(Quanta(h)) - Cardinality(Quanta(g) \cap Quanta(h))
  BY <1>2, <1>3, FS_Union
<1> QED
  BY <1>2, <1>5, <1>6 DEF TotalOf

LEMMA TotalSingle ==
  ASSUME NEW x, NEW f, f[x] \in Nat
  PROVE  TotalOf(On(f, {x})) = f[x]
<1>1. Quanta(On(f, {x})) = Block(x, f[x])
  BY DEF Quanta, Block, On
<1> QED
  BY <1>1, BlockSize DEF TotalOf

\* One value changes.
LEMMA TotalUpdate ==
  ASSUME NEW S, IsFiniteSet(S), NEW f \in [S -> Nat], NEW g \in [S -> Nat],
         NEW x \in S, NEW d \in Nat, g[x] = f[x] + d, \A y \in S \ {x} : g[y] = f[y]
  PROVE  TotalOf(g) = TotalOf(f) + d
<1> DEFINE R == S \ {x}
<1>1. IsFiniteSet(R) /\ IsFiniteSet({x}) /\ Parts(S, R, {x})
  <2>1. IsFiniteSet(R)
    BY FS_RemoveElement
  <2>2. IsFiniteSet({x})
    BY FS_Singleton
  <2> QED
    BY <2>1, <2>2 DEF Parts
<1>2. f[x] \in Nat /\ g[x] \in Nat
  OBVIOUS
<1>3. On(g, R) = On(f, R)
  BY DEF On
<1>4. On(f, R) \in [R -> Nat]
  BY DEF On
<1> HIDE DEF R
<1>5. TotalOf(f) = TotalOf(On(f, R)) + f[x]
  BY <1>1, <1>2, TotalUnion, TotalSingle
<1>6. TotalOf(g) = TotalOf(On(f, R)) + g[x]
  BY <1>1, <1>2, <1>3, TotalUnion, TotalSingle
<1>7. TotalOf(On(f, R)) \in Nat
  BY <1>1, <1>4, TotalNat
<1> QED
  BY <1>2, <1>5, <1>6, <1>7

LEMMA TotalEmpty == TotalOf(<<>>) = 0
<1>1. Quanta(<<>>) = {}
  BY DEF Quanta
<1> QED
  BY <1>1, FS_EmptySet DEF TotalOf

\* n times the value c.
LEMMA TotalConstant ==
  ASSUME NEW n \in Nat, NEW c \in Nat
  PROVE  TotalOf([i \in 1..n |-> c]) = n * c
<1>1. Quanta([i \in 1..n |-> c]) = (1..n) \X (1..c)
  BY DEF Quanta
<1>2. /\ IsFiniteSet(1..n) /\ Cardinality(1..n) = n
      /\ IsFiniteSet(1..c) /\ Cardinality(1..c) = c
  BY FS_Interval
<1>3. Cardinality((1..n) \X (1..c)) = Cardinality(1..n) * Cardinality(1..c)
  BY <1>2, FS_Product, Zenon
<1> QED
  BY <1>1, <1>2, <1>3 DEF TotalOf

\* A sequence has the same sum wherever it stands.
LEMMA TotalShift ==
  ASSUME NEW t \in Seq(Nat), NEW k \in Nat,
         NEW h \in [(k + 1)..(k + Len(t)) -> Nat],
         \A i \in 1..Len(t) : h[k + i] = t[i]
  PROVE  TotalOf(h) = TotalOf(t)
<1> DEFINE S == Quanta(t)
           T == Quanta(h)
           F == [q \in S |-> <<k + q[1], q[2]>>]
<1>1. Len(t) \in Nat /\ DOMAIN t = 1..Len(t) /\ \A i \in 1..Len(t) : t[i] \in Nat
  OBVIOUS
<1>2. \A q \in S : q[1] \in 1..Len(t) /\ q[2] \in 1..t[q[1]] /\ q = <<q[1], q[2]>>
  BY <1>1 DEF Quanta
<1>3. \A q \in T : q[1] \in (k + 1)..(k + Len(t)) /\ q[2] \in 1..h[q[1]] /\ q = <<q[1], q[2]>>
  BY DEF Quanta
<1>4. \A i \in 1..Len(t) : \A n \in 1..t[i] : <<i, n>> \in S /\ <<k + i, n>> \in T
  <2> TAKE i \in 1..Len(t)
  <2> TAKE n \in 1..t[i]
  <2>1. <<i, n>> \in S
    BY <1>1 DEF Quanta
  <2>2. k + i \in DOMAIN h /\ n \in 1..h[k + i]
    BY <1>1
  <2>3. <<k + i, n>> \in {k + i} \X (1..h[k + i])
    BY <2>2
  <2> QED
    BY <2>1, <2>2, <2>3 DEF Quanta
<1>5. F \in [S -> T]
  BY <1>2, <1>4
<1>6. \A q, r \in S : F[q] = F[r] => q = r
  <2> SUFFICES ASSUME NEW q \in S, NEW r \in S, F[q] = F[r]
               PROVE  q = r
    OBVIOUS
  <2>1. k + q[1] = k + r[1] /\ q[2] = r[2]
    OBVIOUS
  <2>2. q[1] \in Int /\ r[1] \in Int
    BY <1>1, <1>2
  <2> QED
    BY <1>2, <2>1, <2>2
<1>7. \A q \in T : \E r \in S : F[r] = q
  <2> SUFFICES ASSUME NEW q \in T
               PROVE  \E r \in S : F[r] = q
    OBVIOUS
  <2> DEFINE i == q[1] - k
  <2>1. q[1] \in (k + 1)..(k + Len(t)) /\ q[2] \in 1..h[q[1]] /\ q = <<q[1], q[2]>>
    BY <1>3
  <2>2. i \in 1..Len(t) /\ k + i = q[1]
    BY <1>1, <2>1
  <2>3. q[2] \in 1..t[i]
    BY <2>1, <2>2
  <2>4. <<i, q[2]>> \in S
    BY <1>4, <2>2, <2>3
  <2>5. F[<<i, q[2]>>] = <<k + i, q[2]>>
    BY <2>4
  <2> QED
    BY <2>1, <2>2, <2>4, <2>5
<1>8. F \in Bijection(S, T)
  BY <1>5, <1>6, <1>7 DEF Bijection, Injection, Surjection, IsInjective
<1>9. ExistsBijection(S, T)
  BY <1>8 DEF ExistsBijection
<1>10. IsFiniteSet(S)
  <2>1. IsFiniteSet(1..Len(t)) /\ t \in [1..Len(t) -> Nat]
    BY <1>1, FS_Interval
  <2> QED
    BY <2>1, TotalNat
<1>11. Cardinality(T) = Cardinality(S)
  BY <1>9, <1>10, FS_Bijection
<1> QED
  BY <1>11 DEF TotalOf

LEMMA TotalConcat ==
  ASSUME NEW s \in Seq(Nat), NEW t \in Seq(Nat)
  PROVE  /\ TotalOf(s \o t) = TotalOf(s) + TotalOf(t)
         /\ TotalOf(s) \in Nat
<1> DEFINE k == Len(s)
           S == 1..k
           T == (k + 1)..(k + Len(t))
           U == 1..(k + Len(t))
           f == s \o t
<1>1. k \in Nat /\ Len(t) \in Nat
  OBVIOUS
<1>2. IsFiniteSet(S) /\ IsFiniteSet(T)
  BY <1>1, FS_Interval
<1>3. Parts(U, S, T)
  BY <1>1 DEF Parts
<1>4. f \in [U -> Nat]
  <2>1. s \o t \in Seq(Nat) /\ Len(s \o t) = k + Len(t)
    OBVIOUS
  <2> QED
    BY <2>1, LenProperties
<1>5. On(f, S) = s
  BY <1>1, LenProperties DEF On
<1>6. On(f, T) \in [T -> Nat] /\ \A i \in 1..Len(t) : On(f, T)[k + i] = t[i]
  BY <1>1 DEF On
<1>7. s \in [S -> Nat]
  BY LenProperties
<1> HIDE DEF f, S, T, U
<1>8. TotalOf(f) = TotalOf(On(f, S)) + TotalOf(On(f, T))
  BY <1>2, <1>3, <1>4, TotalUnion
<1>9. TotalOf(On(f, T)) = TotalOf(t)
  BY <1>1, <1>6, TotalShift DEF T
<1>10. TotalOf(s) \in Nat
  BY <1>2, <1>7, TotalNat
<1> QED
  BY <1>5, <1>8, <1>9, <1>10 DEF f

-----------------------------------------------------------------------------
(***************************************************************************)
(* Sums over lists: of what f makes of each member.                        *)
(***************************************************************************)
Mapped(f, s) == [i \in DOMAIN s |-> f[s[i]]]
ListTotal(f, s) == TotalOf(Mapped(f, s))

LEMMA MapSeq ==
  ASSUME NEW S, NEW f \in [S -> Nat], NEW s \in Seq(S)
  PROVE  Mapped(f, s) \in Seq(Nat) /\ Len(Mapped(f, s)) = Len(s)
BY DEF Mapped

LEMMA MapConcat ==
  ASSUME NEW S, NEW f \in [S -> Nat], NEW s \in Seq(S), NEW t \in Seq(S)
  PROVE  Mapped(f, s \o t) = Mapped(f, s) \o Mapped(f, t)
<1> DEFINE a == Mapped(f, s \o t)
           b == Mapped(f, s) \o Mapped(f, t)
<1>1. s \o t \in Seq(S) /\ Len(s \o t) = Len(s) + Len(t)
  OBVIOUS
<1>2. a \in Seq(Nat) /\ Len(a) = Len(s) + Len(t)
  BY <1>1, MapSeq
<1>3. /\ Mapped(f, s) \in Seq(Nat) /\ Len(Mapped(f, s)) = Len(s)
      /\ Mapped(f, t) \in Seq(Nat) /\ Len(Mapped(f, t)) = Len(t)
  BY MapSeq
<1>4. b \in Seq(Nat) /\ Len(b) = Len(s) + Len(t)
  <2> DEFINE u == Mapped(f, s)
             v == Mapped(f, t)
  <2>1. u \in Seq(Nat) /\ v \in Seq(Nat) /\ Len(u) = Len(s) /\ Len(v) = Len(t)
    BY <1>3
  <2> HIDE DEF u, v
  <2>2. u \o v \in Seq(Nat) /\ Len(u \o v) = Len(u) + Len(v)
    BY <2>1, ConcatProperties
  <2> QED
    BY <2>1, <2>2 DEF u, v
<1>5. \A i \in 1..(Len(s) + Len(t)) : a[i] = b[i]
  <2> TAKE i \in 1..(Len(s) + Len(t))
  <2>1. a[i] = f[(s \o t)[i]]
    BY <1>1 DEF Mapped
  <2>2. CASE i <= Len(s)
    <3>1. (s \o t)[i] = s[i] /\ i \in 1..Len(s)
      BY <2>2
    <3>2. b[i] = Mapped(f, s)[i]
      BY <1>3, <3>1
    <3>3. Mapped(f, s)[i] = f[s[i]]
      BY <3>1 DEF Mapped
    <3> QED
      BY <2>1, <3>1, <3>2, <3>3
  <2>3. CASE ~ (i <= Len(s))
    <3> DEFINE j == i - Len(s)
    <3>1. (s \o t)[i] = t[j] /\ j \in 1..Len(t)
      BY <2>3
    <3>2. b[i] = Mapped(f, t)[j]
      BY <1>3, <2>3
    <3>3. Mapped(f, t)[j] = f[t[j]]
      BY <3>1 DEF Mapped
    <3> QED
      BY <2>1, <3>1, <3>2, <3>3
  <2> QED
    BY <2>2, <2>3
<1> HIDE DEF a, b
<1>6. a = b
  BY <1>2, <1>4, <1>5, SeqEqual
<1> QED
  BY <1>6 DEF a, b

LEMMA ListConcat ==
  ASSUME NEW S, NEW f \in [S -> Nat], NEW s \in Seq(S), NEW t \in Seq(S)
  PROVE  /\ ListTotal(f, s \o t) = ListTotal(f, s) + ListTotal(f, t)
         /\ ListTotal(f, s) \in Nat /\ ListTotal(f, t) \in Nat
<1>1. Mapped(f, s) \in Seq(Nat) /\ Mapped(f, t) \in Seq(Nat)
  BY MapSeq
<1>2. /\ TotalOf(Mapped(f, s) \o Mapped(f, t)) = TotalOf(Mapped(f, s)) + TotalOf(Mapped(f, t))
      /\ TotalOf(Mapped(f, s)) \in Nat /\ TotalOf(Mapped(f, t)) \in Nat
  BY <1>1, TotalConcat
<1> QED
  BY <1>2, MapConcat DEF ListTotal

LEMMA ListEmpty ==
  ASSUME NEW f
  PROVE  ListTotal(f, <<>>) = 0
<1>1. Mapped(f, <<>>) = <<>>
  BY DEF Mapped
<1> QED
  BY <1>1, TotalEmpty DEF ListTotal

\* n copies of x.
LEMMA ListCopies ==
  ASSUME NEW S, NEW f \in [S -> Nat], NEW x \in S, NEW n \in Nat
  PROVE  /\ [i \in 1..n |-> x] \in Seq(S)
         /\ ListTotal(f, [i \in 1..n |-> x]) = n * f[x]
<1>1. [i \in 1..n |-> x] \in Seq(S)
  OBVIOUS
<1>2. Mapped(f, [i \in 1..n |-> x]) = [i \in 1..n |-> f[x]]
  BY DEF Mapped
<1> QED
  BY <1>1, <1>2, TotalConstant DEF ListTotal

LEMMA ListSingle ==
  ASSUME NEW S, NEW f \in [S -> Nat], NEW x \in S
  PROVE  ListTotal(f, <<x>>) = f[x]
<1>1. <<x>> = [i \in 1..1 |-> x]
  OBVIOUS
<1>2. ListTotal(f, <<x>>) = 1 * f[x]
  BY <1>1, ListCopies
<1> QED
  BY <1>2

LEMMA ListAppend ==
  ASSUME NEW S, NEW f \in [S -> Nat], NEW s \in Seq(S), NEW x \in S
  PROVE  ListTotal(f, Append(s, x)) = ListTotal(f, s) + f[x]
<1>1. <<x>> \in Seq(S)
  OBVIOUS
<1>2. Append(s, x) = s \o <<x>>
  OBVIOUS
<1>3. ListTotal(f, s \o <<x>>) = ListTotal(f, s) + f[x]
  BY <1>1, ListConcat, ListSingle
<1> QED
  BY <1>2, <1>3, Zenon

LEMMA FrontLast ==
  ASSUME NEW S, NEW s \in Seq(S), s # <<>>
  PROVE  /\ Front(s) \in Seq(S) /\ Last(s) \in S
         /\ s = Append(Front(s), Last(s))
BY DEF Front, Last

LEMMA FrontElements ==
  ASSUME NEW S, NEW s \in Seq(S), s # <<>>
  PROVE  /\ \A i \in DOMAIN Front(s) : i \in DOMAIN s /\ Front(s)[i] = s[i]
         /\ Len(s) \in DOMAIN s /\ Last(s) = s[Len(s)]
<1>1. DOMAIN s = 1..Len(s) /\ Len(s) \in Nat \ {0}
  OBVIOUS
<1>2. DOMAIN Front(s) = 1..(Len(s) - 1)
  BY <1>1 DEF Front
<1> QED
  BY <1>1, <1>2 DEF Front, Last

LEMMA ListFront ==
  ASSUME NEW S, NEW f \in [S -> Nat], NEW s \in Seq(S), s # <<>>
  PROVE  ListTotal(f, s) = ListTotal(f, Front(s)) + f[Last(s)]
<1>1. /\ Front(s) \in Seq(S) /\ Last(s) \in S
      /\ s = Append(Front(s), Last(s))
  BY FrontLast
<1>2. ListTotal(f, Append(Front(s), Last(s))) = ListTotal(f, Front(s)) + f[Last(s)]
  BY <1>1, ListAppend
<1> QED
  BY <1>1, <1>2, Zenon

LEMMA ListTail ==
  ASSUME NEW S, NEW f \in [S -> Nat], NEW s \in Seq(S), s # <<>>
  PROVE  ListTotal(f, s) = f[Head(s)] + ListTotal(f, Tail(s))
<1>1. /\ Head(s) \in S /\ Tail(s) \in Seq(S) /\ <<Head(s)>> \in Seq(S)
      /\ s = <<Head(s)>> \o Tail(s)
  OBVIOUS
<1> QED
  BY <1>1, ListConcat, ListSingle

-----------------------------------------------------------------------------
(***************************************************************************)
(* The lists of a history.                                                 *)
(***************************************************************************)
EnergyOf == [x \in Entry |-> x.e]
WeightedOf == [p \in PhotonType |-> p.e * p.w]
TimesWeight(w) == [e \in Nat |-> e * w]
BindingTimes(w) == [s \in DOMAIN Binding |-> Binding[s] * w]

HolesScaled(holes, w) == Scaled([i \in DOMAIN holes |-> Binding[holes[i]]], w)

LEMMA ValueTypes ==
  ASSUME NEW w \in Nat
  PROVE  /\ EnergyOf \in [Entry -> Nat]
         /\ WeightedOf \in [PhotonType -> Nat]
         /\ TimesWeight(w) \in [Nat -> Nat]
         /\ BindingTimes(w) \in [DOMAIN Binding -> Nat]
<1>1. EnergyOf \in [Entry -> Nat]
  BY DEF EnergyOf, Entry
<1>2. \A p \in PhotonType : p.e * p.w \in Nat
  BY DEF PhotonType
<1>3. WeightedOf \in [PhotonType -> Nat]
  BY <1>2 DEF WeightedOf
<1>4. \A e \in Nat : e * w \in Nat
  OBVIOUS
<1>5. TimesWeight(w) \in [Nat -> Nat] /\ BindingTimes(w) \in [DOMAIN Binding -> Nat]
  BY <1>4, ShellAssumption DEF TimesWeight, BindingTimes
<1> QED
  BY <1>1, <1>3, <1>5

LEMMA AsListTotals ==
  /\ \A s \in Seq(Entry) : Energies(s) = ListTotal(EnergyOf, s)
  /\ \A s \in Seq(PhotonType) : Weighted(s) = ListTotal(WeightedOf, s)
  /\ \A s \in Seq(Nat), w \in Nat : Scaled(s, w) = ListTotal(TimesWeight(w), s)
  /\ \A s \in Seq(DOMAIN Binding), w \in Nat : HolesScaled(s, w) = ListTotal(BindingTimes(w), s)
<1>1. ASSUME NEW s \in Seq(Entry)
      PROVE  Energies(s) = ListTotal(EnergyOf, s)
  <2>1. [i \in DOMAIN s |-> s[i].e] = Mapped(EnergyOf, s)
    BY DEF Mapped, EnergyOf
  <2> QED
    BY <2>1 DEF Energies, ListTotal
<1>2. ASSUME NEW s \in Seq(PhotonType)
      PROVE  Weighted(s) = ListTotal(WeightedOf, s)
  <2>1. [i \in DOMAIN s |-> s[i].e * s[i].w] = Mapped(WeightedOf, s)
    BY DEF Mapped, WeightedOf
  <2> QED
    BY <2>1 DEF Weighted, ListTotal
<1>3. ASSUME NEW s \in Seq(Nat), NEW w \in Nat
      PROVE  Scaled(s, w) = ListTotal(TimesWeight(w), s)
  <2>1. \A e \in Nat : TimesWeight(w)[e] = e * w
    BY DEF TimesWeight
  <2>2. \A i \in DOMAIN s : s[i] \in Nat
    OBVIOUS
  <2>3. \A i \in DOMAIN s : s[i] * w = TimesWeight(w)[s[i]]
    BY <2>1, <2>2, Zenon
  <2>4. [i \in DOMAIN s |-> s[i] * w] = Mapped(TimesWeight(w), s)
    BY <2>3, Zenon DEF Mapped
  <2> QED
    BY <2>4 DEF Scaled, ListTotal
<1>4. ASSUME NEW s \in Seq(DOMAIN Binding), NEW w \in Nat
      PROVE  HolesScaled(s, w) = ListTotal(BindingTimes(w), s)
  <2> DEFINE b == [i \in DOMAIN s |-> Binding[s[i]]]
  <2>1. [i \in DOMAIN b |-> b[i] * w] = Mapped(BindingTimes(w), s)
    BY DEF Mapped, BindingTimes
  <2> QED
    BY <2>1 DEF HolesScaled, Scaled, ListTotal
<1> QED
  BY <1>1, <1>2, <1>3, <1>4

\* The lists of deposits and of electrons.
LEMMA EnergiesFacts ==
  /\ Energies(<<>>) = 0
  /\ \A s \in Seq(Entry) :
       /\ Energies(s) \in Nat
       /\ \A x \in Entry : Energies(Append(s, x)) = Energies(s) + x.e
       /\ s # <<>> => Energies(s) = Head(s).e + Energies(Tail(s))
<1>1. EnergyOf \in [Entry -> Nat] /\ \A x \in Entry : EnergyOf[x] = x.e
  BY ValueTypes DEF EnergyOf
<1>2. Energies(<<>>) = 0
  BY AsListTotals, ListEmpty, EmptySeq
<1> SUFFICES ASSUME NEW s \in Seq(Entry)
             PROVE  /\ Energies(s) \in Nat
                    /\ \A x \in Entry : Energies(Append(s, x)) = Energies(s) + x.e
                    /\ s # <<>> => Energies(s) = Head(s).e + Energies(Tail(s))
  BY <1>2
<1>3. Energies(s) = ListTotal(EnergyOf, s)
  BY AsListTotals
<1>4. Energies(s) \in Nat
  BY <1>1, <1>3, ListConcat
<1>5. ASSUME NEW x \in Entry
      PROVE  Energies(Append(s, x)) = Energies(s) + x.e
  <2>1. Append(s, x) \in Seq(Entry)
    OBVIOUS
  <2>2. Energies(Append(s, x)) = ListTotal(EnergyOf, Append(s, x))
    BY <2>1, AsListTotals
  <2>3. ListTotal(EnergyOf, Append(s, x)) = ListTotal(EnergyOf, s) + EnergyOf[x]
    BY <1>1, ListAppend
  <2> QED
    BY <1>1, <1>3, <2>2, <2>3
<1>6. ASSUME s # <<>>
      PROVE  Energies(s) = Head(s).e + Energies(Tail(s))
  <2>1. Head(s) \in Entry /\ Tail(s) \in Seq(Entry)
    BY <1>6
  <2>2. Energies(Tail(s)) = ListTotal(EnergyOf, Tail(s))
    BY <2>1, AsListTotals
  <2>3. ListTotal(EnergyOf, s) = EnergyOf[Head(s)] + ListTotal(EnergyOf, Tail(s))
    BY <1>1, <1>6, ListTail
  <2> QED
    BY <1>1, <1>3, <2>1, <2>2, <2>3
<1> QED
  BY <1>4, <1>5, <1>6

\* The bank.
LEMMA WeightedFacts ==
  /\ Weighted(<<>>) = 0
  /\ \A s \in Seq(PhotonType) :
       /\ Weighted(s) \in Nat
       /\ \A t \in Seq(PhotonType) : Weighted(s \o t) = Weighted(s) + Weighted(t)
       /\ s # <<>> => Weighted(s) = Weighted(Front(s)) + Last(s).e * Last(s).w
  /\ \A p \in PhotonType : Weighted(<<p>>) = p.e * p.w
  /\ \A p \in PhotonType, n \in Nat :
       /\ [i \in 1..n |-> p] \in Seq(PhotonType)
       /\ Weighted([i \in 1..n |-> p]) = n * (p.e * p.w)
<1>1. WeightedOf \in [PhotonType -> Nat] /\ \A p \in PhotonType : WeightedOf[p] = p.e * p.w
  BY ValueTypes DEF WeightedOf
<1>2. \A s \in Seq(PhotonType) : Weighted(s) = ListTotal(WeightedOf, s)
  BY AsListTotals
<1>3. Weighted(<<>>) = 0
  BY <1>2, ListEmpty, EmptySeq
<1>4. ASSUME NEW s \in Seq(PhotonType), NEW t \in Seq(PhotonType)
      PROVE  Weighted(s \o t) = Weighted(s) + Weighted(t) /\ Weighted(s) \in Nat
  <2>1. s \o t \in Seq(PhotonType)
    OBVIOUS
  <2>2. /\ ListTotal(WeightedOf, s \o t) = ListTotal(WeightedOf, s) + ListTotal(WeightedOf, t)
        /\ ListTotal(WeightedOf, s) \in Nat
    BY <1>1, ListConcat
  <2> QED
    BY <1>2, <2>1, <2>2
<1>5. ASSUME NEW s \in Seq(PhotonType), s # <<>>
      PROVE  Weighted(s) = Weighted(Front(s)) + Last(s).e * Last(s).w
  <2>1. Front(s) \in Seq(PhotonType) /\ Last(s) \in PhotonType
    BY <1>5, FrontLast
  <2>2. ListTotal(WeightedOf, s) = ListTotal(WeightedOf, Front(s)) + WeightedOf[Last(s)]
    BY <1>1, <1>5, ListFront
  <2> QED
    BY <1>1, <1>2, <2>1, <2>2
<1>6. ASSUME NEW p \in PhotonType
      PROVE  Weighted(<<p>>) = p.e * p.w
  <2>1. <<p>> \in Seq(PhotonType)
    OBVIOUS
  <2>2. ListTotal(WeightedOf, <<p>>) = WeightedOf[p]
    BY <1>1, ListSingle
  <2> QED
    BY <1>1, <1>2, <2>1, <2>2
<1>7. ASSUME NEW p \in PhotonType, NEW n \in Nat
      PROVE  /\ [i \in 1..n |-> p] \in Seq(PhotonType)
             /\ Weighted([i \in 1..n |-> p]) = n * (p.e * p.w)
  BY <1>1, <1>2, ListCopies
<1> QED
  BY <1>3, <1>4, <1>5, <1>6, <1>7

\* The caller's photons, those of an absorption, and its holes.
LEMMA ScaledFacts ==
  ASSUME NEW w \in Nat
  PROVE  /\ Scaled(<<>>, w) = 0
         /\ \A s \in Seq(Nat) :
              /\ Scaled(s, w) \in Nat
              /\ \A e \in Nat : Scaled(Append(s, e), w) = Scaled(s, w) + e * w
              /\ s # <<>> => Scaled(s, w) = Scaled(Front(s), w) + Last(s) * w
         /\ \A e \in Nat : Scaled(<<e>>, w) = e * w
<1>1. TimesWeight(w) \in [Nat -> Nat] /\ \A e \in Nat : TimesWeight(w)[e] = e * w
  BY ValueTypes DEF TimesWeight
<1>2. \A s \in Seq(Nat) : Scaled(s, w) = ListTotal(TimesWeight(w), s)
  BY AsListTotals
<1>3. Scaled(<<>>, w) = 0
  BY <1>2, ListEmpty, EmptySeq
<1>4. ASSUME NEW s \in Seq(Nat)
      PROVE  Scaled(s, w) \in Nat
  BY <1>1, <1>2, ListConcat
<1>5. ASSUME NEW s \in Seq(Nat), NEW e \in Nat
      PROVE  Scaled(Append(s, e), w) = Scaled(s, w) + e * w
  <2>1. Append(s, e) \in Seq(Nat)
    OBVIOUS
  <2>2. ListTotal(TimesWeight(w), Append(s, e)) = ListTotal(TimesWeight(w), s) + TimesWeight(w)[e]
    BY <1>1, ListAppend
  <2> QED
    BY <1>1, <1>2, <2>1, <2>2
<1>6. ASSUME NEW s \in Seq(Nat), s # <<>>
      PROVE  Scaled(s, w) = Scaled(Front(s), w) + Last(s) * w
  <2>1. Front(s) \in Seq(Nat) /\ Last(s) \in Nat
    BY <1>6, FrontLast
  <2>2. ListTotal(TimesWeight(w), s) = ListTotal(TimesWeight(w), Front(s)) + TimesWeight(w)[Last(s)]
    BY <1>1, <1>6, ListFront
  <2> QED
    BY <1>1, <1>2, <2>1, <2>2
<1>7. ASSUME NEW e \in Nat
      PROVE  Scaled(<<e>>, w) = e * w
  <2>1. <<e>> \in Seq(Nat)
    OBVIOUS
  <2>2. ListTotal(TimesWeight(w), <<e>>) = TimesWeight(w)[e]
    BY <1>1, ListSingle
  <2> QED
    BY <1>1, <1>2, <2>1, <2>2
<1> QED
  BY <1>3, <1>4, <1>5, <1>6, <1>7

LEMMA HolesFacts ==
  ASSUME NEW w \in Nat
  PROVE  /\ HolesScaled(<<>>, w) = 0
         /\ \A s \in Seq(DOMAIN Binding) :
              /\ HolesScaled(s, w) \in Nat
              /\ \A h \in DOMAIN Binding :
                   HolesScaled(Append(s, h), w) = HolesScaled(s, w) + Binding[h] * w
              /\ s # <<>> => HolesScaled(s, w) = HolesScaled(Front(s), w) + Binding[Last(s)] * w
         /\ \A h \in DOMAIN Binding : HolesScaled(<<h>>, w) = Binding[h] * w
<1> DEFINE S == DOMAIN Binding
           f == BindingTimes(w)
<1>1. f \in [S -> Nat] /\ \A h \in S : f[h] = Binding[h] * w
  BY ValueTypes DEF BindingTimes
<1>2. \A s \in Seq(S) : HolesScaled(s, w) = ListTotal(f, s)
  BY AsListTotals
<1> HIDE DEF S, f
<1>3. HolesScaled(<<>>, w) = 0
  BY <1>2, ListEmpty, EmptySeq
<1>4. ASSUME NEW s \in Seq(S)
      PROVE  HolesScaled(s, w) \in Nat
  BY <1>1, <1>2, ListConcat
<1>5. ASSUME NEW s \in Seq(S), NEW h \in S
      PROVE  HolesScaled(Append(s, h), w) = HolesScaled(s, w) + Binding[h] * w
  <2>1. Append(s, h) \in Seq(S)
    OBVIOUS
  <2>2. ListTotal(f, Append(s, h)) = ListTotal(f, s) + f[h]
    BY <1>1, ListAppend
  <2> QED
    BY <1>1, <1>2, <2>1, <2>2
<1>6. ASSUME NEW s \in Seq(S), s # <<>>
      PROVE  HolesScaled(s, w) = HolesScaled(Front(s), w) + Binding[Last(s)] * w
  <2>1. Front(s) \in Seq(S) /\ Last(s) \in S
    BY <1>6, FrontLast
  <2>2. ListTotal(f, s) = ListTotal(f, Front(s)) + f[Last(s)]
    BY <1>1, <1>6, ListFront
  <2> QED
    BY <1>1, <1>2, <2>1, <2>2
<1>7. ASSUME NEW h \in S
      PROVE  HolesScaled(<<h>>, w) = Binding[h] * w
  <2>1. <<h>> \in Seq(S)
    OBVIOUS
  <2>2. ListTotal(f, <<h>>) = f[h]
    BY <1>1, ListSingle
  <2> QED
    BY <1>1, <1>2, <2>1, <2>2
<1> QED
  BY <1>3, <1>4, <1>5, <1>6, <1>7 DEF S

-----------------------------------------------------------------------------
(***************************************************************************)
(* The invariant: beside the properties, what each phase of the loops has  *)
(* left behind, and that the weights are those the windows can split.      *)
(***************************************************************************)
\* A photon that may be followed.
InTrack(p) == p.w \in Weights /\ p.voxel \in Places

Phases ==
  /\ phase \in {"top", "fly", "relax"} => InTrack(photon)
  /\ \A i \in DOMAIN bank : InTrack(bank[i])
  /\ phase \in {"call", "tally", "electron", "done"} => bank = <<>>
  /\ phase = "call" => deposits = <<>> /\ electrons = <<>>
  /\ phase # "electron" => electron.e = 0
  /\ phase \in {"tally", "electron"} => mode.heats

IInv == TypeOK /\ Phases /\ FairWeights /\ LedgersAgree /\ EnergyBalance

LEMMA ModeFacts ==
  ASSUME mode \in Modes
  PROVE  /\ mode.e \in Nat /\ mode.w \in Weights /\ mode.w \in Nat \ {0}
         /\ mode.heats \in BOOLEAN /\ mode.csg \in BOOLEAN /\ mode.windowed \in BOOLEAN
         /\ mode.heats => mode.w = 1
         /\ Places \subseteq Voxels \cup {Nowhere}
BY PhotonAssumption, WeightAssumption DEF Places

LEMMA NoPhotonTyped == NoPhoton \in PhotonType /\ NoPhoton.w = NoPhoton.due
BY DEF NoPhoton, Photon, PhotonType, Somewhere

\* The parts of the balance are numbers.
PartsTyped ==
  /\ Carried \in Nat
  /\ Weighted(bank) \in Nat /\ Following \in Nat /\ Relaxing \in Nat /\ Escaping \in Nat
  /\ InFlight \in Nat /\ Listed \in Nat /\ WithCaller \in Nat /\ Lost \in Int
  /\ Energies(deposits) \in Nat /\ Energies(electrons) \in Nat
  /\ Scaled(outer, mode.w) \in Nat /\ TotalOf(tally) \in Nat
  /\ Scaled(relax.photons, photon.w) \in Nat /\ HolesScaled(relax.holes, photon.w) \in Nat

LEMMA PartsAreTyped == TypeOK => PartsTyped
<1> SUFFICES ASSUME TypeOK
             PROVE  PartsTyped
  OBVIOUS
<1>1. photon.e \in Nat /\ photon.w \in Nat /\ relax.kept \in Nat
  BY DEF TypeOK, PhotonType
<1>2. Carried \in Nat /\ relax.kept * photon.w \in Nat
  BY <1>1 DEF Carried
<1>3. Weighted(bank) \in Nat
  BY WeightedFacts DEF TypeOK
<1>4. Energies(deposits) \in Nat /\ Energies(electrons) \in Nat
  BY EnergiesFacts DEF TypeOK
<1>5. Scaled(outer, mode.w) \in Nat
  BY ModeFacts, ScaledFacts DEF TypeOK
<1>6. TotalOf(tally) \in Nat
  <2>1. IsFiniteSet(Somewhere)
    BY PhotonAssumption, FS_AddElement DEF Somewhere
  <2> QED
    BY <2>1, TotalNat DEF TypeOK
<1>7. Scaled(relax.photons, photon.w) \in Nat /\ HolesScaled(relax.holes, photon.w) \in Nat
  <2>1. relax.photons \in Seq(Nat) /\ relax.holes \in Seq(DOMAIN Binding)
    BY DEF TypeOK
  <2> QED
    BY <1>1, <2>1, ScaledFacts, HolesFacts
<1>8. Relaxing \in Nat
  BY <1>2, <1>7 DEF Relaxing, HolesScaled
<1>9. Following \in Nat /\ Escaping \in Nat
  BY <1>2 DEF TypeOK, Following, Escaping
<1>10. InFlight \in Nat
  BY <1>3, <1>8, <1>9 DEF InFlight
<1>11. Listed \in Nat
  BY <1>4 DEF Listed
<1>12. WithCaller \in Nat /\ Lost \in Int
  <2>1. /\ electron.e \in Nat /\ escaped \in Nat
        /\ lost.binding \in Nat /\ lost.leaked \in Nat /\ lost.roulette \in Int
    BY DEF TypeOK
  <2> QED
    BY <1>5, <1>6, <2>1 DEF WithCaller, Lost
<1> QED
  BY <1>2, <1>3, <1>4, <1>5, <1>6, <1>7, <1>8, <1>9, <1>10, <1>11, <1>12 DEF PartsTyped

LEMMA PartsAreTypedNext == TypeOK' => PartsTyped'
BY PartsAreTyped, PTL

LEMMA InitInv == Init => IInv
<1> SUFFICES ASSUME Init
             PROVE  IInv
  OBVIOUS
<1>1. mode \in Modes /\ mode.e \in Nat /\ mode.w \in Nat
  BY ModeFacts DEF Init
<1>2. TypeOK
  <2>1. /\ photon \in PhotonType
        /\ relax \in [holes : Seq(DOMAIN Binding), kept : Nat, photons : Seq(Nat)]
        /\ electron \in [e : Nat, cell : Somewhere, steps : 0..MaxSteps]
    BY NoPhotonTyped, PhotonAssumption DEF Init, NoRelaxation, NoElectron, Somewhere
  <2>2. /\ outer \in Seq(Nat) /\ bank \in Seq(PhotonType)
        /\ deposits \in Seq(Entry) /\ electrons \in Seq(Entry)
    BY <1>1 DEF Init
  <2>3. /\ events \in 0..MaxEvents /\ voids \in 0..MaxVoid /\ games \in 0..MaxGames
        /\ result \in [deposited : Nat, escaped : Nat]
        /\ tally \in [Somewhere -> Nat]
        /\ lost \in [binding : Nat, leaked : Nat, roulette : Int]
    BY PhotonAssumption DEF Init, NoResult, Somewhere
  <2> QED
    BY <1>1, <2>1, <2>2, <2>3 DEF Init, TypeOK
<1>3. Phases
  BY DEF Init, Phases, NoElectron
<1>4. FairWeights
  BY NoPhotonTyped DEF Init, FairWeights
<1>5. LedgersAgree
  BY DEF Init, LedgersAgree
<1>6. EnergyBalance
  <2>1. InFlight = 0
    BY WeightedFacts DEF Init, InFlight, Following, Relaxing, Escaping
  <2>2. Listed = 0 /\ Lost = 0
    BY EnergiesFacts DEF Init, Listed, Lost
  <2>3. Scaled(outer, mode.w) = mode.e * mode.w
    BY <1>1, ScaledFacts DEF Init
  <2>4. TotalOf(tally) = 0
    <3>1. Quanta(tally) = {}
      BY DEF Init, Quanta
    <3> QED
      BY <3>1, FS_EmptySet DEF TotalOf
  <2>5. WithCaller = Scaled(outer, mode.w)
    <3>1. Scaled(outer, mode.w) \in Nat
      BY <1>2, PartsAreTyped DEF PartsTyped
    <3> QED
      BY <2>4, <3>1 DEF Init, WithCaller, NoElectron
  <2>6. mode.e * mode.w \in Nat
    BY <1>1
  <2> QED
    BY <2>1, <2>2, <2>3, <2>5, <2>6 DEF EnergyBalance
<1> QED
  BY <1>2, <1>3, <1>4, <1>5, <1>6 DEF IInv

-----------------------------------------------------------------------------
(***************************************************************************)
(* What steps have in common.                                              *)
(***************************************************************************)
Flying == {"next", "top", "fly", "relax"}

\* What a history in progress accounts for.
Held == Weighted(bank) + Following + Relaxing + result.escaped + Listed + Lost

\* A step of the history moves energy between its own parts, and books what it deposits
\* in both ledgers.
LEMMA HistoryStep ==
  ASSUME IInv, TypeOK', Phases', FairWeights',
         phase \in Flying, phase' \in Flying, UNCHANGED <<mode, caller>>,
         result'.deposited - result.deposited = Listed' - Listed,
         Held' = Held
  PROVE  IInv'
<1>1. PartsTyped /\ PartsTyped'
  BY PartsAreTyped, PartsAreTypedNext DEF IInv
<1>2. WithCaller' = WithCaller
  BY DEF WithCaller, caller
<1>3. /\ InFlight = Weighted(bank) + Following + Relaxing + result.escaped
      /\ InFlight' = Weighted(bank') + Following' + Relaxing' + result'.escaped
  BY DEF InFlight, Escaping, Flying
<1>4. InFlight' + Listed' + Lost' = InFlight + Listed + Lost
  BY <1>3 DEF Held
<1>5. InFlight' + Listed' + WithCaller' + Lost' = InFlight + Listed + WithCaller + Lost
  <2>1. PICK a \in Int, b \in Int, c \in Int, d \in Int, x \in Int, y \in Int, z \in Int :
          /\ a = InFlight /\ b = Listed /\ c = WithCaller /\ d = Lost
          /\ x = InFlight' /\ y = Listed' /\ z = Lost'
    BY <1>1 DEF PartsTyped
  <2>2. x + y + z = a + b + d
    BY <1>4, <2>1
  <2>3. x + y + c + z = a + b + c + d
    BY <2>2
  <2> QED
    BY <1>2, <2>1, <2>3
<1>6. EnergyBalance'
  BY <1>5 DEF IInv, EnergyBalance
<1>7. LedgersAgree'
  <2>1. result.deposited = Listed
    BY DEF IInv, LedgersAgree, Flying
  <2>2. result.deposited \in Nat /\ result'.deposited \in Nat
    BY DEF IInv, TypeOK
  <2> QED
    BY <1>1, <2>1, <2>2 DEF LedgersAgree, PartsTyped
<1> QED
  BY <1>6, <1>7 DEF IInv

\* A step of the caller moves what the history has listed to where it belongs.
LEMMA CallerStep ==
  ASSUME IInv, TypeOK', Phases', UNCHANGED <<mode, photon, bank>>,
         phase \in {"tally", "electron"}, phase' \in {"tally", "electron", "call", "done"},
         Listed' + WithCaller' + Lost' = Listed + WithCaller + Lost
  PROVE  IInv'
<1>1. PartsTyped /\ PartsTyped'
  BY PartsAreTyped, PartsAreTypedNext DEF IInv
<1>2. mode.heats
  BY DEF IInv, Phases
<1>3. InFlight' = InFlight
  BY DEF InFlight, Following, Relaxing, Escaping
<1>4. InFlight' + Listed' + WithCaller' + Lost' = InFlight + Listed + WithCaller + Lost
  <2>1. PICK a \in Int, b \in Int, c \in Int, d \in Int, x \in Int, y \in Int, z \in Int :
          /\ a = InFlight /\ b = Listed /\ c = WithCaller /\ d = Lost
          /\ x = Listed' /\ y = WithCaller' /\ z = Lost'
    BY <1>1 DEF PartsTyped
  <2>2. x + y + z = b + c + d
    BY <2>1
  <2>3. a + x + y + z = a + b + c + d
    BY <2>2
  <2> QED
    BY <1>3, <2>1, <2>3
<1>5. EnergyBalance'
  BY <1>4 DEF IInv, EnergyBalance
<1>6. LedgersAgree'
  BY <1>2 DEF LedgersAgree
<1>7. FairWeights'
  BY DEF IInv, FairWeights
<1> QED
  BY <1>5, <1>6, <1>7 DEF IInv

\* What enters the bank, what the track and the atom hold more, what is booked and what
\* is lost must add up to nothing.
LEMMA HeldSame ==
  ASSUME TypeOK, NEW b \in Int, NEW f \in Int, NEW r \in Int, NEW l \in Int, NEW k \in Int,
         Weighted(bank') = Weighted(bank) + b, Following' = Following + f,
         Relaxing' = Relaxing + r, result'.escaped = result.escaped,
         Listed' = Listed + l, Lost' = Lost + k, b + f + r + l + k = 0
  PROVE  Held' = Held
<1>1. PartsTyped /\ result.escaped \in Int
  BY PartsAreTyped DEF TypeOK
<1>2. PICK b1 \in Int, f1 \in Int, r1 \in Int, x1 \in Int, l1 \in Int, k1 \in Int :
        /\ b1 = Weighted(bank) /\ f1 = Following /\ r1 = Relaxing
        /\ x1 = result.escaped /\ l1 = Listed /\ k1 = Lost
  BY <1>1 DEF PartsTyped
<1>3. Held = b1 + f1 + r1 + x1 + l1 + k1
  BY <1>2 DEF Held
<1>4. Held' = (b1 + b) + (f1 + f) + (r1 + r) + x1 + (l1 + l) + (k1 + k)
  BY <1>2 DEF Held
<1>5. b1 + f1 + r1 + x1 + l1 + k1
        = (b1 + b) + (f1 + f) + (r1 + r) + x1 + (l1 + l) + (k1 + k)
  OBVIOUS
<1> QED
  BY <1>3, <1>4, <1>5

\* Energy that a reaction deposits, or gives to an electron.
LEMMA Booked ==
  ASSUME TypeOK, NEW e \in Nat, Recoil(e) \/ Deposit(e)
  PROVE  /\ result' \in [deposited : Nat, escaped : Nat]
         /\ result'.escaped = result.escaped
         /\ deposits' \in Seq(Entry) /\ electrons' \in Seq(Entry)
         /\ Listed' = Listed + e
         /\ result'.deposited - result.deposited = Listed' - Listed
<1> DEFINE x == [e |-> e, cell |-> photon.cell]
<1>1. x \in Entry
  BY DEF TypeOK, PhotonType, Entry
<1>2. deposits \in Seq(Entry) /\ electrons \in Seq(Entry)
  BY DEF TypeOK
<1>3. /\ result' = [result EXCEPT !.deposited = @ + e]
      /\ \/ deposits' = Append(deposits, x) /\ electrons' = electrons
         \/ deposits' = deposits /\ electrons' = Append(electrons, x)
  BY DEF Recoil, Deposit
<1> HIDE DEF x
<1>4. deposits' \in Seq(Entry) /\ electrons' \in Seq(Entry)
  <2>1. Append(deposits, x) \in Seq(Entry) /\ Append(electrons, x) \in Seq(Entry)
    BY <1>1, <1>2, AppendProperties
  <2> QED
    BY <1>2, <1>3, <2>1
<1>5. /\ result' \in [deposited : Nat, escaped : Nat]
      /\ result'.escaped = result.escaped /\ result'.deposited = result.deposited + e
      /\ result.deposited \in Nat
  <2>1. result \in [deposited : Nat, escaped : Nat]
    BY DEF TypeOK
  <2>2. result' = [result EXCEPT !.deposited = result.deposited + e]
    BY <1>3
  <2> QED
    BY <2>1, <2>2
<1>6. x.e = e
  BY DEF x
<1>7. /\ Energies(deposits) \in Nat /\ Energies(electrons) \in Nat
      /\ Energies(Append(deposits, x)) = Energies(deposits) + e
      /\ Energies(Append(electrons, x)) = Energies(electrons) + e
  BY <1>1, <1>2, <1>6, EnergiesFacts
<1>8. Listed' = Listed + e /\ Listed \in Nat
  <2>1. \/ Energies(deposits') = Energies(deposits) + e /\ Energies(electrons') = Energies(electrons)
        \/ Energies(deposits') = Energies(deposits) /\ Energies(electrons') = Energies(electrons) + e
    BY <1>3, <1>7
  <2>2. Listed = Energies(deposits) + Energies(electrons)
    BY DEF Listed
  <2>3. Listed' = Energies(deposits') + Energies(electrons')
    BY DEF Listed
  <2> QED
    BY <1>7, <2>1, <2>2, <2>3
<1> QED
  BY <1>4, <1>5, <1>8

LEMMA ListedKept ==
  ASSUME UNCHANGED <<deposits, electrons>>
  PROVE  Listed' = Listed
BY DEF Listed

LEMMA LostKept ==
  ASSUME UNCHANGED lost
  PROVE  Lost' = Lost
BY DEF Lost

\* The track is over: no photon is followed.
LEMMA TrackOver ==
  ASSUME TypeOK, phase' = "next"
  PROVE  Following' = 0 /\ Relaxing' = 0
BY DEF Following, Relaxing

\* A photon is being followed.
LEMMA Followed ==
  ASSUME phase \in {"top", "fly"}
  PROVE  Following = Carried /\ Relaxing = 0
BY DEF Following, Relaxing

LEMMA FollowedNext ==
  ASSUME phase' \in {"top", "fly"}
  PROVE  Following' = Carried' /\ Relaxing' = 0
BY DEF Following, Relaxing

\* Photons that may be followed, at fair weights, are added to the bank.
Followable(s) ==
  /\ s \in Seq(PhotonType)
  /\ \A i \in DOMAIN s : InTrack(s[i]) /\ s[i].w = s[i].due

LEMMA BankFollowable == IInv => Followable(bank)
BY DEF IInv, TypeOK, Phases, FairWeights, Followable

LEMMA BankGrows ==
  ASSUME NEW s, Followable(s), NEW t, Followable(t)
  PROVE  Followable(s \o t) /\ Weighted(s \o t) = Weighted(s) + Weighted(t)
<1>1. s \in Seq(PhotonType) /\ t \in Seq(PhotonType) /\ s \o t \in Seq(PhotonType)
  BY DEF Followable
<1>2. \A i \in DOMAIN (s \o t) : InTrack((s \o t)[i]) /\ (s \o t)[i].w = (s \o t)[i].due
  <2> SUFFICES ASSUME NEW i \in DOMAIN (s \o t)
               PROVE  InTrack((s \o t)[i]) /\ (s \o t)[i].w = (s \o t)[i].due
    OBVIOUS
  <2>1. \/ i \in DOMAIN s /\ (s \o t)[i] = s[i]
        \/ i - Len(s) \in DOMAIN t /\ (s \o t)[i] = t[i - Len(s)]
    BY <1>1
  <2> QED
    BY <2>1 DEF Followable
<1> QED
  BY <1>1, <1>2, WeightedFacts DEF Followable

\* The secondaries of a reaction.
LEMMA SecondariesFollowable ==
  ASSUME IInv, InTrack(photon), NEW es \in Seq(Nat), NEW v \in Places
  PROVE  /\ Followable(Secondaries(es, v))
         /\ Weighted(Secondaries(es, v)) = Scaled(es, photon.w)
<1> DEFINE s == Secondaries(es, v)
<1>1. /\ photon.w \in Nat \ {0} /\ photon.due \in Nat /\ photon.cell \in Somewhere
      /\ photon.w = photon.due
  BY DEF IInv, TypeOK, PhotonType, FairWeights
<1>2. v \in Voxels \cup {Nowhere}
  BY ModeFacts DEF IInv, TypeOK
<1>3. \A e \in Nat : Photon(e, photon.w, photon.due, photon.cell, v) \in PhotonType
  BY <1>1, <1>2 DEF Photon, PhotonType
<1>4. DOMAIN s = 1..Len(es) /\ s \in Seq(PhotonType)
  BY <1>3 DEF Secondaries
<1>5. \A i \in DOMAIN s : s[i] = Photon(es[i], photon.w, photon.due, photon.cell, v)
  BY DEF Secondaries
<1>6. \A i \in DOMAIN s : InTrack(s[i]) /\ s[i].w = s[i].due
  BY <1>1, <1>5 DEF Photon, InTrack
<1>7. [i \in DOMAIN s |-> s[i].e * s[i].w] = [i \in DOMAIN es |-> es[i] * photon.w]
  <2>1. DOMAIN s = DOMAIN es
    BY DEF Secondaries
  <2>2. \A i \in DOMAIN s : s[i].e = es[i] /\ s[i].w = photon.w
    BY <1>5 DEF Photon
  <2> HIDE DEF s
  <2> QED
    BY <2>1, <2>2
<1> QED
  BY <1>4, <1>6, <1>7 DEF Followable, Weighted, Scaled

\* The bank and the mode unchanged, or grown, leave what the invariant says of it.
LEMMA BankPhases ==
  ASSUME UNCHANGED mode, Followable(bank'), photon'.w = photon'.due,
         phase' \in Flying, electron' = electron, phase \in Flying, IInv,
         phase' # "next" => photon'.w \in Weights /\ photon'.voxel \in Places
  PROVE  Phases' /\ FairWeights' /\ bank' \in Seq(PhotonType)
<1>1. Places' = Places
  BY DEF Places
<1>2. \A i \in DOMAIN bank' : bank'[i].w \in Weights /\ bank'[i].voxel \in Places /\ bank'[i].w = bank'[i].due
  BY DEF Followable, InTrack
<1>3. electron'.e = 0
  BY DEF Flying, IInv, Phases
<1> QED
  BY <1>1, <1>2, <1>3 DEF Phases, FairWeights, Followable, InTrack, Flying

-----------------------------------------------------------------------------
(***************************************************************************)
(* The steps of transport_history and of a track.                          *)
(***************************************************************************)
LEMMA NextPhotonInv == IInv /\ NextPhoton => IInv'
<1> SUFFICES ASSUME IInv, NextPhoton
             PROVE  IInv'
  OBVIOUS
<1>1. TypeOK /\ PartsTyped /\ Followable(bank)
  BY PartsAreTyped, BankFollowable DEF IInv
<1>2. /\ Front(bank) \in Seq(PhotonType) /\ Last(bank) \in PhotonType
      /\ \A i \in DOMAIN Front(bank) : i \in DOMAIN bank /\ Front(bank)[i] = bank[i]
      /\ Len(bank) \in DOMAIN bank /\ Last(bank) = bank[Len(bank)]
  <2>1. bank \in Seq(PhotonType) /\ bank # <<>>
    BY <1>1 DEF TypeOK, NextPhoton
  <2> QED
    BY <2>1, FrontLast, FrontElements
<1>3. Followable(bank') /\ InTrack(photon') /\ photon'.w = photon'.due
  BY <1>1, <1>2 DEF NextPhoton, Followable, InTrack
<1>4. TypeOK'
  BY <1>1, <1>2, PhotonAssumption DEF TypeOK, NextPhoton, ledgers, caller
<1>5. Phases' /\ FairWeights'
  BY <1>3, BankPhases DEF NextPhoton, Flying, caller, InTrack
<1>6. Held' = Held
  <2>1. Weighted(bank) = Weighted(bank') + Carried'
    BY <1>1, WeightedFacts DEF NextPhoton, TypeOK, Carried
  <2>2. Following' = Carried' /\ Relaxing' = 0 /\ Following = 0 /\ Relaxing = 0
    BY DEF NextPhoton, Following, Relaxing
  <2>3. Listed' = Listed /\ Lost' = Lost /\ result' = result
    BY ListedKept, LostKept DEF NextPhoton, ledgers
  <2>4. PartsTyped'
    BY <1>4, PartsAreTypedNext
  <2> QED
    BY <1>1, <2>1, <2>2, <2>3, <2>4 DEF Held, PartsTyped
<1>7. result'.deposited - result.deposited = Listed' - Listed
  BY <1>1, ListedKept DEF NextPhoton, ledgers, PartsTyped, TypeOK
<1> QED
  BY <1>4, <1>5, <1>6, <1>7, HistoryStep DEF NextPhoton, Flying

\* Steps that add nothing to the ledgers and lose nothing.
LEMMA NothingBooked ==
  ASSUME TypeOK, UNCHANGED <<result, deposits, electrons>>
  PROVE  /\ Listed' = Listed
         /\ result'.deposited - result.deposited = Listed' - Listed
<1>1. PartsTyped
  BY PartsAreTyped
<1> QED
  BY <1>1, ListedKept DEF PartsTyped, TypeOK

LEMMA AbsorbInv == IInv /\ Absorb => IInv'
<1> SUFFICES ASSUME IInv, Absorb
             PROVE  IInv'
  OBVIOUS
<1>1. TypeOK /\ PartsTyped /\ Followable(bank)
  BY PartsAreTyped, BankFollowable DEF IInv
<1>2. Deposit(Carried) /\ Carried \in Nat
  BY <1>1 DEF Absorb, PartsTyped
<1>3. /\ result' \in [deposited : Nat, escaped : Nat] /\ result'.escaped = result.escaped
      /\ deposits' \in Seq(Entry) /\ electrons' \in Seq(Entry)
      /\ Listed' = Listed + Carried
      /\ result'.deposited - result.deposited = Listed' - Listed
  BY <1>1, <1>2, Booked
<1>4. TypeOK'
  BY <1>1, <1>3, NoPhotonTyped, PhotonAssumption DEF TypeOK, Absorb, Track, EndTrack, caller
<1>5. Phases' /\ FairWeights'
  BY <1>1, NoPhotonTyped, BankPhases DEF Absorb, Track, EndTrack, Flying, caller
<1>6. Held' = Held
  <2>1. Following' = 0 /\ Relaxing' = 0 /\ Following = Carried /\ Relaxing = 0
    BY <1>1, TrackOver, Followed DEF Absorb, Track, EndTrack
  <2>2. Lost' = Lost /\ bank' = bank
    BY LostKept DEF Absorb
  <2> QED
    BY <1>1, <1>3, <2>1, <2>2 DEF Held, PartsTyped
<1> QED
  BY <1>3, <1>4, <1>5, <1>6, HistoryStep DEF Absorb, Track, EndTrack, Flying

LEMMA LeakInv == IInv /\ Leak => IInv'
<1> SUFFICES ASSUME IInv, Leak
             PROVE  IInv'
  OBVIOUS
<1>1. TypeOK /\ PartsTyped /\ Followable(bank)
  BY PartsAreTyped, BankFollowable DEF IInv
<1>2. /\ result \in [deposited : Nat, escaped : Nat] /\ Carried \in Nat
      /\ result' = [result EXCEPT !.escaped = result.escaped + Carried]
  BY <1>1 DEF Leak, Escape, PartsTyped, TypeOK
<1>3. /\ result' \in [deposited : Nat, escaped : Nat]
      /\ result'.escaped = result.escaped + Carried /\ result'.deposited = result.deposited
  BY <1>2
<1>4. TypeOK'
  BY <1>1, <1>3, NoPhotonTyped, PhotonAssumption DEF TypeOK, Leak, Track, EndTrack, caller
<1>5. Phases' /\ FairWeights'
  BY <1>1, NoPhotonTyped, BankPhases DEF Leak, Track, EndTrack, Flying, caller
<1>6. Listed' = Listed
  BY ListedKept DEF Leak
<1>7. Held' = Held
  <2>1. Following' = 0 /\ Relaxing' = 0 /\ Following = Carried /\ Relaxing = 0
    BY <1>1, TrackOver, Followed DEF Leak, Track, EndTrack
  <2>2. Lost' = Lost /\ bank' = bank
    BY LostKept DEF Leak
  <2> QED
    BY <1>1, <1>2, <1>3, <1>6, <2>1, <2>2 DEF Held, PartsTyped
<1>8. result'.deposited - result.deposited = Listed' - Listed
  BY <1>1, <1>2, <1>3, <1>6 DEF PartsTyped
<1> QED
  BY <1>4, <1>5, <1>7, <1>8, HistoryStep DEF Leak, Track, EndTrack, Flying

-----------------------------------------------------------------------------
(***************************************************************************)
(* The weight window.                                                      *)
(***************************************************************************)
LEMMA Division ==
  ASSUME NEW a \in Nat, NEW n \in Nat \ {0}
  PROVE  (a * n) \div n = a /\ (n * a) \div n = a
OBVIOUS

LEMMA SplitsType ==
  ASSUME NEW w \in Nat, NEW v \in Voxels
  PROVE  Splits(w, v) \in Nat /\ Splits(w, v) >= 2
<1>1. Survive[v] \in Nat \ {0} /\ MaxSplit \in Nat /\ MaxSplit >= 2
  BY WeightAssumption, PhotonAssumption
<1>2. (w + Survive[v] - 1) \div Survive[v] \in Int
  BY <1>1
<1> QED
  BY <1>1, <1>2 DEF Splits

\* What a split shares out.
LEMMA Shares ==
  ASSUME NEW e \in Nat, NEW w \in Nat, NEW n \in Nat
  PROVE  e * (w * n) = (n - 1) * (e * w) + e * w
<1>1. e * (w * n) = (e * w) * n
  OBVIOUS
<1>2. \A x \in Nat : x * n = (n - 1) * x + x
  OBVIOUS
<1>3. e * w \in Nat
  OBVIOUS
<1> QED
  BY <1>1, <1>2, <1>3

\* A pass is counted, and so is a game.
LEMMA Counted ==
  ASSUME TypeOK, Pass
  PROVE  events' \in 0..MaxEvents /\ (Enters => games' \in 0..MaxGames)
<1>1. MaxEvents \in Nat /\ MaxGames \in Nat
  BY PhotonAssumption
<1>2. events \in 0..MaxEvents /\ games \in 0..MaxGames
  BY DEF TypeOK
<1>3. events' \in 0..MaxEvents
  BY <1>1, <1>2 DEF Pass
<1>4. Enters => games' \in 0..MaxGames
  BY <1>1, <1>2 DEF Enters
<1> QED
  BY <1>3, <1>4

LEMMA SplitInv == IInv /\ Split => IInv'
<1> SUFFICES ASSUME IInv, Split
             PROVE  IInv'
  OBVIOUS
<1> DEFINE n == Splits(photon.w, photon.voxel)
           p == [photon EXCEPT !.w = photon.w \div n, !.due = photon.due \div n, !.prev = photon.voxel]
           copies == [i \in 1..(n - 1) |-> p]
<1>1. TypeOK /\ PartsTyped /\ Followable(bank)
  BY PartsAreTyped, BankFollowable DEF IInv
<1>2. /\ photon \in PhotonType /\ InTrack(photon) /\ photon.w = photon.due
      /\ photon.voxel \in Voxels /\ photon.w > Hi[photon.voxel]
  BY <1>1, ModeFacts DEF IInv, Phases, FairWeights, TypeOK, Split, Pass, Track, Enters, InTrack, Places
<1>3. PICK part \in Weights : photon.w = part * n
  BY <1>2, WeightAssumption DEF InTrack
<1>4. n \in Nat /\ n >= 2 /\ n - 1 \in Nat
  BY <1>2, SplitsType DEF PhotonType
<1>5. part \in Nat \ {0} /\ photon.w \div n = part
  BY <1>3, <1>4, Division, WeightAssumption
<1>6. /\ p = [photon EXCEPT !.w = part, !.due = part, !.prev = photon.voxel]
      /\ photon' = [p EXCEPT !.prev = p.voxel] /\ bank' = bank \o copies
  BY <1>2, <1>5 DEF Split, Flies
<1> HIDE DEF n, p
<1>7. /\ p \in PhotonType /\ p.e = photon.e /\ p.w = part /\ p.due = part
      /\ p.voxel = photon.voxel /\ photon' = p
  BY <1>2, <1>5, <1>6 DEF PhotonType
<1>8. InTrack(p)
  BY <1>2, <1>7 DEF InTrack
<1>9. Followable(copies) /\ Weighted(copies) = (n - 1) * (photon.e * part)
  BY <1>4, <1>7, <1>8, WeightedFacts DEF Followable
<1> HIDE DEF copies
<1>10. Followable(bank') /\ Weighted(bank') = Weighted(bank) + Weighted(copies)
  BY <1>1, <1>6, <1>9, BankGrows
<1>11. TypeOK'
  BY <1>1, <1>7, <1>10, Counted
     DEF TypeOK, Split, Pass, Track, Enters, Flies, Followable, ledgers, caller
<1>12. Phases' /\ FairWeights'
  BY <1>7, <1>8, <1>10, BankPhases DEF Split, Pass, Track, Flies, Flying, caller, InTrack
<1>13. Held' = Held
  <2>1. Following = photon.e * (part * n) /\ Relaxing = 0
    BY <1>3, Followed DEF Split, Pass, Track, Carried
  <2>2. Following' = photon.e * part /\ Relaxing' = 0
    BY <1>7, FollowedNext DEF Split, Flies, Carried
  <2>3. /\ photon.e \in Nat /\ photon.e * part \in Nat
        /\ (n - 1) * (photon.e * part) \in Nat
    BY <1>2, <1>4, <1>5 DEF PhotonType
  <2>4. Following = Weighted(copies) + Following'
    BY <1>4, <1>5, <1>9, <2>1, <2>2, <2>3, Shares
  <2>5. Listed' = Listed /\ Lost' = Lost /\ result' = result
    BY ListedKept, LostKept DEF Split, ledgers
  <2>6. PICK b \in Int, f \in Int : b = Weighted(copies) /\ f = Following'
    BY <1>9, <2>2, <2>3
  <2>7. Following = b + f
    BY <2>4, <2>6
  <2>8. Held' = Held
    <3>1. Weighted(bank') = Weighted(bank) + b
      BY <1>10, <2>6
    <3>2. Following' = Following + (0 - b)
      BY <2>6, <2>7
    <3>3. /\ Relaxing' = Relaxing + 0 /\ result'.escaped = result.escaped
          /\ Listed' = Listed + 0 /\ Lost' = Lost + 0
      BY <1>1, <2>1, <2>2, <2>5 DEF PartsTyped
    <3>4. b + (0 - b) + 0 + 0 + 0 = 0 /\ 0 - b \in Int
      OBVIOUS
    <3> QED
      BY <1>1, <3>1, <3>2, <3>3, <3>4, HeldSame
  <2> QED
    BY <2>8
<1>14. result'.deposited - result.deposited = Listed' - Listed
  BY <1>1, NothingBooked DEF Split, ledgers
<1> QED
  BY <1>11, <1>12, <1>13, <1>14, HistoryStep DEF Split, Pass, Track, Flies, Flying

LEMMA RouletteInv == IInv /\ Roulette => IInv'
<1> SUFFICES ASSUME IInv, Roulette
             PROVE  IInv'
  OBVIOUS
<1> DEFINE w == Survive[photon.voxel]
<1>1. TypeOK /\ PartsTyped /\ Followable(bank)
  BY PartsAreTyped, BankFollowable DEF IInv
<1>2. /\ photon \in PhotonType /\ InTrack(photon) /\ photon.w = photon.due
      /\ photon.voxel \in Voxels
  BY <1>1, ModeFacts DEF IInv, Phases, FairWeights, TypeOK, Roulette, Pass, Track, Enters, InTrack, Places
<1>3. w \in Weights /\ w \in Nat \ {0} /\ photon.e \in Nat /\ photon.w \in Nat \ {0}
  BY <1>2, WeightAssumption DEF PhotonType
<1>4. lost \in [binding : Nat, leaked : Nat, roulette : Int]
  BY <1>1 DEF TypeOK
<1>5. result'.deposited - result.deposited = Listed' - Listed /\ Listed' = Listed /\ result' = result
  BY <1>1, NothingBooked DEF Roulette, ledgers
<1>6. Following = photon.e * photon.w /\ Relaxing = 0 /\ bank' = bank
  BY Followed DEF Roulette, Pass, Track, Carried
<1>7. CASE /\ Flies([photon EXCEPT !.w = w, !.due = (photon.due * w) \div photon.w])
           /\ lost' = [lost EXCEPT !.roulette = lost.roulette + photon.e * (photon.w - w)]
  <2>1. (photon.due * w) \div photon.w = w
    BY <1>2, <1>3, Division
  <2>2. photon' = [[photon EXCEPT !.w = w, !.due = w] EXCEPT !.prev = photon.voxel]
    BY <1>2, <1>7, <2>1 DEF Flies, PhotonType
  <2>3. /\ photon' \in PhotonType /\ photon'.e = photon.e /\ photon'.w = w /\ photon'.due = w
        /\ photon'.voxel = photon.voxel
    BY <1>2, <1>3, <2>2 DEF PhotonType
  <2>4. photon.e * (photon.w - w) \in Int
    BY <1>3
  <2>5. /\ lost' \in [binding : Nat, leaked : Nat, roulette : Int]
        /\ lost'.binding = lost.binding /\ lost'.leaked = lost.leaked
        /\ lost'.roulette = lost.roulette + photon.e * (photon.w - w)
    BY <1>4, <1>7, <2>4
  <2>6. TypeOK'
    BY <1>1, <1>7, <2>3, <2>5, Counted
       DEF TypeOK, Roulette, Pass, Track, Enters, Flies, ledgers, caller
  <2>7. Phases' /\ FairWeights'
    BY <1>1, <1>2, <1>3, <1>7, <2>3, BankPhases
       DEF Roulette, Pass, Track, Flies, Flying, caller, InTrack
  <2>8. Held' = Held
    <3>1. Following' = photon.e * w /\ Relaxing' = 0
      BY <1>7, <2>3, FollowedNext DEF Flies, Carried
    <3>2. Lost' = Lost + photon.e * (photon.w - w)
      BY <1>4, <2>4, <2>5 DEF Lost
    <3>3. photon.e * photon.w = photon.e * w + photon.e * (photon.w - w)
      BY <1>3
    <3>4. PICK a \in Int, d \in Int : a = photon.e * w /\ d = photon.e * (photon.w - w)
      BY <1>3, <2>4
    <3>5. Following' = Following + (0 - d)
      BY <1>6, <3>1, <3>3, <3>4
    <3>6. /\ Weighted(bank') = Weighted(bank) + 0 /\ Relaxing' = Relaxing + 0
          /\ result'.escaped = result.escaped /\ Listed' = Listed + 0 /\ Lost' = Lost + d
      BY <1>1, <1>5, <1>6, <3>1, <3>2, <3>4 DEF PartsTyped
    <3>7. 0 + (0 - d) + 0 + 0 + d = 0 /\ 0 - d \in Int
      OBVIOUS
    <3> QED
      BY <1>1, <3>5, <3>6, <3>7, HeldSame
  <2> QED
    BY <1>5, <1>7, <2>6, <2>7, <2>8, HistoryStep DEF Roulette, Pass, Track, Flies, Flying
<1>8. CASE /\ phase' = "next" /\ photon' = NoPhoton /\ UNCHANGED voids
           /\ lost' = [lost EXCEPT !.roulette = lost.roulette + Carried]
  <2>1. Carried \in Nat /\ Carried = photon.e * photon.w
    BY <1>1 DEF PartsTyped, Carried
  <2>2. /\ lost' \in [binding : Nat, leaked : Nat, roulette : Int]
        /\ lost'.binding = lost.binding /\ lost'.leaked = lost.leaked
        /\ lost'.roulette = lost.roulette + Carried
    BY <1>4, <1>8, <2>1
  <2>3. TypeOK'
    BY <1>1, <1>8, <2>2, NoPhotonTyped, Counted
       DEF TypeOK, Roulette, Pass, Track, Enters, ledgers, caller
  <2>4. Phases' /\ FairWeights'
    BY <1>1, <1>8, NoPhotonTyped, BankPhases
       DEF Roulette, Pass, Track, Flying, caller
  <2>5. Held' = Held
    <3>1. Following' = 0 /\ Relaxing' = 0
      BY <1>1, <1>8, TrackOver
    <3>2. Lost' = Lost + Carried
      BY <1>4, <2>1, <2>2 DEF Lost
    <3>3. PICK c \in Int : c = Carried
      BY <2>1
    <3>4. Following' = Following + (0 - c)
      BY <1>6, <2>1, <3>1, <3>3
    <3>5. /\ Weighted(bank') = Weighted(bank) + 0 /\ Relaxing' = Relaxing + 0
          /\ result'.escaped = result.escaped /\ Listed' = Listed + 0 /\ Lost' = Lost + c
      BY <1>1, <1>5, <1>6, <3>1, <3>2, <3>3 DEF PartsTyped
    <3>6. 0 + (0 - c) + 0 + 0 + c = 0 /\ 0 - c \in Int
      OBVIOUS
    <3> QED
      BY <1>1, <3>4, <3>5, <3>6, HeldSame
  <2> QED
    BY <1>5, <1>8, <2>3, <2>4, <2>5, HistoryStep DEF Roulette, Pass, Track, Flying
<1> QED
  BY <1>7, <1>8 DEF Roulette

LEMMA InWindowInv == IInv /\ InWindow => IInv'
<1> SUFFICES ASSUME IInv, InWindow
             PROVE  IInv'
  OBVIOUS
<1>1. TypeOK /\ PartsTyped /\ Followable(bank)
  BY PartsAreTyped, BankFollowable DEF IInv
<1>2. photon \in PhotonType /\ InTrack(photon) /\ photon.w = photon.due
  BY <1>1 DEF IInv, Phases, FairWeights, TypeOK, InWindow, Pass, Track
<1>3. /\ photon' \in PhotonType /\ photon'.e = photon.e /\ photon'.w = photon.w
      /\ photon'.due = photon.due /\ photon'.voxel = photon.voxel
  BY <1>2 DEF InWindow, Flies, PhotonType
<1>4. TypeOK'
  BY <1>1, <1>3, Counted DEF TypeOK, InWindow, Pass, Track, Flies, ledgers, caller
<1>5. Phases' /\ FairWeights'
  BY <1>1, <1>2, <1>3, BankPhases DEF InWindow, Pass, Track, Flies, Flying, caller, InTrack
<1>6. Held' = Held
  <2>1. Following = Carried /\ Relaxing = 0 /\ Following' = Carried /\ Relaxing' = 0
    BY <1>3, Followed, FollowedNext DEF InWindow, Pass, Track, Flies, Carried
  <2>2. Listed' = Listed /\ Lost' = Lost /\ result' = result /\ bank' = bank
    BY ListedKept, LostKept DEF InWindow, ledgers
  <2> QED
    BY <2>1, <2>2 DEF Held
<1>7. result'.deposited - result.deposited = Listed' - Listed
  BY <1>1, NothingBooked DEF InWindow, ledgers
<1> QED
  BY <1>4, <1>5, <1>6, <1>7, HistoryStep DEF InWindow, Pass, Track, Flies, Flying

-----------------------------------------------------------------------------
(***************************************************************************)
(* Surfaces and collisions.                                                *)
(***************************************************************************)
\* The photon goes on with energy e, in cell c and voxel v.
LEMMA GoesOn ==
  ASSUME IInv, phase \in {"fly"}, UNCHANGED <<mode, caller>>,
         NEW e \in Nat, NEW c \in Somewhere, NEW v \in Places,
         photon' = [photon EXCEPT !.e = e, !.cell = c, !.voxel = v],
         phase' = "top", UNCHANGED bank
  PROVE  /\ photon' \in PhotonType
         /\ Phases' /\ FairWeights'
         /\ Following = photon.e * photon.w /\ Following' = e * photon.w
         /\ Relaxing = 0 /\ Relaxing' = 0
<1>1. TypeOK /\ Followable(bank)
  BY BankFollowable DEF IInv
<1>2. photon \in PhotonType /\ InTrack(photon) /\ photon.w = photon.due
  BY <1>1 DEF IInv, Phases, FairWeights, TypeOK
<1>3. v \in Voxels \cup {Nowhere}
  BY <1>1, ModeFacts DEF TypeOK
<1>4. /\ photon' \in PhotonType /\ photon'.e = e /\ photon'.w = photon.w
      /\ photon'.due = photon.due /\ photon'.voxel = v
  BY <1>2, <1>3 DEF PhotonType
<1>5. Phases' /\ FairWeights'
  BY <1>1, <1>2, <1>4, BankPhases DEF Flying, caller, InTrack
<1>6. Following = Carried /\ Relaxing = 0 /\ Following' = Carried' /\ Relaxing' = 0
  BY Followed, FollowedNext
<1> QED
  BY <1>4, <1>5, <1>6 DEF Carried

LEMMA CrossInv ==
  ASSUME IInv, NEW streak \in 0..MaxVoid, Cross(streak)
  PROVE  IInv'
<1>1. TypeOK /\ PartsTyped
  BY PartsAreTyped DEF IInv
<1>2. PICK c \in Cells, v \in Places : photon' = [photon EXCEPT !.cell = c, !.voxel = v]
  BY DEF Cross
<1>3. photon \in PhotonType /\ photon.e \in Nat
  BY <1>1 DEF TypeOK, PhotonType
<1>4. photon' = [photon EXCEPT !.e = photon.e, !.cell = c, !.voxel = v]
  BY <1>2, <1>3 DEF PhotonType
<1>5. /\ photon' \in PhotonType
      /\ Phases' /\ FairWeights'
      /\ Following = photon.e * photon.w /\ Following' = photon.e * photon.w
      /\ Relaxing = 0 /\ Relaxing' = 0
  BY <1>3, <1>4, GoesOn DEF Cross, Track, Somewhere
<1>6. TypeOK'
  BY <1>1, <1>5 DEF TypeOK, Cross, Track, ledgers, caller
<1>7. Held' = Held
  <2>1. Listed' = Listed /\ Lost' = Lost /\ result' = result /\ bank' = bank
    BY ListedKept, LostKept DEF Cross, ledgers
  <2> QED
    BY <1>5, <2>1 DEF Held
<1>8. result'.deposited - result.deposited = Listed' - Listed
  BY <1>1, NothingBooked DEF Cross, ledgers
<1> QED
  BY <1>5, <1>6, <1>7, <1>8, HistoryStep DEF Cross, Track, Flying

LEMMA FlightInv == IInv /\ Flight => IInv'
<1> SUFFICES ASSUME IInv, Flight
             PROVE  IInv'
  OBVIOUS
<1>1. MaxVoid \in Nat /\ voids \in 0..MaxVoid
  BY PhotonAssumption DEF IInv, TypeOK
<1>2. CASE Leak
  BY <1>2, LeakInv
<1>3. CASE Stream
  <2>1. voids + 1 \in 0..MaxVoid
    BY <1>1, <1>3 DEF Stream
  <2> QED
    BY <1>3, <2>1, CrossInv DEF Stream
<1>4. CASE CrossSurface
  <2>1. 0 \in 0..MaxVoid
    BY <1>1
  <2> QED
    BY <1>4, <2>1, CrossInv DEF CrossSurface
<1> QED
  BY <1>2, <1>3, <1>4 DEF Flight

LEMMA CoherentInv == IInv /\ Coherent => IInv'
<1> SUFFICES ASSUME IInv, Coherent
             PROVE  IInv'
  OBVIOUS
<1>1. TypeOK /\ PartsTyped /\ 0 \in 0..MaxVoid
  BY PartsAreTyped, PhotonAssumption DEF IInv
<1>2. PICK v \in Places : photon' = [photon EXCEPT !.e = photon.e, !.voxel = v]
  BY DEF Coherent, MovesOn
<1>3. photon \in PhotonType /\ photon.e \in Nat /\ photon.cell \in Somewhere
  BY <1>1 DEF TypeOK, PhotonType
<1>4. photon' = [photon EXCEPT !.e = photon.e, !.cell = photon.cell, !.voxel = v]
  BY <1>2, <1>3 DEF PhotonType
<1>5. /\ photon' \in PhotonType
      /\ Phases' /\ FairWeights'
      /\ Following = photon.e * photon.w /\ Following' = photon.e * photon.w
      /\ Relaxing = 0 /\ Relaxing' = 0
  BY <1>3, <1>4, GoesOn DEF Coherent, Collide, Track, MovesOn
<1>6. TypeOK'
  BY <1>1, <1>5 DEF TypeOK, Coherent, Collide, Track, MovesOn, ledgers, caller
<1>7. Held' = Held
  <2>1. Listed' = Listed /\ Lost' = Lost /\ result' = result /\ bank' = bank
    BY ListedKept, LostKept DEF Coherent, ledgers
  <2> QED
    BY <1>5, <2>1 DEF Held
<1>8. result'.deposited - result.deposited = Listed' - Listed
  BY <1>1, NothingBooked DEF Coherent, ledgers
<1> QED
  BY <1>5, <1>6, <1>7, <1>8, HistoryStep DEF Coherent, Collide, Track, MovesOn, Flying

\* What the photon loses in an incoherent scatter.
LEMMA LossShared ==
  ASSUME NEW e \in Nat, NEW out \in Nat, NEW kinetic \in Nat, NEW w \in Nat
  PROVE  e * w = out * w + kinetic * w + (e - out - kinetic) * w
OBVIOUS

LEMMA BindingLost ==
  ASSUME TypeOK, NEW k \in Nat, lost'.binding = lost.binding + k,
         lost'.leaked = lost.leaked, lost'.roulette = lost.roulette
  PROVE  Lost' = Lost + k
<1>1. PICK a \in Int, b \in Int, c \in Int :
        a = lost.binding /\ b = lost.leaked /\ c = lost.roulette
  BY DEF TypeOK
<1>2. Lost = a + b + c /\ Lost' = (a + k) + b + c
  BY <1>1 DEF Lost
<1> QED
  BY <1>2

LEMMA IncoherentInv == IInv /\ Incoherent => IInv'
<1> SUFFICES ASSUME IInv, Incoherent
             PROVE  IInv'
  OBVIOUS
<1>1. TypeOK /\ PartsTyped /\ 0 \in 0..MaxVoid
  BY PartsAreTyped, PhotonAssumption DEF IInv
<1>2. photon \in PhotonType /\ photon.e \in Nat /\ photon.w \in Nat /\ photon.cell \in Somewhere
  BY <1>1 DEF TypeOK, PhotonType
<1>3. PICK out \in 1..photon.e, kinetic \in Nat :
        /\ kinetic <= photon.e - out
        /\ Recoil(kinetic * photon.w)
        /\ MovesOn(out)
        /\ lost' = [lost EXCEPT !.binding = lost.binding + (photon.e - out - kinetic) * photon.w]
  <2>1. PICK out \in 1..photon.e, b \in 0..1 :
          LET kinetic == IF photon.e - out > b THEN photon.e - out - b ELSE 0 IN
            /\ Recoil(kinetic * photon.w)
            /\ MovesOn(out)
            /\ lost' = [lost EXCEPT !.binding = @ + (photon.e - out - kinetic) * photon.w]
    BY DEF Incoherent
  <2> DEFINE kinetic == IF photon.e - out > b THEN photon.e - out - b ELSE 0
  <2>2. kinetic \in Nat /\ kinetic <= photon.e - out
    BY <1>2
  <2>3. /\ Recoil(kinetic * photon.w)
        /\ MovesOn(out)
        /\ lost' = [lost EXCEPT !.binding = lost.binding + (photon.e - out - kinetic) * photon.w]
    BY <2>1
  <2> HIDE DEF kinetic
  <2> QED
    BY <2>2, <2>3
<1>4. PICK v \in Places : photon' = [photon EXCEPT !.e = out, !.voxel = v]
  BY <1>3 DEF MovesOn
<1>5. photon' = [photon EXCEPT !.e = out, !.cell = photon.cell, !.voxel = v] /\ out \in Nat
  <2>1. out \in Nat
    BY <1>2
  <2>2. photon' = [photon EXCEPT !.e = out, !.cell = photon.cell, !.voxel = v]
    BY <1>2, <1>4 DEF PhotonType
  <2> QED
    BY <2>1, <2>2
<1>6. /\ photon' \in PhotonType
      /\ Phases' /\ FairWeights'
      /\ Following = photon.e * photon.w /\ Following' = out * photon.w
      /\ Relaxing = 0 /\ Relaxing' = 0
  BY <1>2, <1>3, <1>5, GoesOn DEF Incoherent, Collide, Track, MovesOn
<1>7. photon.e - out - kinetic \in Nat
  BY <1>2, <1>3, <1>5
<1>8. PICK given \in Nat, gone \in Nat :
        given = kinetic * photon.w /\ gone = (photon.e - out - kinetic) * photon.w
  BY <1>2, <1>7
<1>9. /\ result' \in [deposited : Nat, escaped : Nat] /\ result'.escaped = result.escaped
      /\ deposits' \in Seq(Entry) /\ electrons' \in Seq(Entry)
      /\ Listed' = Listed + given
      /\ result'.deposited - result.deposited = Listed' - Listed
  BY <1>1, <1>3, <1>8, Booked
<1>10. /\ lost' \in [binding : Nat, leaked : Nat, roulette : Int]
       /\ lost'.binding = lost.binding + gone /\ lost'.leaked = lost.leaked
       /\ lost'.roulette = lost.roulette
  <2>1. lost' = [lost EXCEPT !.binding = lost.binding + gone]
    BY <1>3, <1>8
  <2>2. lost \in [binding : Nat, leaked : Nat, roulette : Int]
    BY <1>1 DEF TypeOK
  <2> QED
    BY <2>1, <2>2
<1>11. TypeOK'
  BY <1>1, <1>3, <1>6, <1>9, <1>10 DEF TypeOK, Incoherent, Collide, Track, MovesOn, caller
<1>12. Held' = Held
  <2>1. PICK before \in Int, after \in Int : before = photon.e * photon.w /\ after = out * photon.w
    BY <1>2, <1>5
  <2>2. before = after + given + gone
    <3>1. PICK e \in Nat, w \in Nat : e = photon.e /\ w = photon.w
      BY <1>2
    <3>2. e * w = out * w + kinetic * w + (e - out - kinetic) * w
      BY <1>5, LossShared
    <3> QED
      BY <1>8, <2>1, <3>1, <3>2
  <2>3. Following' = Following + (0 - given - gone)
    BY <1>6, <2>1, <2>2
  <2>4. Lost' = Lost + gone
    BY <1>1, <1>10, BindingLost
  <2>5. /\ Weighted(bank') = Weighted(bank) + 0 /\ Relaxing' = Relaxing + 0
        /\ result'.escaped = result.escaped /\ Listed' = Listed + given
    BY <1>1, <1>6, <1>9 DEF Incoherent, PartsTyped
  <2>6. 0 + (0 - given - gone) + 0 + given + gone = 0 /\ 0 - given - gone \in Int
    OBVIOUS
  <2> QED
    BY <1>1, <2>3, <2>4, <2>5, <2>6, HeldSame
<1> QED
  BY <1>3, <1>6, <1>9, <1>11, <1>12, HistoryStep DEF Incoherent, Collide, Track, MovesOn, Flying

LEMMA Twice ==
  ASSUME NEW x \in Nat
  PROVE  Append(<<x>>, x) = <<x, x>>
<1>1. Append(<<x>>, x) \in Seq(Nat) /\ <<x, x>> \in Seq(Nat)
  OBVIOUS
<1>2. Len(Append(<<x>>, x)) = 2 /\ Len(<<x, x>>) = 2
  OBVIOUS
<1>3. \A i \in 1..2 : Append(<<x>>, x)[i] = <<x, x>>[i]
  OBVIOUS
<1> QED
  BY <1>1, <1>2, <1>3, SeqEqual

LEMMA PairInv == IInv /\ Pair => IInv'
<1> SUFFICES ASSUME IInv, Pair
             PROVE  IInv'
  OBVIOUS
<1>1. TypeOK /\ PartsTyped /\ Followable(bank) /\ 0 \in 0..MaxVoid
  BY PartsAreTyped, BankFollowable, PhotonAssumption DEF IInv
<1>2. /\ photon \in PhotonType /\ InTrack(photon) /\ photon.e \in Nat /\ photon.w \in Nat
      /\ Rest \in Nat
  BY <1>1, PhotonAssumption DEF IInv, Phases, TypeOK, Pair, Collide, Track, PhotonType
<1>3. \E given \in Nat, made \in Nat :
        /\ photon.e * photon.w = given + made
        /\ Recoil(given) \/ Deposit(given)
        /\ Followable(bank') /\ Weighted(bank') = Weighted(bank) + made
  <2>1. CASE photon.e < 2 * Rest
    <3>1. Deposit(Carried) /\ bank' = bank
      BY <2>1 DEF Pair
    <3>2. Carried \in Nat /\ Carried = photon.e * photon.w /\ Weighted(bank) \in Nat
      BY <1>1 DEF PartsTyped, Carried
    <3>3. /\ photon.e * photon.w = Carried + 0 /\ 0 \in Nat
          /\ Weighted(bank') = Weighted(bank) + 0
      BY <3>1, <3>2
    <3> QED
      BY <1>1, <3>1, <3>2, <3>3
  <2>2. CASE ~ (photon.e < 2 * Rest)
    <3>1. PICK v \in Places :
            /\ Recoil((photon.e - 2 * Rest) * photon.w)
            /\ bank' = bank \o Secondaries(<<Rest, Rest>>, v)
      BY <2>2 DEF Pair
    <3>2. <<Rest, Rest>> \in Seq(Nat)
      BY <1>2
    <3>3. /\ Followable(bank')
          /\ Weighted(bank') = Weighted(bank) + Scaled(<<Rest, Rest>>, photon.w)
      <4>1. /\ Followable(Secondaries(<<Rest, Rest>>, v))
            /\ Weighted(Secondaries(<<Rest, Rest>>, v)) = Scaled(<<Rest, Rest>>, photon.w)
        BY <1>2, <3>2, SecondariesFollowable
      <4> QED
        BY <1>1, <3>1, <4>1, BankGrows
    <3>4. PICK e \in Nat, w \in Nat : e = photon.e /\ w = photon.w
      BY <1>2
    <3>5. Scaled(<<Rest, Rest>>, w) = 2 * (Rest * w) /\ Rest * w \in Nat
      <4>1. Append(<<Rest>>, Rest) = <<Rest, Rest>>
        BY <1>2, Twice
      <4>2. <<Rest>> \in Seq(Nat)
        BY <1>2
      <4>3. Scaled(<<Rest>>, w) = Rest * w
        BY <1>2, ScaledFacts
      <4>4. Scaled(Append(<<Rest>>, Rest), w) = Scaled(<<Rest>>, w) + Rest * w
        BY <1>2, <4>2, ScaledFacts
      <4>5. PICK m \in Nat : m = Rest * w
        BY <1>2
      <4>6. Scaled(<<Rest, Rest>>, w) = m + m
        BY <4>1, <4>3, <4>4, <4>5
      <4> QED
        BY <4>5, <4>6
    <3>6. PICK g \in Nat, m \in Nat : g = (e - 2 * Rest) * w /\ m = Rest * w
      BY <1>2, <2>2, <3>4
    <3>7. e * w = g + 2 * m
      BY <1>2, <3>6
    <3>8. Weighted(bank') = Weighted(bank) + 2 * m /\ Recoil(g) /\ 2 * m \in Nat
      BY <3>1, <3>3, <3>4, <3>5, <3>6
    <3> QED
      BY <3>3, <3>4, <3>7, <3>8
  <2> QED
    BY <2>1, <2>2
<1>4. PICK given \in Nat, made \in Nat :
        /\ photon.e * photon.w = given + made
        /\ Recoil(given) \/ Deposit(given)
        /\ Followable(bank') /\ Weighted(bank') = Weighted(bank) + made
  BY <1>3
<1>5. /\ result' \in [deposited : Nat, escaped : Nat] /\ result'.escaped = result.escaped
      /\ deposits' \in Seq(Entry) /\ electrons' \in Seq(Entry)
      /\ Listed' = Listed + given
      /\ result'.deposited - result.deposited = Listed' - Listed
  BY <1>1, <1>4, Booked
<1>6. TypeOK'
  BY <1>1, <1>4, <1>5, NoPhotonTyped DEF TypeOK, Pair, Collide, Track, Followable, caller
<1>7. Phases' /\ FairWeights'
  BY <1>4, NoPhotonTyped, BankPhases DEF Pair, Collide, Track, Flying, caller
<1>8. Held' = Held
  <2>1. Following = given + made /\ Relaxing = 0
    BY <1>4, Followed DEF Pair, Collide, Track, Carried
  <2>2. Following' = 0 /\ Relaxing' = 0
    BY <1>1, TrackOver DEF Pair
  <2>3. Following' = Following + (0 - given - made)
    BY <2>1, <2>2
  <2>4. Lost' = Lost + 0 /\ Relaxing' = Relaxing + 0
    BY <1>1, <2>1, <2>2, LostKept DEF Pair, PartsTyped
  <2>5. made + (0 - given - made) + 0 + given + 0 = 0 /\ 0 - given - made \in Int
    OBVIOUS
  <2> QED
    BY <1>1, <1>4, <1>5, <2>3, <2>4, <2>5, HeldSame
<1> QED
  BY <1>5, <1>6, <1>7, <1>8, HistoryStep DEF Pair, Collide, Track, Flying

LEMMA PhotoelectricInv == IInv /\ Photoelectric => IInv'
<1> SUFFICES ASSUME IInv, Photoelectric
             PROVE  IInv'
  OBVIOUS
<1>1. TypeOK /\ PartsTyped /\ Followable(bank) /\ 0 \in 0..MaxVoid
  BY PartsAreTyped, BankFollowable, PhotonAssumption DEF IInv
<1>2. /\ photon \in PhotonType /\ InTrack(photon) /\ photon.w = photon.due
      /\ photon.e \in Nat /\ photon.w \in Nat
  BY <1>1 DEF IInv, Phases, FairWeights, TypeOK, Photoelectric, Collide, Track, PhotonType
<1>3. PICK s \in Tabulated :
        /\ Binding[s] <= photon.e
        /\ relax' = [holes |-> <<s>>, kept |-> photon.e - Binding[s], photons |-> <<>>]
  BY DEF Photoelectric
<1>4. s \in DOMAIN Binding /\ Binding[s] \in Nat
  BY ShellAssumption
<1>5. PICK e \in Nat, w \in Nat, b \in Nat :
        e = photon.e /\ w = photon.w /\ b = Binding[s] /\ b <= e
  BY <1>2, <1>3, <1>4
<1>6. /\ relax'.holes = <<s>> /\ relax'.kept = e - b /\ relax'.photons = <<>>
      /\ photon' = photon
  BY <1>3, <1>5 DEF Photoelectric
<1>7. relax' \in [holes : Seq(DOMAIN Binding), kept : Nat, photons : Seq(Nat)]
  <2>1. <<s>> \in Seq(DOMAIN Binding) /\ <<>> \in Seq(Nat) /\ photon.e - Binding[s] \in Nat
    BY <1>4, <1>5
  <2> QED
    BY <1>3, <2>1
<1>8. TypeOK'
  BY <1>1, <1>7 DEF TypeOK, Photoelectric, Collide, Track, ledgers, caller
<1>9. Phases' /\ FairWeights'
  BY <1>1, <1>2, BankPhases DEF Photoelectric, Collide, Track, Flying, caller, InTrack
<1>10. Held' = Held
  <2>1. Following = e * w /\ Relaxing = 0
    BY <1>5, Followed DEF Photoelectric, Collide, Track, Carried
  <2>2. Following' = 0
    BY DEF Photoelectric, Following
  <2>3. Relaxing' = (e - b) * w + 0 + b * w
    <3>1. Relaxing' = (e - b) * w + Scaled(<<>>, w) + HolesScaled(<<s>>, w)
      BY <1>5, <1>6 DEF Photoelectric, Relaxing, HolesScaled
    <3> QED
      BY <1>4, <1>5, <3>1, ScaledFacts, HolesFacts
  <2>4. e * w = (e - b) * w + b * w
    OBVIOUS
  <2>5. PICK a \in Int, c \in Int, d \in Int : a = e * w /\ c = (e - b) * w /\ d = b * w
    OBVIOUS
  <2>6. /\ Following' = Following + (0 - a) /\ Relaxing' = Relaxing + a
        /\ 0 + (0 - a) + a + 0 + 0 = 0 /\ 0 - a \in Int
    BY <2>1, <2>2, <2>3, <2>4, <2>5
  <2>7. Listed' = Listed /\ Lost' = Lost /\ result' = result /\ bank' = bank
    BY ListedKept, LostKept DEF Photoelectric, ledgers
  <2>8. /\ Weighted(bank') = Weighted(bank) + 0 /\ result'.escaped = result.escaped
        /\ Listed' = Listed + 0 /\ Lost' = Lost + 0
    BY <1>1, <2>7 DEF PartsTyped
  <2> QED
    BY <1>1, <2>6, <2>8, HeldSame
<1>11. result'.deposited - result.deposited = Listed' - Listed
  BY <1>1, NothingBooked DEF Photoelectric, ledgers
<1> QED
  BY <1>8, <1>9, <1>10, <1>11, HistoryStep DEF Photoelectric, Collide, Track, Flying

-----------------------------------------------------------------------------
(***************************************************************************)
(* The relaxation cascade.                                                 *)
(***************************************************************************)
RelaxType == [holes : Seq(DOMAIN Binding), kept : Nat, photons : Seq(Nat)]

\* What every step of the cascade starts from.
LEMMA RelaxFacts ==
  ASSUME IInv, Relax
  PROVE  /\ TypeOK /\ PartsTyped /\ relax \in RelaxType
         /\ photon.w \in Nat
         /\ Hole \in DOMAIN Binding /\ Binding[Hole] \in Nat
         /\ Front(relax.holes) \in Seq(DOMAIN Binding)
         /\ HolesScaled(relax.holes, photon.w)
              = HolesScaled(Front(relax.holes), photon.w) + Binding[Hole] * photon.w
         /\ HolesScaled(Front(relax.holes), photon.w) \in Nat
         /\ Relaxing = relax.kept * photon.w + Scaled(relax.photons, photon.w)
                       + HolesScaled(relax.holes, photon.w)
<1>1. TypeOK /\ PartsTyped
  BY PartsAreTyped DEF IInv
<1>2. relax \in RelaxType /\ photon.w \in Nat
  BY <1>1 DEF TypeOK, RelaxType, PhotonType
<1>3. relax.holes \in Seq(DOMAIN Binding) /\ relax.holes # <<>>
  BY <1>2 DEF RelaxType, Relax
<1>4. Hole \in DOMAIN Binding /\ Front(relax.holes) \in Seq(DOMAIN Binding)
  BY <1>3, FrontLast DEF Hole
<1>5. Binding[Hole] \in Nat
  BY <1>4, ShellAssumption
<1>6. /\ HolesScaled(relax.holes, photon.w)
           = HolesScaled(Front(relax.holes), photon.w) + Binding[Hole] * photon.w
      /\ HolesScaled(Front(relax.holes), photon.w) \in Nat
  BY <1>2, <1>3, <1>4, HolesFacts DEF Hole
<1>7. Relaxing = relax.kept * photon.w + Scaled(relax.photons, photon.w)
                 + HolesScaled(relax.holes, photon.w)
  BY DEF Relax, Track, Relaxing, HolesScaled
<1> QED
  BY <1>1, <1>2, <1>4, <1>5, <1>6, <1>7

\* A step of the cascade moves energy between the holes, what is kept, the photons and
\* what is lost.
LEMMA RelaxStep ==
  ASSUME IInv, Relax, relax' \in RelaxType,
         lost' \in [binding : Nat, leaked : Nat, roulette : Int],
         NEW r \in Int, NEW k \in Int, r + k = 0,
         relax'.kept * photon.w + Scaled(relax'.photons, photon.w)
           + HolesScaled(relax'.holes, photon.w) = Relaxing + r,
         Lost' = Lost + k
  PROVE  IInv'
<1>1. TypeOK /\ PartsTyped /\ Followable(bank)
  BY PartsAreTyped, BankFollowable DEF IInv
<1>2. InTrack(photon) /\ photon.w = photon.due
  BY DEF IInv, Phases, FairWeights, Relax, Track
<1>3. TypeOK'
  BY <1>1 DEF TypeOK, Relax, Track, RelaxType, ledgers, caller
<1>4. Phases' /\ FairWeights'
  BY <1>1, <1>2, BankPhases DEF Relax, Track, Flying, caller, InTrack
<1>5. Held' = Held
  <2>1. Following = 0 /\ Following' = 0
    BY DEF Relax, Track, Following
  <2>2. Relaxing' = relax'.kept * photon.w + Scaled(relax'.photons, photon.w)
                    + HolesScaled(relax'.holes, photon.w)
    BY DEF Relax, Track, Relaxing, HolesScaled
  <2>3. Listed' = Listed /\ result' = result /\ bank' = bank
    BY ListedKept DEF Relax, ledgers
  <2>4. Relaxing' = Relaxing + r
    BY <2>2
  <2>5. PICK b1 \in Int, r1 \in Int, x1 \in Int, l1 \in Int, k1 \in Int :
          /\ b1 = Weighted(bank) /\ r1 = Relaxing /\ x1 = result.escaped
          /\ l1 = Listed /\ k1 = Lost
    BY <1>1 DEF PartsTyped, TypeOK
  <2>6. Held = b1 + 0 + r1 + x1 + l1 + k1
    BY <2>1, <2>5 DEF Held
  <2>7. Held' = b1 + 0 + (r1 + r) + x1 + l1 + (k1 + k)
    BY <2>1, <2>3, <2>4, <2>5 DEF Held
  <2> QED
    BY <2>6, <2>7
<1>6. result'.deposited - result.deposited = Listed' - Listed
  BY <1>1, NothingBooked DEF Relax, ledgers
<1> QED
  BY <1>3, <1>4, <1>5, <1>6, HistoryStep DEF Relax, Track, Flying

LEMMA UnlistedInv == IInv /\ Unlisted => IInv'
<1> SUFFICES ASSUME IInv, Unlisted
             PROVE  IInv'
  OBVIOUS
<1>1. Relax
  BY DEF Unlisted
<1>2. PICK w \in Nat, b \in Nat, kept \in Nat, ph \in Nat, f \in Nat :
        /\ w = photon.w /\ b = Binding[Hole] /\ kept = relax.kept
        /\ ph = Scaled(relax.photons, photon.w)
        /\ f = HolesScaled(Front(relax.holes), photon.w)
  BY <1>1, RelaxFacts DEF RelaxType, PartsTyped
<1>3. PICK gone \in Nat, x \in Nat : gone = b * w /\ x = kept * w
  OBVIOUS
<1>4. Relaxing = x + ph + (f + gone)
  BY <1>1, <1>2, <1>3, RelaxFacts
<1>5. /\ relax' \in RelaxType /\ relax'.kept = relax.kept /\ relax'.photons = relax.photons
      /\ relax'.holes = Front(relax.holes)
  BY <1>1, RelaxFacts DEF Unlisted, RelaxType
<1>6. /\ lost' \in [binding : Nat, leaked : Nat, roulette : Int]
      /\ lost'.binding = lost.binding + gone /\ lost'.leaked = lost.leaked
      /\ lost'.roulette = lost.roulette
  <2>1. lost' = [lost EXCEPT !.binding = lost.binding + gone]
    BY <1>2, <1>3 DEF Unlisted
  <2>2. lost \in [binding : Nat, leaked : Nat, roulette : Int]
    BY DEF IInv, TypeOK
  <2> QED
    BY <2>1, <2>2
<1>7. Lost' = Lost + gone
  BY <1>6, BindingLost DEF IInv
<1>8. relax'.kept * photon.w + Scaled(relax'.photons, photon.w)
        + HolesScaled(relax'.holes, photon.w) = Relaxing + (0 - gone)
  <2>1. x + ph + f = (x + ph + (f + gone)) + (0 - gone)
    OBVIOUS
  <2> QED
    BY <1>2, <1>3, <1>4, <1>5, <2>1
<1>9. 0 - gone \in Int /\ gone \in Int /\ (0 - gone) + gone = 0
  OBVIOUS
<1> QED
  BY <1>1, <1>5, <1>6, <1>7, <1>8, <1>9, RelaxStep

LEMMA PersistsInv == IInv /\ Persists => IInv'
<1> SUFFICES ASSUME IInv, Persists
             PROVE  IInv'
  OBVIOUS
<1>1. Relax
  BY DEF Persists
<1>2. PICK w \in Nat, b \in Nat, kept \in Nat, ph \in Nat, f \in Nat :
        /\ w = photon.w /\ b = Binding[Hole] /\ kept = relax.kept
        /\ ph = Scaled(relax.photons, photon.w)
        /\ f = HolesScaled(Front(relax.holes), photon.w)
  BY <1>1, RelaxFacts DEF RelaxType, PartsTyped
<1>3. Relaxing = kept * w + ph + (f + b * w)
  BY <1>1, <1>2, RelaxFacts
<1>4. /\ relax' \in RelaxType /\ relax'.kept = kept + b /\ relax'.photons = relax.photons
      /\ relax'.holes = Front(relax.holes)
  <2>1. relax' = [relax EXCEPT !.holes = Front(relax.holes), !.kept = kept + b]
    BY <1>2 DEF Persists
  <2>2. kept + b \in Nat /\ relax \in RelaxType /\ Front(relax.holes) \in Seq(DOMAIN Binding)
    BY <1>1, RelaxFacts
  <2> QED
    BY <2>1, <2>2 DEF RelaxType
<1>5. relax'.kept * photon.w + Scaled(relax'.photons, photon.w)
        + HolesScaled(relax'.holes, photon.w) = Relaxing + 0
  <2>1. (kept + b) * w + ph + f = (kept * w + ph + (f + b * w)) + 0
    OBVIOUS
  <2> QED
    BY <1>2, <1>3, <1>4, <2>1
<1>6. Lost' = Lost + 0 /\ lost' \in [binding : Nat, leaked : Nat, roulette : Int]
  BY <1>1, RelaxFacts, LostKept DEF Persists, PartsTyped, TypeOK
<1> QED
  BY <1>1, <1>4, <1>5, <1>6, RelaxStep

\* A transition of the hole, and what it releases.
LEMMA Released ==
  ASSUME IInv, Relax, Hole \in Tabulated, NEW t \in Transitions[Hole]
  PROVE  /\ t.primary \in DOMAIN Binding /\ Binding[t.primary] \in Nat
         /\ t.secondary # 0 => t.secondary \in DOMAIN Binding /\ Binding[t.secondary] \in Nat
         /\ Energy(t) \in Nat
         /\ Binding[Hole] = Energy(t) + Binding[t.primary]
                            + IF t.secondary = 0 THEN 0 ELSE Binding[t.secondary]
<1>1. /\ t.primary \in DOMAIN Binding
      /\ t.secondary # 0 => t.secondary \in DOMAIN Binding
      /\ Binding[Hole] >= Binding[t.primary]
                          + IF t.secondary = 0 THEN 0 ELSE Binding[t.secondary]
  BY ShellAssumption
<1>2. /\ Binding[Hole] \in Nat /\ Binding[t.primary] \in Nat
      /\ t.secondary # 0 => Binding[t.secondary] \in Nat
  BY <1>1, ShellAssumption
<1>3. PICK h \in Nat, p \in Nat, q \in Nat :
        /\ h = Binding[Hole] /\ p = Binding[t.primary]
        /\ q = IF t.secondary = 0 THEN 0 ELSE Binding[t.secondary]
  BY <1>2
<1>4. h >= p + q
  BY <1>1, <1>3
<1>5. Energy(t) = h - p - q
  BY <1>3 DEF Energy
<1>6. h - p - q \in Nat /\ h = (h - p - q) + p + q
  BY <1>4
<1> QED
  BY <1>1, <1>2, <1>3, <1>5, <1>6

LEMMA FluorescesInv == IInv /\ Fluoresces => IInv'
<1> SUFFICES ASSUME IInv, Fluoresces
             PROVE  IInv'
  OBVIOUS
<1>1. Relax /\ Hole \in Tabulated
  BY DEF Fluoresces
<1>2. PICK t \in Transitions[Hole] :
        /\ t.secondary = 0
        /\ relax' = [holes |-> Append(Front(relax.holes), t.primary),
                     kept |-> relax.kept + IF Energy(t) < Fluorescent THEN Energy(t) ELSE 0,
                     photons |-> IF Energy(t) < Fluorescent THEN relax.photons
                                 ELSE Append(relax.photons, Energy(t))]
  BY DEF Fluoresces
<1>3. PICK w \in Nat, b \in Nat, kept \in Nat, ph \in Nat, f \in Nat :
        /\ w = photon.w /\ b = Binding[Hole] /\ kept = relax.kept
        /\ ph = Scaled(relax.photons, photon.w)
        /\ f = HolesScaled(Front(relax.holes), photon.w)
  BY <1>1, RelaxFacts DEF RelaxType, PartsTyped
<1>4. Relaxing = kept * w + ph + (f + b * w)
  BY <1>1, <1>3, RelaxFacts
<1>5. PICK e \in Nat, p \in Nat : e = Energy(t) /\ p = Binding[t.primary] /\ b = e + p
  BY <1>1, <1>2, <1>3, Released
<1>6. /\ relax.photons \in Seq(Nat) /\ Front(relax.holes) \in Seq(DOMAIN Binding)
      /\ t.primary \in DOMAIN Binding
  BY <1>1, RelaxFacts, Released DEF RelaxType
<1>7. \E up \in Nat, ps \in Seq(Nat) :
        /\ relax' = [holes |-> Append(Front(relax.holes), t.primary),
                     kept |-> kept + up, photons |-> ps]
        /\ up * w + Scaled(ps, w) = ph + e * w
  <2>1. CASE Energy(t) < Fluorescent
    <3>1. relax' = [holes |-> Append(Front(relax.holes), t.primary),
                    kept |-> kept + e, photons |-> relax.photons]
      BY <1>2, <1>3, <1>5, <2>1
    <3>2. e * w + Scaled(relax.photons, w) = ph + e * w
      BY <1>3
    <3> QED
      BY <1>6, <3>1, <3>2
  <2>2. CASE ~ (Energy(t) < Fluorescent)
    <3>1. relax' = [holes |-> Append(Front(relax.holes), t.primary),
                    kept |-> kept + 0, photons |-> Append(relax.photons, e)]
      BY <1>2, <1>3, <1>5, <2>2
    <3>2. Scaled(Append(relax.photons, e), w) = ph + e * w
      BY <1>3, <1>6, ScaledFacts
    <3>3. 0 * w + (ph + e * w) = ph + e * w
      OBVIOUS
    <3>4. Append(relax.photons, e) \in Seq(Nat) /\ 0 \in Nat
      BY <1>6
    <3> QED
      BY <3>1, <3>2, <3>3, <3>4
  <2> QED
    BY <2>1, <2>2
<1>8. PICK up \in Nat, ps \in Seq(Nat) :
        /\ relax' = [holes |-> Append(Front(relax.holes), t.primary),
                     kept |-> kept + up, photons |-> ps]
        /\ up * w + Scaled(ps, w) = ph + e * w
  BY <1>7
<1>9. /\ relax' \in RelaxType /\ relax'.kept = kept + up /\ relax'.photons = ps
      /\ relax'.holes = Append(Front(relax.holes), t.primary)
  <2>1. Append(Front(relax.holes), t.primary) \in Seq(DOMAIN Binding)
    BY <1>6
  <2>2. kept + up \in Nat
    OBVIOUS
  <2> QED
    BY <1>8, <2>1, <2>2 DEF RelaxType
<1>10. PICK s \in Nat : s = Scaled(ps, w)
  BY ScaledFacts
<1>11. HolesScaled(relax'.holes, w) = f + p * w
  <2>1. HolesScaled(Append(Front(relax.holes), t.primary), w) = f + p * w
    BY <1>3, <1>5, <1>6, HolesFacts
  <2> QED
    BY <1>9, <2>1
<1>12. relax'.kept * photon.w + Scaled(relax'.photons, photon.w)
         + HolesScaled(relax'.holes, photon.w) = Relaxing + 0
  <2>1. (kept + up) * w + s + (f + p * w) = (kept * w + ph + (f + b * w)) + 0
    <3>1. up * w + s = ph + e * w
      BY <1>8, <1>10
    <3>2. (kept + up) * w = kept * w + up * w /\ b * w = e * w + p * w
      BY <1>5
    <3>3. PICK i \in Nat, j \in Nat, k \in Nat, l \in Nat :
            i = kept * w /\ j = up * w /\ k = e * w /\ l = p * w
      OBVIOUS
    <3>4. (i + j) + s + (f + l) = (i + ph + (f + (k + l))) + 0
      BY <3>1, <3>3
    <3> QED
      BY <3>2, <3>3, <3>4
  <2> QED
    BY <1>3, <1>4, <1>9, <1>10, <1>11, <2>1
<1>13. Lost' = Lost + 0 /\ lost' \in [binding : Nat, leaked : Nat, roulette : Int]
  BY <1>1, RelaxFacts, LostKept DEF Fluoresces, PartsTyped, TypeOK
<1> QED
  BY <1>1, <1>9, <1>12, <1>13, RelaxStep

LEMMA AppendTwo ==
  ASSUME NEW S, NEW s \in Seq(S), NEW x \in S, NEW y \in S
  PROVE  s \o <<x, y>> = Append(Append(s, x), y)
OBVIOUS

LEMMA AugerInv == IInv /\ Auger => IInv'
<1> SUFFICES ASSUME IInv, Auger
             PROVE  IInv'
  OBVIOUS
<1>1. Relax /\ Hole \in Tabulated
  BY DEF Auger
<1>2. PICK t \in Transitions[Hole] :
        /\ t.secondary # 0
        /\ relax' = [relax EXCEPT !.holes = Front(relax.holes) \o <<t.primary, t.secondary>>,
                                  !.kept = relax.kept + Energy(t)]
  BY DEF Auger
<1>3. PICK w \in Nat, b \in Nat, kept \in Nat, ph \in Nat, f \in Nat :
        /\ w = photon.w /\ b = Binding[Hole] /\ kept = relax.kept
        /\ ph = Scaled(relax.photons, photon.w)
        /\ f = HolesScaled(Front(relax.holes), photon.w)
  BY <1>1, RelaxFacts DEF RelaxType, PartsTyped
<1>4. Relaxing = kept * w + ph + (f + b * w)
  BY <1>1, <1>3, RelaxFacts
<1>5. PICK e \in Nat, p \in Nat, q \in Nat :
        /\ e = Energy(t) /\ p = Binding[t.primary] /\ q = Binding[t.secondary]
        /\ b = e + p + q
  BY <1>1, <1>2, <1>3, Released
<1>6. /\ relax \in RelaxType /\ Front(relax.holes) \in Seq(DOMAIN Binding)
      /\ t.primary \in DOMAIN Binding /\ t.secondary \in DOMAIN Binding
  BY <1>1, <1>2, RelaxFacts, Released
<1> DEFINE open == Append(Append(Front(relax.holes), t.primary), t.secondary)
<1>7. Front(relax.holes) \o <<t.primary, t.secondary>> = open
  BY <1>6, AppendTwo
<1>8. open \in Seq(DOMAIN Binding) /\ HolesScaled(open, w) = (f + p * w) + q * w
  <2>1. Append(Front(relax.holes), t.primary) \in Seq(DOMAIN Binding)
    BY <1>6
  <2>2. HolesScaled(Append(Front(relax.holes), t.primary), w) = f + p * w
    BY <1>3, <1>5, <1>6, HolesFacts
  <2>3. HolesScaled(open, w)
          = HolesScaled(Append(Front(relax.holes), t.primary), w) + q * w
    BY <1>5, <1>6, <2>1, HolesFacts
  <2> QED
    BY <1>6, <2>1, <2>2, <2>3
<1> HIDE DEF open
<1>9. /\ relax' \in RelaxType /\ relax'.kept = kept + e /\ relax'.photons = relax.photons
      /\ relax'.holes = open
  <2>1. relax' = [relax EXCEPT !.holes = open, !.kept = kept + e]
    BY <1>2, <1>3, <1>5, <1>7
  <2>2. kept + e \in Nat
    OBVIOUS
  <2> QED
    BY <1>6, <1>8, <2>1, <2>2 DEF RelaxType
<1>10. relax'.kept * photon.w + Scaled(relax'.photons, photon.w)
         + HolesScaled(relax'.holes, photon.w) = Relaxing + 0
  <2>1. (kept + e) * w + ph + ((f + p * w) + q * w) = (kept * w + ph + (f + b * w)) + 0
    <3>1. (kept + e) * w = kept * w + e * w /\ b * w = e * w + p * w + q * w
      BY <1>5
    <3>2. PICK i \in Nat, j \in Nat, k \in Nat, l \in Nat :
            i = kept * w /\ j = e * w /\ k = p * w /\ l = q * w
      OBVIOUS
    <3>3. (i + j) + ph + ((f + k) + l) = (i + ph + (f + (j + k + l))) + 0
      OBVIOUS
    <3> QED
      BY <3>1, <3>2, <3>3
  <2> QED
    BY <1>3, <1>4, <1>8, <1>9, <2>1
<1>11. Lost' = Lost + 0 /\ lost' \in [binding : Nat, leaked : Nat, roulette : Int]
  BY <1>1, RelaxFacts, LostKept DEF Auger, PartsTyped, TypeOK
<1> QED
  BY <1>1, <1>9, <1>10, <1>11, RelaxStep

LEMMA RelaxedInv == IInv /\ Relaxed => IInv'
<1> SUFFICES ASSUME IInv, Relaxed
             PROVE  IInv'
  OBVIOUS
<1>1. TypeOK /\ PartsTyped /\ Followable(bank)
  BY PartsAreTyped, BankFollowable DEF IInv
<1>2. /\ photon \in PhotonType /\ InTrack(photon) /\ photon.w \in Nat
      /\ relax.kept \in Nat /\ relax.photons \in Seq(Nat)
  BY <1>1 DEF IInv, Phases, TypeOK, Relaxed, Track, PhotonType
<1>3. PICK v \in Places : bank' = bank \o Secondaries(relax.photons, v)
  BY DEF Relaxed
<1>4. PICK given \in Nat, made \in Nat :
        given = relax.kept * photon.w /\ made = Scaled(relax.photons, photon.w)
  BY <1>1, <1>2 DEF PartsTyped
<1>5. Followable(bank') /\ Weighted(bank') = Weighted(bank) + made
  <2>1. /\ Followable(Secondaries(relax.photons, v))
        /\ Weighted(Secondaries(relax.photons, v)) = Scaled(relax.photons, photon.w)
    BY <1>2, SecondariesFollowable
  <2> QED
    BY <1>1, <1>3, <1>4, <2>1, BankGrows
<1>6. /\ result' \in [deposited : Nat, escaped : Nat] /\ result'.escaped = result.escaped
      /\ deposits' \in Seq(Entry) /\ electrons' \in Seq(Entry)
      /\ Listed' = Listed + given
      /\ result'.deposited - result.deposited = Listed' - Listed
  BY <1>1, <1>4, Booked DEF Relaxed
<1>7. relax' \in [holes : Seq(DOMAIN Binding), kept : Nat, photons : Seq(Nat)]
  BY DEF Relaxed, NoRelaxation
<1>8. TypeOK'
  BY <1>1, <1>5, <1>6, <1>7, NoPhotonTyped, PhotonAssumption
     DEF TypeOK, Relaxed, Track, EndTrack, Followable, caller
<1>9. Phases' /\ FairWeights'
  BY <1>5, NoPhotonTyped, BankPhases DEF Relaxed, Track, EndTrack, Flying, caller
<1>10. Held' = Held
  <2>1. Relaxing = given + made + 0
    <3>1. relax.holes = <<>> /\ phase = "relax"
      BY DEF Relaxed, Track
    <3>2. HolesScaled(relax.holes, photon.w) = 0
      BY <1>2, <3>1, HolesFacts
    <3> QED
      BY <1>4, <3>1, <3>2 DEF Relaxing, HolesScaled
  <2>2. Following = 0 /\ Following' = 0 /\ Relaxing' = 0
    BY <1>1, TrackOver DEF Relaxed, Track, EndTrack, Following
  <2>3. Relaxing' = Relaxing + (0 - given - made) /\ Following' = Following + 0
    BY <2>1, <2>2
  <2>4. Lost' = Lost + 0
    BY <1>1, LostKept DEF Relaxed, PartsTyped
  <2>5. made + 0 + (0 - given - made) + given + 0 = 0 /\ 0 - given - made \in Int
    OBVIOUS
  <2> QED
    BY <1>1, <1>5, <1>6, <2>3, <2>4, <2>5, HeldSame
<1> QED
  BY <1>6, <1>8, <1>9, <1>10, HistoryStep DEF Relaxed, Track, EndTrack, Flying

-----------------------------------------------------------------------------
(***************************************************************************)
(* The caller.                                                             *)
(***************************************************************************)
CalledType ==
  /\ deposits' \in Seq(Entry) /\ electrons' \in Seq(Entry)
  /\ outer' \in Seq(Nat)
  /\ electron' \in [e : Nat, cell : Somewhere, steps : 0..MaxSteps]
  /\ tally' \in [Somewhere -> Nat]
  /\ lost' \in [binding : Nat, leaked : Nat, roulette : Int]

\* What the caller's steps have in common.
LEMMA CallerTyped ==
  ASSUME IInv, NEW from \in {"tally", "electron"}, Calls(from),
         phase' \in {"tally", "electron", "call", "done"}, CalledType,
         phase' = "call" => deposits' = <<>> /\ electrons' = <<>>,
         phase' # "electron" => electron'.e = 0
  PROVE  /\ TypeOK' /\ Phases' /\ UNCHANGED <<mode, photon, bank>>
         /\ phase \in {"tally", "electron"}
<1>1. TypeOK /\ mode.heats /\ bank = <<>>
  BY DEF IInv, Phases, Calls
<1>2. TypeOK'
  BY <1>1 DEF TypeOK, Calls, CalledType
<1>3. Phases'
  BY <1>1 DEF Phases, Calls
<1> QED
  BY <1>2, <1>3 DEF Calls

\* What is listed, what the caller holds and what is lost keep their sum when amounts
\* only change places among them.
LEMMA CallerMoves ==
  ASSUME TypeOK, NEW d \in Int, NEW g \in Int, NEW o \in Int, NEW e \in Int,
         NEW t \in Int, NEW k \in Int, d + g + o + e + t + k = 0,
         Energies(deposits') = Energies(deposits) + d,
         Energies(electrons') = Energies(electrons) + g,
         Scaled(outer', mode'.w) = Scaled(outer, mode.w) + o,
         electron'.e = electron.e + e,
         TotalOf(tally') = TotalOf(tally) + t,
         escaped' = escaped,
         Lost' = Lost + k
  PROVE  Listed' + WithCaller' + Lost' = Listed + WithCaller + Lost
<1>1. /\ Energies(deposits) \in Int /\ Energies(electrons) \in Int
      /\ Scaled(outer, mode.w) \in Int /\ electron.e \in Int /\ TotalOf(tally) \in Int
      /\ escaped \in Int /\ Lost \in Int
  <2>1. PartsTyped
    BY PartsAreTyped
  <2>2. electron.e \in Nat /\ escaped \in Nat
    BY DEF TypeOK
  <2> QED
    BY <2>1, <2>2 DEF PartsTyped
<1>2. PICK d1 \in Int, g1 \in Int, o1 \in Int, e1 \in Int, t1 \in Int, x1 \in Int, k1 \in Int :
        /\ d1 = Energies(deposits) /\ g1 = Energies(electrons) /\ o1 = Scaled(outer, mode.w)
        /\ e1 = electron.e /\ t1 = TotalOf(tally) /\ x1 = escaped /\ k1 = Lost
  BY <1>1, Zenon
<1>3. Listed = d1 + g1 /\ WithCaller = o1 + e1 + t1 + x1
  BY <1>2 DEF Listed, WithCaller
<1>4. /\ Listed' = (d1 + d) + (g1 + g)
      /\ WithCaller' = (o1 + o) + (e1 + e) + (t1 + t) + x1
  BY <1>2 DEF Listed, WithCaller
<1>5. ((d1 + d) + (g1 + g)) + ((o1 + o) + (e1 + e) + (t1 + t) + x1) + (k1 + k)
        = (d1 + g1) + (o1 + e1 + t1 + x1) + k1
  OBVIOUS
<1> QED
  BY <1>2, <1>3, <1>4, <1>5

\* The tally of a cell grows.
Gains(c, d) == tally' = [tally EXCEPT ![c] = tally[c] + d]

LEMMA TallyGrows ==
  ASSUME TypeOK, NEW c \in Somewhere, NEW d \in Nat, Gains(c, d)
  PROVE  tally' \in [Somewhere -> Nat] /\ TotalOf(tally') = TotalOf(tally) + d
<1>1. IsFiniteSet(Somewhere)
  BY PhotonAssumption, FS_AddElement DEF Somewhere
<1>2. tally \in [Somewhere -> Nat]
  BY DEF TypeOK
<1>3. /\ tally' \in [Somewhere -> Nat] /\ tally'[c] = tally[c] + d
      /\ \A y \in Somewhere \ {c} : tally'[y] = tally[y]
  BY <1>2 DEF Gains
<1> QED
  BY <1>1, <1>2, <1>3, TotalUpdate

LEMMA TallyDepositInv == IInv /\ TallyDeposit => IInv'
<1> SUFFICES ASSUME IInv, TallyDeposit
             PROVE  IInv'
  OBVIOUS
<1>1. TypeOK /\ PartsTyped /\ Calls("tally") /\ electron.e = 0
  BY PartsAreTyped DEF IInv, TallyDeposit, Calls, Phases
<1>2. deposits \in Seq(Entry) /\ deposits # <<>> /\ Head(deposits) \in Entry
      /\ Tail(deposits) \in Seq(Entry)
  BY <1>1 DEF TypeOK, TallyDeposit
<1>3. PICK e \in Nat : e = Head(deposits).e
  BY <1>2 DEF Entry
<1>4. PICK c \in {Head(deposits).cell, Nowhere} : Gains(c, e)
  BY <1>3 DEF TallyDeposit, Gains
<1>5. c \in Somewhere
  BY <1>2, <1>4 DEF Entry, Somewhere
<1>6. tally' \in [Somewhere -> Nat] /\ TotalOf(tally') = TotalOf(tally) + e
  BY <1>1, <1>4, <1>5, TallyGrows
<1>7. CalledType
  BY <1>1, <1>2, <1>6 DEF TypeOK, TallyDeposit, CalledType
<1>8. /\ TypeOK' /\ Phases' /\ UNCHANGED <<mode, photon, bank>>
      /\ phase \in {"tally", "electron"}
  BY <1>1, <1>7, CallerTyped DEF TallyDeposit, Calls
<1>9. Listed' + WithCaller' + Lost' = Listed + WithCaller + Lost
  <2>1. Energies(deposits) = e + Energies(deposits') /\ Energies(deposits') \in Nat
    BY <1>2, <1>3, EnergiesFacts DEF TallyDeposit
  <2>2. Energies(deposits') = Energies(deposits) + (0 - e)
    BY <2>1
  <2>3. /\ Energies(electrons') = Energies(electrons) + 0
        /\ Scaled(outer', mode'.w) = Scaled(outer, mode.w) + 0
        /\ electron'.e = electron.e + 0 /\ escaped' = escaped
    <3>1. /\ electrons' = electrons /\ outer' = outer /\ mode' = mode
          /\ electron' = electron /\ escaped' = escaped
      BY DEF TallyDeposit, Calls
    <3>2. /\ Energies(electrons) \in Int /\ Scaled(outer, mode.w) \in Int
      BY <1>1 DEF PartsTyped
    <3> QED
      BY <1>1, <3>1, <3>2
  <2>4. Lost' = Lost + 0
    BY <1>1, LostKept DEF TallyDeposit, PartsTyped
  <2>5. (0 - e) + 0 + 0 + 0 + e + 0 = 0 /\ 0 - e \in Int
    OBVIOUS
  <2> QED
    BY <1>1, <1>6, <2>2, <2>3, <2>4, <2>5, CallerMoves
<1> QED
  BY <1>1, <1>8, <1>9, CallerStep DEF TallyDeposit, Calls

LEMMA TakeElectronInv == IInv /\ TakeElectron => IInv'
<1> SUFFICES ASSUME IInv, TakeElectron
             PROVE  IInv'
  OBVIOUS
<1>1. /\ TypeOK /\ PartsTyped /\ Calls("tally") /\ electron.e = 0
      /\ mode.w = 1 /\ MaxSteps \in Nat
  BY PartsAreTyped, ModeFacts, PhotonAssumption DEF IInv, TakeElectron, Calls, Phases, TypeOK
<1>2. electrons \in Seq(Entry) /\ electrons # <<>> /\ Head(electrons) \in Entry
      /\ Tail(electrons) \in Seq(Entry)
  BY <1>1 DEF TypeOK, TakeElectron
<1>3. PICK gamma \in 0..(Head(electrons).e - 1) \cup {0} :
        /\ electron' = [e |-> Head(electrons).e - gamma, cell |-> Head(electrons).cell, steps |-> 0]
        /\ outer' = IF gamma = 0 THEN outer ELSE Append(outer, gamma)
  BY DEF TakeElectron
<1>4. PICK e \in Nat : e = Head(electrons).e
  BY <1>2 DEF Entry
<1>5. gamma \in Nat /\ e - gamma \in Nat /\ Head(electrons).cell \in Somewhere
  BY <1>2, <1>3, <1>4 DEF Entry
<1>6. outer \in Seq(Nat)
  BY <1>1 DEF TypeOK
<1>7. outer' \in Seq(Nat) /\ Scaled(outer', 1) = Scaled(outer, 1) + gamma
  <2>1. Scaled(Append(outer, gamma), 1) = Scaled(outer, 1) + gamma * 1
    BY <1>5, <1>6, ScaledFacts
  <2>2. Scaled(outer, 1) \in Nat /\ gamma * 1 = gamma /\ Append(outer, gamma) \in Seq(Nat)
    BY <1>5, <1>6, ScaledFacts
  <2> QED
    BY <1>3, <1>6, <2>1, <2>2
<1>8. electron' \in [e : Nat, cell : Somewhere, steps : 0..MaxSteps] /\ electron'.e = e - gamma
  <2>1. 0 \in 0..MaxSteps
    BY <1>1
  <2> QED
    BY <1>3, <1>4, <1>5, <2>1
<1>9. CalledType
  BY <1>1, <1>2, <1>7, <1>8 DEF TypeOK, TakeElectron, CalledType
<1>10. /\ TypeOK' /\ Phases' /\ UNCHANGED <<mode, photon, bank>>
       /\ phase \in {"tally", "electron"}
  BY <1>1, <1>9, CallerTyped DEF TakeElectron, Calls
<1>11. Listed' + WithCaller' + Lost' = Listed + WithCaller + Lost
  <2>1. Energies(electrons) = e + Energies(electrons') /\ Energies(electrons') \in Nat
    BY <1>2, <1>4, EnergiesFacts DEF TakeElectron
  <2>2. Energies(electrons') = Energies(electrons) + (0 - e)
    BY <2>1
  <2>3. Scaled(outer', mode'.w) = Scaled(outer, mode.w) + gamma
    BY <1>1, <1>7 DEF TakeElectron, Calls
  <2>4. electron'.e = electron.e + (e - gamma)
    BY <1>1, <1>5, <1>8
  <2>5. /\ Energies(deposits') = Energies(deposits) + 0
        /\ TotalOf(tally') = TotalOf(tally) + 0 /\ escaped' = escaped
    BY <1>1 DEF TakeElectron, Calls, PartsTyped
  <2>6. Lost' = Lost + 0
    BY <1>1, LostKept DEF TakeElectron, PartsTyped
  <2>7. 0 + (0 - e) + gamma + (e - gamma) + 0 + 0 = 0 /\ 0 - e \in Int /\ e - gamma \in Int /\ gamma \in Int
    BY <1>5
  <2> QED
    BY <1>1, <2>2, <2>3, <2>4, <2>5, <2>6, <2>7, CallerMoves
<1> QED
  BY <1>1, <1>10, <1>11, CallerStep DEF TakeElectron, Calls

LEMMA HistoryTalliedInv == IInv /\ HistoryTallied => IInv'
<1> SUFFICES ASSUME IInv, HistoryTallied
             PROVE  IInv'
  OBVIOUS
<1>1. TypeOK /\ Calls("tally") /\ electron.e = 0 /\ phase' \in {"tally", "electron", "call", "done"}
  BY DEF IInv, HistoryTallied, Calls, Phases
<1>2. CalledType
  BY <1>1 DEF TypeOK, HistoryTallied, CalledType
<1>3. /\ TypeOK' /\ Phases' /\ UNCHANGED <<mode, photon, bank>>
      /\ phase \in {"tally", "electron"}
  BY <1>1, <1>2, CallerTyped DEF HistoryTallied, Calls
<1>4. Listed' = Listed /\ WithCaller' = WithCaller /\ Lost' = Lost
  BY ListedKept, LostKept DEF HistoryTallied, Calls, WithCaller
<1> QED
  BY <1>1, <1>3, <1>4, CallerStep

\* An electron leaves d in its cell, and what it keeps of the rest is e.
LEMMA ElectronLoses ==
  ASSUME IInv, Calls("electron"), UNCHANGED <<deposits, electrons, outer>>,
         NEW d \in Nat, Gains(electron.cell, d),
         electron' \in [e : Nat, cell : Somewhere, steps : 0..MaxSteps],
         \/ phase' = "tally" /\ electron'.e = 0
         \/ phase' = "electron",
         lost' \in [binding : Nat, leaked : Nat, roulette : Int],
         NEW e \in Nat, e = electron'.e,
         NEW k \in Nat, Lost' = Lost + k, electron.e = d + e + k
  PROVE  IInv'
<1>1. TypeOK /\ PartsTyped /\ electron.cell \in Somewhere
  BY PartsAreTyped DEF IInv, TypeOK
<1>2. tally' \in [Somewhere -> Nat] /\ TotalOf(tally') = TotalOf(tally) + d
  BY <1>1, TallyGrows
<1>3. CalledType
  BY <1>1, <1>2 DEF TypeOK, CalledType
<1>4. /\ TypeOK' /\ Phases' /\ UNCHANGED <<mode, photon, bank>>
      /\ phase \in {"tally", "electron"}
  BY <1>3, CallerTyped
<1>5. Listed' + WithCaller' + Lost' = Listed + WithCaller + Lost
  <2>1. PICK j \in Int : j = 0 - d - k
    OBVIOUS
  <2>4. electron'.e = electron.e + j
    <3>1. e = (d + e + k) + j
      BY <2>1
    <3> QED
      BY <3>1
  <2>2. /\ Energies(deposits') = Energies(deposits) + 0
        /\ Energies(electrons') = Energies(electrons) + 0
        /\ Scaled(outer', mode'.w) = Scaled(outer, mode.w) + 0 /\ escaped' = escaped
    BY <1>1 DEF Calls, PartsTyped
  <2>3. 0 + 0 + 0 + j + d + k = 0 /\ d \in Int /\ k \in Int /\ j \in Int /\ 0 \in Int
    BY <2>1
  <2>5. TotalOf(tally') = TotalOf(tally) + d /\ Lost' = Lost + k
    BY <1>2
  <2> QED
    BY <1>1, <2>2, <2>3, <2>4, <2>5, CallerMoves
<1> QED
  BY <1>4, <1>5, CallerStep

LEMMA StopTyped ==
  NoElectron \in [e : Nat, cell : Somewhere, steps : 0..MaxSteps] /\ NoElectron.e = 0
BY PhotonAssumption DEF NoElectron, Somewhere

LEMMA ElectronStopsInv == IInv /\ ElectronStops => IInv'
<1> SUFFICES ASSUME IInv, ElectronStops
             PROVE  IInv'
  OBVIOUS
<1>1. TypeOK /\ PartsTyped
  BY PartsAreTyped DEF IInv
<1>2. PICK d \in Nat : d = electron.e
  BY <1>1 DEF TypeOK
<1>3. /\ Gains(electron.cell, d)
      /\ electron' = NoElectron /\ phase' = "tally"
  BY <1>2 DEF ElectronStops, Stop, Gains
<1>4. Lost' = Lost + 0 /\ lost' \in [binding : Nat, leaked : Nat, roulette : Int]
  BY <1>1, LostKept DEF ElectronStops, PartsTyped, TypeOK
<1>5. electron.e = d + 0 + 0 /\ 0 \in Nat
  BY <1>2
<1> QED
  BY <1>3, <1>4, <1>5, StopTyped, ElectronLoses DEF ElectronStops, Walk

LEMMA ElectronStepsInv == IInv /\ ElectronSteps => IInv'
<1> SUFFICES ASSUME IInv, ElectronSteps
             PROVE  IInv'
  OBVIOUS
<1>1. TypeOK /\ PartsTyped
  BY PartsAreTyped DEF IInv
<1>2. PICK all \in Nat : all = electron.e
  BY <1>1 DEF TypeOK
<1>3. PICK d \in 0..electron.e, c \in Cells :
        IF electron.e - d <= StopsAt THEN Stop(electron.e)
        ELSE /\ tally' = [tally EXCEPT ![electron.cell] = tally[electron.cell] + d]
             /\ electron' = [e |-> electron.e - d, cell |-> c, steps |-> electron.steps + 1]
             /\ UNCHANGED phase
  BY DEF ElectronSteps
<1>4. Lost' = Lost + 0 /\ lost' \in [binding : Nat, leaked : Nat, roulette : Int]
  BY <1>1, LostKept DEF ElectronSteps, PartsTyped, TypeOK
<1>5. d \in Nat /\ all - d \in Nat /\ c \in Somewhere
  BY <1>2, <1>3 DEF Somewhere
<1>6. CASE electron.e - d <= StopsAt
  <2>1. /\ Gains(electron.cell, all)
        /\ electron' = NoElectron /\ phase' = "tally"
    BY <1>2, <1>3, <1>6 DEF Stop, Gains
  <2>2. electron.e = all + 0 + 0 /\ 0 \in Nat
    BY <1>2
  <2> QED
    BY <1>4, <2>1, <2>2, StopTyped, ElectronLoses DEF ElectronSteps, Walk
<1>7. CASE ~ (electron.e - d <= StopsAt)
  <2>1. /\ Gains(electron.cell, d)
        /\ electron' = [e |-> all - d, cell |-> c, steps |-> electron.steps + 1]
        /\ phase' = "electron"
    BY <1>2, <1>3, <1>7 DEF ElectronSteps, Walk, Calls, Gains
  <2>2. electron.steps + 1 \in 0..MaxSteps
    <3>1. MaxSteps \in Nat /\ electron.steps \in 0..MaxSteps
      BY <1>1, PhotonAssumption DEF TypeOK
    <3>2. electron.steps # MaxSteps
      BY DEF ElectronSteps, Slow
    <3> QED
      BY <3>1, <3>2
  <2>3. electron' \in [e : Nat, cell : Somewhere, steps : 0..MaxSteps] /\ electron'.e = all - d
    BY <1>5, <2>1, <2>2
  <2>4. electron.e = d + (all - d) + 0 /\ 0 \in Nat
    BY <1>2, <1>5
  <2> QED
    BY <1>4, <1>5, <2>1, <2>3, <2>4, ElectronLoses DEF ElectronSteps, Walk
<1> QED
  BY <1>6, <1>7

LEMMA ElectronLeaksInv == IInv /\ ElectronLeaks => IInv'
<1> SUFFICES ASSUME IInv, ElectronLeaks
             PROVE  IInv'
  OBVIOUS
<1>1. TypeOK /\ PartsTyped
  BY PartsAreTyped DEF IInv
<1>2. PICK all \in Nat : all = electron.e
  BY <1>1 DEF TypeOK
<1>3. PICK d \in 0..(electron.e - StopsAt - 1) :
        /\ Stop(d)
        /\ lost' = [lost EXCEPT !.leaked = lost.leaked + electron.e - d]
  BY DEF ElectronLeaks
<1>4. d \in Nat /\ d <= all
  BY <1>2, <1>3, PhotonAssumption
<1>5. PICK k \in Nat : k = all - d
  BY <1>4
<1>6. /\ lost' \in [binding : Nat, leaked : Nat, roulette : Int] /\ Lost' = Lost + k
  <2>1. lost \in [binding : Nat, leaked : Nat, roulette : Int]
    BY <1>1 DEF TypeOK
  <2>2. PICK a \in Nat, b \in Nat, c \in Int :
          a = lost.binding /\ b = lost.leaked /\ c = lost.roulette
    BY <2>1
  <2>3. lost' = [lost EXCEPT !.leaked = b + k]
    BY <1>2, <1>3, <1>4, <1>5, <2>2
  <2>4. /\ lost' \in [binding : Nat, leaked : Nat, roulette : Int]
        /\ lost'.binding = a /\ lost'.leaked = b + k /\ lost'.roulette = c
    BY <2>1, <2>2, <2>3
  <2>5. Lost = a + b + c /\ Lost' = a + (b + k) + c
    BY <2>2, <2>4 DEF Lost
  <2> QED
    BY <2>4, <2>5
<1>7. electron.e = d + 0 + k /\ 0 \in Nat
  BY <1>2, <1>4, <1>5
<1>8. /\ Gains(electron.cell, d)
      /\ electron' = NoElectron /\ phase' = "tally"
  BY <1>3 DEF Stop, Gains
<1> QED
  BY <1>4, <1>6, <1>7, <1>8, StopTyped, ElectronLoses DEF ElectronLeaks, Walk

-----------------------------------------------------------------------------
(***************************************************************************)
(* Between the caller and the history.                                     *)
(***************************************************************************)
\* What one side hands over the other receives.
LEMMA HandsOver ==
  ASSUME IInv, TypeOK', UNCHANGED mode, NEW x \in Int,
         InFlight' = InFlight + x, Listed' = Listed, WithCaller' = WithCaller + (0 - x),
         Lost' = Lost
  PROVE  EnergyBalance'
<1>1. PartsTyped
  BY PartsAreTyped DEF IInv
<1>2. PICK a \in Int, b \in Int, c \in Int, d \in Int :
        a = InFlight /\ b = Listed /\ c = WithCaller /\ d = Lost
  BY <1>1 DEF PartsTyped
<1>3. InFlight + Listed + WithCaller + Lost = a + b + c + d
  BY <1>2
<1>4. InFlight' + Listed' + WithCaller' + Lost' = (a + x) + b + (c + (0 - x)) + d
  BY <1>2
<1>5. (a + x) + b + (c + (0 - x)) + d = a + b + c + d
  OBVIOUS
<1> QED
  BY <1>3, <1>4, <1>5 DEF IInv, EnergyBalance

LEMMA CallInv == IInv /\ Call => IInv'
<1> SUFFICES ASSUME IInv, Call
             PROVE  IInv'
  OBVIOUS
<1>1. /\ TypeOK /\ PartsTyped /\ bank = <<>> /\ deposits = <<>> /\ electrons = <<>>
      /\ electron.e = 0
  BY PartsAreTyped DEF IInv, Phases, Call
<1>2. outer \in Seq(Nat) /\ outer # <<>>
  BY <1>1 DEF TypeOK, Call
<1>3. outer' \in Seq(Nat) /\ Last(outer) \in Nat
  BY <1>2, FrontLast DEF Call
<1>4. mode \in Modes /\ mode.w \in Weights /\ mode.w \in Nat \ {0}
  BY <1>1, ModeFacts DEF TypeOK
<1>5. PICK x \in Nat : x = Last(outer) * mode.w
  BY <1>3, <1>4
<1>6. /\ Followable(bank') /\ result' \in [deposited : Nat, escaped : Nat]
      /\ result'.deposited = 0 /\ Weighted(bank') + result'.escaped = x
  <2>1. CASE \E c \in Cells, v \in Places :
               /\ bank' = <<Photon(Last(outer), mode.w, mode.w, c, v)>>
               /\ result' = NoResult
    <3>1. PICK c \in Cells, v \in Places :
            /\ bank' = <<Photon(Last(outer), mode.w, mode.w, c, v)>>
            /\ result' = NoResult
      BY <2>1
    <3>2. v \in Voxels \cup {Nowhere}
      BY <1>4, ModeFacts
    <3> DEFINE p == Photon(Last(outer), mode.w, mode.w, c, v)
    <3>3. /\ p \in PhotonType /\ p.e = Last(outer) /\ p.w = mode.w /\ p.due = mode.w
          /\ p.voxel = v
      BY <1>3, <1>4, <3>2 DEF Photon, PhotonType, Somewhere
    <3>4. bank' = <<p>>
      BY <3>1
    <3> HIDE DEF p
    <3>5. Weighted(bank') = x
      BY <1>5, <3>3, <3>4, WeightedFacts
    <3>6. Followable(bank')
      BY <1>4, <3>3, <3>4 DEF Followable, InTrack
    <3> QED
      BY <3>1, <3>5, <3>6 DEF NoResult
  <2>2. CASE /\ bank' = <<>>
             /\ result' = [NoResult EXCEPT !.escaped = Last(outer) * mode.w]
    <3>1. Weighted(bank') = 0 /\ Followable(bank')
      BY <2>2, WeightedFacts DEF Followable
    <3> QED
      BY <1>5, <2>2, <3>1 DEF NoResult
  <2> QED
    BY <2>1, <2>2 DEF Call
<1>7. TypeOK'
  BY <1>1, <1>3, <1>6 DEF TypeOK, Call, Followable
<1>8. Phases' /\ FairWeights'
  <2>1. Places' = Places
    BY DEF Places, Call
  <2> QED
    BY <1>1, <1>6, <2>1 DEF IInv, FairWeights, Phases, Call, Followable, InTrack
<1>9. Listed' = Listed /\ Listed = 0 /\ Lost' = Lost
  BY <1>1, EnergiesFacts, LostKept DEF Listed, Call
<1>10. InFlight' = InFlight + x
  <2>1. InFlight = 0
    BY <1>1, WeightedFacts DEF InFlight, Following, Relaxing, Escaping, Call
  <2>2. InFlight' = Weighted(bank') + 0 + 0 + result'.escaped
    BY DEF InFlight, Following, Relaxing, Escaping, Call
  <2>3. PICK b \in Nat, r \in Nat : b = Weighted(bank') /\ r = result'.escaped /\ b + r = x
    BY <1>6, WeightedFacts DEF Followable
  <2>4. InFlight' = b + 0 + 0 + r
    BY <2>2, <2>3
  <2> QED
    BY <2>1, <2>3, <2>4
<1>11. WithCaller' = WithCaller + (0 - x)
  <2>1. Scaled(outer, mode.w) = Scaled(outer', mode.w) + x
    BY <1>2, <1>4, <1>5, ScaledFacts DEF Call
  <2>2. PICK o \in Int, t \in Int, y \in Int :
          o = Scaled(outer', mode.w) /\ t = TotalOf(tally) /\ y = escaped
    <3>1. Scaled(outer', mode.w) \in Nat
      BY <1>3, <1>4, ScaledFacts
    <3>2. TotalOf(tally) \in Nat /\ escaped \in Nat
      BY <1>1 DEF PartsTyped, TypeOK
    <3> QED
      BY <3>1, <3>2
  <2>3. WithCaller = (o + x) + 0 + t + y
    BY <1>1, <2>1, <2>2 DEF WithCaller
  <2>4. WithCaller' = o + 0 + t + y
    BY <1>1, <2>2 DEF WithCaller, Call
  <2> QED
    BY <2>3, <2>4
<1>12. EnergyBalance'
  BY <1>7, <1>9, <1>10, <1>11, HandsOver DEF Call
<1>13. LedgersAgree'
  BY <1>6, <1>9 DEF LedgersAgree
<1> QED
  BY <1>7, <1>8, <1>12, <1>13 DEF IInv

LEMMA ReturnInv == IInv /\ Return => IInv'
<1> SUFFICES ASSUME IInv, Return
             PROVE  IInv'
  OBVIOUS
<1>1. /\ TypeOK /\ PartsTyped /\ bank = <<>> /\ electron.e = 0
      /\ result.escaped \in Nat /\ escaped \in Nat
  BY PartsAreTyped DEF IInv, Phases, Return, TypeOK
<1>2. mode.heats \in BOOLEAN
  BY <1>1, ModeFacts DEF TypeOK
<1>3. TypeOK'
  BY <1>1 DEF TypeOK, Return, ledgers
<1>4. Phases' /\ FairWeights'
  BY <1>1, <1>2 DEF IInv, Phases, FairWeights, Return
<1>5. Listed' = Listed /\ Lost' = Lost
  BY ListedKept, LostKept DEF Return, ledgers
<1>6. PICK x \in Nat : x = result.escaped
  BY <1>1
<1>7. InFlight' = InFlight + (0 - x)
  <2>1. InFlight = 0 + 0 + 0 + x
    BY <1>1, <1>6, WeightedFacts DEF InFlight, Following, Relaxing, Escaping, Return
  <2>2. InFlight' = 0 + 0 + 0 + 0
    BY <1>1, WeightedFacts DEF InFlight, Following, Relaxing, Escaping, Return
  <2> QED
    BY <2>1, <2>2
<1>8. WithCaller' = WithCaller + (0 - (0 - x))
  <2>1. PICK o \in Int, t \in Int, y \in Int :
          o = Scaled(outer, mode.w) /\ t = TotalOf(tally) /\ y = escaped
    BY <1>1 DEF PartsTyped
  <2>2. WithCaller = o + 0 + t + y
    BY <1>1, <2>1 DEF WithCaller
  <2>3. WithCaller' = o + 0 + t + (y + x)
    BY <1>1, <1>6, <2>1 DEF WithCaller, Return
  <2> QED
    BY <2>2, <2>3
<1>9. EnergyBalance'
  <2>1. 0 - x \in Int
    OBVIOUS
  <2> QED
    BY <1>3, <1>5, <1>7, <1>8, <2>1, HandsOver DEF Return
<1>10. LedgersAgree'
  BY <1>5 DEF IInv, LedgersAgree, Return, ledgers
<1> QED
  BY <1>3, <1>4, <1>9, <1>10 DEF IInv

-----------------------------------------------------------------------------
(***************************************************************************)
(* The invariant holds, and with it the properties.                        *)
(***************************************************************************)
LEMMA StutterInv == IInv /\ UNCHANGED vars => IInv'
<1> SUFFICES ASSUME IInv, UNCHANGED vars
             PROVE  IInv'
  OBVIOUS
<1>1. /\ mode' = mode /\ phase' = phase /\ photon' = photon /\ events' = events
      /\ voids' = voids /\ games' = games /\ bank' = bank /\ relax' = relax
      /\ result' = result /\ deposits' = deposits /\ electrons' = electrons
      /\ outer' = outer /\ electron' = electron /\ tally' = tally
      /\ escaped' = escaped /\ lost' = lost
  BY DEF vars, ledgers, caller
<1>2. TypeOK' /\ Phases' /\ FairWeights'
  BY <1>1 DEF IInv, TypeOK, Phases, FairWeights, InTrack, Places
<1>3. InFlight' = InFlight /\ Listed' = Listed /\ WithCaller' = WithCaller /\ Lost' = Lost
  BY <1>1 DEF InFlight, Following, Carried, Relaxing, Escaping, Listed, WithCaller, Lost
<1>4. LedgersAgree' /\ EnergyBalance'
  BY <1>1, <1>3 DEF IInv, LedgersAgree, EnergyBalance
<1> QED
  BY <1>2, <1>4 DEF IInv

LEMMA StepInv == IInv /\ [Next]_vars => IInv'
<1> SUFFICES ASSUME IInv, [Next]_vars
             PROVE  IInv'
  OBVIOUS
<1>1. CASE Call \/ NextPhoton \/ Return \/ Absorb
  BY <1>1, CallInv, NextPhotonInv, ReturnInv, AbsorbInv
<1>2. CASE Windowing
  BY <1>2, SplitInv, RouletteInv, InWindowInv DEF Windowing
<1>3. CASE Flight
  BY <1>3, FlightInv
<1>4. CASE Collision
  BY <1>4, CoherentInv, IncoherentInv, PairInv, PhotoelectricInv DEF Collision
<1>5. CASE Cascade
  BY <1>5, UnlistedInv, PersistsInv, FluorescesInv, AugerInv, RelaxedInv DEF Cascade
<1>6. CASE Electron
  BY <1>6, TallyDepositInv, TakeElectronInv, HistoryTalliedInv, ElectronStopsInv,
     ElectronStepsInv, ElectronLeaksInv DEF Electron
<1>7. CASE UNCHANGED vars
  BY <1>7, StutterInv
<1> QED
  BY <1>1, <1>2, <1>3, <1>4, <1>5, <1>6, <1>7 DEF Next

LEMMA InvHolds == Spec => []IInv
BY InitInv, StepInv, PTL DEF Spec

\* A history's lists, its bank, the holes of a cascade and the caller's tally keep their
\* types: energies are never negative, and weights are never zero.
THEOREM TypeCorrect == Spec => []TypeOK
<1>1. IInv => TypeOK
  BY DEF IInv
<1> QED
  BY <1>1, InvHolds, PTL

\* Every eV of the source is on its way, waits for the caller, is tallied or has left in
\* a named way, whatever the atom, the window, the limits and the chain of reactions
\* (transport_one, transport_one_csg, photoelectric_absorb, electron.rs).
THEOREM EnergyBalanced == Spec => []EnergyBalance
<1>1. IInv => EnergyBalance
  BY DEF IInv
<1> QED
  BY <1>1, InvHolds, PTL

\* The sum and the lists of HistoryResult agree whenever either is read.
THEOREM LedgersEqual == Spec => []LedgersAgree
<1>1. IInv => LedgersAgree
  BY DEF IInv
<1> QED
  BY <1>1, InvHolds, PTL

\* Any sequence of splits and roulettes leaves every photon at its expected weight.
THEOREM WeightsFair == Spec => []FairWeights
<1>1. IInv => FairWeights
  BY DEF IInv
<1> QED
  BY <1>1, InvHolds, PTL
=============================================================================
