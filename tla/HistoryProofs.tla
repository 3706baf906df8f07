--------------------------- MODULE HistoryProofs ----------------------------
(***************************************************************************)
(* Theorems about one neutron history, for every set of configurations     *)
(* and every limit on steps, void steps and splits.                        *)
(***************************************************************************)
EXTENDS History, SequenceTheorems, TLAPS

-----------------------------------------------------------------------------
\* Division of weights.
LEMMA DivNat ==
  ASSUME NEW a \in Nat, NEW b \in Nat \ {0}
  PROVE  a \div b \in Nat
  OBVIOUS

LEMMA DivPositive ==
  ASSUME NEW a \in Nat, NEW b \in Nat \ {0}, b <= a
  PROVE  a \div b \in Nat \ {0}
  OBVIOUS

LEMMA DivExact ==
  ASSUME NEW a \in Nat \ {0}, NEW b \in Nat
  PROVE  (a * b) \div a = b
  OBVIOUS

LEMMA CeilBound ==
  ASSUME NEW a \in Nat \ {0}, NEW b \in Nat \ {0}
  PROVE  (a + b - 1) \div b <= a
  OBVIOUS

-----------------------------------------------------------------------------
(***************************************************************************)
(* The invariant.                                                          *)
(***************************************************************************)
Neutrons == [w : Nat \ {0}, due : Nat, alive : BOOLEAN]

Tallies == [leakage : Nat, absorptions : Nat, fissions : Nat]

Fates == [emitted : Nat, split : Nat, rouletted : Nat, dropped : Nat, implicit : Nat]

\* The ones that wait are neutrons to be followed.
Waiting(s) == s \in Seq(Neutrons) /\ \A i \in 1..Len(s) : s[i].alive

Typed ==
  /\ mode \in Modes
  /\ particle \in Neutrons
  /\ Waiting(pending)
  /\ events \in 0..MaxEvents
  /\ voids \in 0..(MaxVoid + 1)
  /\ particle.alive => voids <= MaxVoid
  /\ result \in Tallies
  /\ fate \in Fates

Alive(p) == IF p.alive THEN 1 ELSE 0

\* The neutron, if alive, weighs what a game without bias gives it.
Fair(p) == p.alive => p.w = p.due

AllFair(s) == \A i \in 1..Len(s) : Fair(s[i])

\* Where no reaction multiplies.
FairHistory == ~ mode.multiplies => Fair(particle) /\ AllFair(pending)

IInv == Typed /\ Accounted /\ FairHistory

-----------------------------------------------------------------------------
(***************************************************************************)
(* What the weight window does to a neutron.                               *)
(***************************************************************************)
LEMMA WindowSizes ==
  ASSUME mode \in Modes, Window # None
  PROVE  /\ Window.lo \in Nat \ {0} /\ Window.hi \in Nat \ {0} /\ Window.survive \in Nat \ {0}
         /\ 2 <= Window.survive /\ Window.survive < Window.hi
  BY HistoryAssumption DEF Window

LEMMA SplitsBound ==
  ASSUME mode \in Modes, Window # None, NEW w \in Nat \ {0}, w > Window.hi
  PROVE  Splits(w) \in Nat \ {0} /\ 2 <= Splits(w) /\ Splits(w) <= w
<1> DEFINE c == (w + Window.survive - 1) \div Window.survive
<1>1. /\ Window.survive \in Nat \ {0} /\ 2 <= Window.survive
      /\ Window.hi \in Nat /\ Window.survive < Window.hi
  BY WindowSizes
<1>2. c \in Nat
  BY <1>1, DivNat
<1>3. c <= w
  BY <1>1, CeilBound
<1>4. Splits(w) = Clamp(c, 2, MaxSplit)
  BY DEF Splits
<1>5. 2 <= w
  BY <1>1
<1> HIDE DEF c
<1> QED
  BY <1>2, <1>3, <1>4, <1>5, HistoryAssumption DEF Clamp

\* What may come of neutron p: it stays a neutron, the copies are neutrons, and either
\* it lives on as before or it was killed; if p was fair, all are.
Good(p, o) ==
  /\ o.p \in Neutrons
  /\ Waiting(o.copies)
  /\ o.killed \in BOOLEAN
  /\ Alive(p) = Alive(o.p) + IF o.killed THEN 1 ELSE 0
  /\ Fair(p) => Fair(o.p) /\ AllFair(o.copies)
  /\ o.p.alive => p.alive

LEMMA NothingGood ==
  ASSUME NEW p \in Neutrons
  PROVE  Good(p, Outcome(p, <<>>, FALSE))
  BY DEF Good, Outcome, Waiting, AllFair, Alive, Neutrons

LEMMA SplitGood ==
  ASSUME mode \in Modes, Window # None, NEW p \in Neutrons, p.alive, p.w > Window.hi
  PROVE  Good(p, Split(p))
<1> DEFINE n == Splits(p.w)
           q == [p EXCEPT !.w = @ \div n, !.due = @ \div n]
           copies == [i \in 1..(n - 1) |-> q]
<1>1. p.w \in Nat \ {0} /\ p.due \in Nat
  BY DEF Neutrons
<1>2. n \in Nat \ {0} /\ 2 <= n /\ n <= p.w
  BY <1>1, SplitsBound
<1>3. p.w \div n \in Nat \ {0} /\ p.due \div n \in Nat
  BY <1>1, <1>2, DivNat, DivPositive
<1>4. q \in Neutrons /\ q.alive /\ q.w = p.w \div n /\ q.due = p.due \div n
  BY <1>1, <1>3 DEF Neutrons
<1>5. n - 1 \in Nat
  BY <1>2
<1>6. Split(p) = Outcome(q, copies, FALSE)
  BY DEF Split
<1> HIDE DEF n, q
<1>7. copies \in Seq(Neutrons) /\ Len(copies) = n - 1 /\ \A i \in 1..(n - 1) : copies[i] = q
  BY <1>4, <1>5
<1> HIDE DEF copies
<1>8. Waiting(copies)
  BY <1>4, <1>7 DEF Waiting
<1>9. Fair(p) => Fair(q) /\ AllFair(copies)
  BY <1>4, <1>7 DEF Fair, AllFair
<1>10. Outcome(q, copies, FALSE).p = q /\ Outcome(q, copies, FALSE).copies = copies
       /\ Outcome(q, copies, FALSE).killed = FALSE
  BY DEF Outcome
<1>11. Alive(p) = 1 /\ Alive(q) = 1
  BY <1>4 DEF Alive
<1>12. Good(p, Outcome(q, copies, FALSE))
  <2> DEFINE o == Outcome(q, copies, FALSE)
  <2>1. o.p = q /\ o.copies = copies /\ o.killed = FALSE
    BY <1>10
  <2> HIDE DEF o
  <2>2. o.p \in Neutrons /\ Waiting(o.copies) /\ o.killed \in BOOLEAN
    BY <1>4, <1>8, <2>1
  <2>3. Alive(p) = Alive(o.p) + IF o.killed THEN 1 ELSE 0
    BY <1>11, <2>1
  <2>4. Fair(p) => Fair(o.p) /\ AllFair(o.copies)
    BY <1>9, <2>1
  <2>5. Good(p, o)
    BY <2>2, <2>3, <2>4 DEF Good
  <2> QED
    BY <2>5 DEF o
<1> QED
  BY <1>6, <1>12

LEMMA RouletteGood ==
  ASSUME NEW p \in Neutrons, p.alive, NEW s \in Nat \ {0}, NEW o \in Roulette(p, s)
  PROVE  Good(p, o) /\ o.copies = <<>>
<1> DEFINE q == [p EXCEPT !.w = s, !.due = (@ * s) \div p.w]
<1>1. p.w \in Nat \ {0} /\ p.due \in Nat
  BY DEF Neutrons
<1>2. p.due * s \in Nat
  BY <1>1
<1>3. (p.due * s) \div p.w \in Nat
  BY <1>1, <1>2, DivNat
<1>4. q \in Neutrons /\ q.alive /\ q.w = s /\ q.due = (p.due * s) \div p.w
  BY <1>1, <1>3 DEF Neutrons
<1>5. p.w = p.due => q.due = s
  BY <1>1, <1>4, DivExact
<1>6. Dead(p) \in Neutrons /\ ~ Dead(p).alive
  BY DEF Neutrons, Dead
<1>7. o = Outcome(q, <<>>, FALSE) \/ o = Outcome(Dead(p), <<>>, TRUE)
  BY DEF Roulette
<1> HIDE DEF q
<1>8. CASE o = Outcome(q, <<>>, FALSE)
  BY <1>4, <1>5, <1>8 DEF Good, Outcome, Waiting, AllFair, Fair, Alive
<1>9. CASE o = Outcome(Dead(p), <<>>, TRUE)
  BY <1>6, <1>9 DEF Good, Outcome, Waiting, AllFair, Fair, Alive
<1> QED
  BY <1>7, <1>8, <1>9

LEMMA WindowGood ==
  ASSUME mode \in Modes, NEW p \in Neutrons, NEW o \in WindowOutcomes(p)
  PROVE  Good(p, o)
<1>1. CASE o = Outcome(p, <<>>, FALSE)
  BY <1>1, NothingGood
<1>2. CASE o # Outcome(p, <<>>, FALSE)
  <2>1. Window # None /\ p.alive
    BY <1>2 DEF WindowOutcomes
  <2>2. \/ p.w > Window.hi /\ o = Split(p)
        \/ o \in Roulette(p, Window.survive)
    BY <1>2, <2>1 DEF WindowOutcomes
  <2>3. Window.survive \in Nat \ {0}
    BY <2>1, WindowSizes
  <2> QED
    BY <2>1, <2>2, <2>3, SplitGood, RouletteGood
<1> QED
  BY <1>1, <1>2

-----------------------------------------------------------------------------
(***************************************************************************)
(* The end of a step: the neutron p, the stack pend and the fates f become *)
(* those after the window, or stay.                                        *)
(***************************************************************************)
LEMMA WaitingConcat ==
  ASSUME NEW s, Waiting(s), NEW t, Waiting(t)
  PROVE  /\ Waiting(s \o t)
         /\ Len(s \o t) = Len(s) + Len(t)
         /\ AllFair(s) /\ AllFair(t) => AllFair(s \o t)
<1>1. s \in Seq(Neutrons) /\ t \in Seq(Neutrons)
  BY DEF Waiting
<1>2. Len(s) \in Nat /\ Len(t) \in Nat
  BY <1>1
<1>3. /\ s \o t \in Seq(Neutrons)
      /\ Len(s \o t) = Len(s) + Len(t)
      /\ \A i \in 1..(Len(s) + Len(t)) :
           (s \o t)[i] = IF i <= Len(s) THEN s[i] ELSE t[i - Len(s)]
  BY <1>1, ConcatProperties
<1>4. \A i \in 1..Len(s \o t) : \/ i \in 1..Len(s) /\ (s \o t)[i] = s[i]
                                \/ i - Len(s) \in 1..Len(t) /\ (s \o t)[i] = t[i - Len(s)]
  BY <1>2, <1>3
<1> QED
  BY <1>3, <1>4 DEF Waiting, AllFair

\* After the step: types, nobody lost, fairness kept.
After(p, s, f) ==
  /\ particle' \in Neutrons /\ Waiting(pending') /\ fate' \in Fates
  /\ particle'.alive => p.alive
  /\ fate'.emitted = f.emitted /\ fate'.dropped = f.dropped
  /\ fate'.implicit = f.implicit
  /\ Alive(p) + Len(s) + f.rouletted + fate'.split
       = Alive(particle') + Len(pending') + fate'.rouletted + f.split
  /\ Fair(p) /\ AllFair(s) => Fair(particle') /\ AllFair(pending')

LEMMA WindowAfter ==
  ASSUME mode \in Modes, NEW p \in Neutrons, NEW s, Waiting(s), NEW f \in Fates,
         ApplyWindow(p, s, f)
  PROVE  After(p, s, f)
<1>1. PICK o \in WindowOutcomes(p) :
        /\ particle' = o.p
        /\ pending' = s \o o.copies
        /\ fate' = [f EXCEPT !.split = @ + Len(o.copies),
                             !.rouletted = @ + IF o.killed THEN 1 ELSE 0]
  BY DEF ApplyWindow
<1>2. Good(p, o)
  BY WindowGood
<1>3. Waiting(o.copies) /\ o.killed \in BOOLEAN
  BY <1>2 DEF Good
<1>4. Len(o.copies) \in Nat /\ Len(s) \in Nat
  BY <1>3 DEF Waiting
<1>5. /\ fate' \in Fates
      /\ fate'.emitted = f.emitted /\ fate'.dropped = f.dropped
      /\ fate'.implicit = f.implicit
      /\ fate'.split = f.split + Len(o.copies)
      /\ fate'.rouletted = f.rouletted + IF o.killed THEN 1 ELSE 0
  <2> DEFINE k == Len(o.copies)
             r == IF o.killed THEN 1 ELSE 0
  <2>1. k \in Nat /\ r \in Nat
    BY <1>3, <1>4
  <2>2. fate' = [f EXCEPT !.split = @ + k, !.rouletted = @ + r]
    BY <1>1
  <2> HIDE DEF k, r
  <2>3. f.split + k \in Nat /\ f.rouletted + r \in Nat
    BY <2>1 DEF Fates
  <2>4. fate' \in Fates /\ fate'.emitted = f.emitted /\ fate'.dropped = f.dropped
        /\ fate'.implicit = f.implicit
        /\ fate'.split = f.split + k /\ fate'.rouletted = f.rouletted + r
    BY <2>2, <2>3, Zenon DEF Fates
  <2> QED
    BY <2>4 DEF k, r
<1>6. /\ Waiting(pending') /\ Len(pending') = Len(s) + Len(o.copies)
      /\ AllFair(s) /\ AllFair(o.copies) => AllFair(pending')
  BY <1>1, <1>3, WaitingConcat
<1>7. /\ Alive(p) = Alive(particle') + IF o.killed THEN 1 ELSE 0
      /\ particle' \in Neutrons /\ particle'.alive => p.alive
  BY <1>1, <1>2 DEF Good
<1>8. Alive(p) + Len(s) + f.rouletted + fate'.split
        = Alive(particle') + Len(pending') + fate'.rouletted + f.split
  <2> DEFINE r == IF o.killed THEN 1 ELSE 0
             a == Alive(p)
             b == Alive(particle')
             k == Len(o.copies)
             m == Len(s)
             l == Len(pending')
  <2>1. r \in Nat /\ a \in Nat /\ b \in Nat /\ k \in Nat /\ m \in Nat
    BY <1>4 DEF Alive
  <2>2. f.split \in Nat /\ f.rouletted \in Nat
    BY DEF Fates
  <2>3. a = b + r /\ fate'.split = f.split + k /\ fate'.rouletted = f.rouletted + r /\ l = m + k
    BY <1>5, <1>6, <1>7
  <2> HIDE DEF r, a, b, k, m, l
  <2>4. a + m + f.rouletted + fate'.split = b + l + fate'.rouletted + f.split
    BY <2>1, <2>2, <2>3
  <2> QED
    BY <2>4 DEF a, b, m, l
<1>9. Fair(p) /\ AllFair(s) => Fair(particle') /\ AllFair(pending')
  BY <1>1, <1>2, <1>6 DEF Good
<1>10. particle' \in Neutrons /\ (particle'.alive => p.alive)
  BY <1>1, <1>2 DEF Good
<1> QED
  BY <1>5, <1>6, <1>8, <1>9, <1>10 DEF After

LEMMA SkipAfter ==
  ASSUME Typed, NEW p \in Neutrons, SkipWindow(p)
  PROVE  After(p, pending, fate)
<1>1. Len(pending) \in Nat /\ fate.rouletted \in Nat /\ fate.split \in Nat
  BY DEF Typed, Waiting, Fates
<1> QED
  BY <1>1 DEF After, SkipWindow, Typed, Alive

\* The step of a loop body: what it must establish beside After.
LEMMA StepKeeps ==
  ASSUME IInv, Step, NEW p \in Neutrons, NEW s, Waiting(s), NEW f \in Fates,
         After(p, s, f),
         p.alive => particle.alive,
         result' \in Tallies,
         voids' \in 0..(MaxVoid + 1), particle'.alive => voids' <= MaxVoid,
         1 + f.emitted + f.split + f.implicit
           = Alive(p) + Len(s) + result'.leakage + result'.absorptions
             + result'.fissions + f.rouletted + f.dropped,
         ~ mode.multiplies => Fair(p) /\ AllFair(s)
  PROVE  IInv'
<1>1. mode' = mode
  BY DEF Step
<1>2. events' \in 0..MaxEvents
  BY HistoryAssumption DEF IInv, Typed, Step, Steps
<1>3. Typed'
  BY <1>1, <1>2 DEF IInv, Typed, After
<1>4. /\ Len(s) \in Nat /\ Len(pending') \in Nat /\ Alive(p) \in Nat /\ Alive(particle') \in Nat
      /\ f.emitted \in Nat /\ f.split \in Nat /\ f.rouletted \in Nat /\ f.dropped \in Nat
      /\ f.implicit \in Nat /\ fate'.split \in Nat /\ fate'.rouletted \in Nat
      /\ result'.leakage \in Nat /\ result'.absorptions \in Nat /\ result'.fissions \in Nat
  <2>1. Len(s) \in Nat /\ Len(pending') \in Nat
    BY DEF After, Waiting
  <2>2. Alive(p) \in Nat /\ Alive(particle') \in Nat
    BY DEF Alive
  <2>3. fate' \in Fates
    BY DEF After
  <2>4. /\ f.emitted \in Nat /\ f.split \in Nat /\ f.rouletted \in Nat /\ f.dropped \in Nat
        /\ f.implicit \in Nat /\ fate'.split \in Nat /\ fate'.rouletted \in Nat
    BY <2>3 DEF Fates
  <2>5. result'.leakage \in Nat /\ result'.absorptions \in Nat /\ result'.fissions \in Nat
    BY DEF Tallies
  <2> QED
    BY <2>1, <2>2, <2>4, <2>5
<1>5. Accounted'
  <2> SUFFICES 1 + fate'.emitted + fate'.split + fate'.implicit
                 = Alive(particle') + Len(pending') + result'.leakage
                   + result'.absorptions + result'.fissions
                   + fate'.rouletted + fate'.dropped
    BY DEF Accounted, Alive
  <2>1. 1 + f.emitted + f.split + f.implicit
          = Alive(p) + Len(s) + result'.leakage + result'.absorptions
            + result'.fissions + f.rouletted + f.dropped
    OBVIOUS
  <2>2. /\ Alive(p) + Len(s) + f.rouletted + fate'.split
             = Alive(particle') + Len(pending') + fate'.rouletted + f.split
        /\ fate'.emitted = f.emitted /\ fate'.dropped = f.dropped
        /\ fate'.implicit = f.implicit
    BY DEF After
  <2> DEFINE a == Alive(p)
             b == Alive(particle')
             m == Len(s)
             l == Len(pending')
             t == result'.leakage
             u == result'.absorptions
             v == result'.fissions
  <2>3. /\ a \in Nat /\ b \in Nat /\ m \in Nat /\ l \in Nat /\ t \in Nat /\ u \in Nat /\ v \in Nat
        /\ 1 + f.emitted + f.split + f.implicit = a + m + t + u + v + f.rouletted + f.dropped
        /\ a + m + f.rouletted + fate'.split = b + l + fate'.rouletted + f.split
    BY <1>4, <2>1, <2>2
  <2> DEFINE fe == f.emitted
             fs == f.split
             fr == f.rouletted
             fd == f.dropped
             fi == f.implicit
             gs == fate'.split
             gr == fate'.rouletted
  <2>4. /\ fe \in Nat /\ fs \in Nat /\ fr \in Nat /\ fd \in Nat /\ fi \in Nat
        /\ gs \in Nat /\ gr \in Nat
        /\ 1 + fe + fs + fi = a + m + t + u + v + fr + fd
        /\ a + m + fr + gs = b + l + gr + fs
    BY <1>4, <2>3
  <2> HIDE DEF a, b, m, l, t, u, v, fe, fs, fr, fd, fi, gs, gr
  <2>5. 1 + fe + gs + fi = b + l + t + u + v + gr + fd
    BY <2>3, <2>4
  <2> QED
    BY <2>2, <2>5 DEF b, l, t, u, v, fe, fd, fi, gs, gr
<1>6. FairHistory'
  BY <1>1 DEF FairHistory, After
<1> QED
  BY <1>3, <1>5, <1>6 DEF IInv

-----------------------------------------------------------------------------
(***************************************************************************)
(* The ways through the loop body.                                         *)
(***************************************************************************)
LEMMA InvInit == Init => IInv
<1> SUFFICES ASSUME Init PROVE IInv
  OBVIOUS
<1>1. particle = Neutron(Unit, Unit) /\ particle \in Neutrons /\ particle.alive
      /\ particle.w = Unit /\ particle.due = Unit
  BY HistoryAssumption DEF Init, Neutron, Neutrons
<1>2. pending = <<>> /\ Waiting(pending) /\ AllFair(pending) /\ Len(pending) = 0
  BY DEF Init, Waiting, AllFair
<1>3. Typed
  BY <1>1, <1>2, HistoryAssumption DEF Init, Typed, Tallies, Fates
<1>4. Accounted
  BY <1>1, <1>2 DEF Init, Accounted
<1>5. FairHistory
  BY <1>1, <1>2 DEF FairHistory, Fair
<1> QED
  BY <1>3, <1>4, <1>5 DEF IInv

\* Before the step, with the neutron followed alive.
LEMMA Before ==
  ASSUME IInv, Step
  PROVE  /\ mode \in Modes
         /\ particle \in Neutrons /\ particle.alive /\ Alive(particle) = 1
         /\ Waiting(pending) /\ Len(pending) \in Nat /\ fate \in Fates
         /\ result.leakage \in Nat /\ result.absorptions \in Nat /\ result.fissions \in Nat
         /\ voids \in Nat /\ voids <= MaxVoid
         /\ 1 + fate.emitted + fate.split + fate.implicit
              = 1 + Len(pending) + result.leakage + result.absorptions + result.fissions
                + fate.rouletted + fate.dropped
         /\ ~ mode.multiplies => Fair(particle) /\ AllFair(pending)
<1>1. particle.alive
  BY DEF Step, Steps
<1>2. Alive(particle) = 1
  BY <1>1 DEF Alive
<1>3. Len(pending) \in Nat
  BY DEF IInv, Typed, Waiting
<1>4. 1 + fate.emitted + fate.split + fate.implicit
              = 1 + Len(pending) + result.leakage + result.absorptions + result.fissions
                + fate.rouletted + fate.dropped
  BY <1>1 DEF IInv, Accounted
<1>5. result.leakage \in Nat /\ result.absorptions \in Nat /\ result.fissions \in Nat
  BY DEF IInv, Typed, Tallies
<1>6. voids \in Nat /\ voids <= MaxVoid
  BY <1>1, HistoryAssumption DEF IInv, Typed
<1> QED
  BY <1>1, <1>2, <1>3, <1>4, <1>5, <1>6 DEF IInv, Typed, FairHistory

LEMMA DeadNeutron ==
  ASSUME NEW p \in Neutrons
  PROVE  Dead(p) \in Neutrons /\ ~ Dead(p).alive /\ Alive(Dead(p)) = 0 /\ Fair(Dead(p))
  BY DEF Dead, Neutrons, Alive, Fair

\* One neutron ends and k fissions are survived: the counters of the result go up by
\* as many.
LEMMA OneEnds ==
  ASSUME IInv, Step, NEW k \in Nat, NEW f \in Fates,
         f = [fate EXCEPT !.implicit = fate.implicit + k],
         After(Dead(particle), pending, f),
         result' \in Tallies,
         voids' \in 0..(MaxVoid + 1),
         result'.leakage + result'.absorptions + result'.fissions
           = result.leakage + result.absorptions + result.fissions + 1 + k
  PROVE  IInv'
<1>1. Dead(particle) \in Neutrons /\ ~ Dead(particle).alive /\ Alive(Dead(particle)) = 0
      /\ Fair(Dead(particle))
  BY Before, DeadNeutron
<1>2. ~ particle'.alive
  BY <1>1 DEF After
<1>3. 1 + f.emitted + f.split + f.implicit
        = Alive(Dead(particle)) + Len(pending) + result'.leakage + result'.absorptions
          + result'.fissions + f.rouletted + f.dropped
  <2>1. result'.leakage \in Nat /\ result'.absorptions \in Nat /\ result'.fissions \in Nat
    BY DEF Tallies
  <2>2. fate.emitted \in Nat /\ fate.split \in Nat /\ fate.rouletted \in Nat /\ fate.dropped \in Nat
        /\ fate.implicit \in Nat
    BY Before DEF Fates
  <2>3. /\ result.leakage \in Nat /\ result.absorptions \in Nat /\ result.fissions \in Nat
        /\ Len(pending) \in Nat
        /\ 1 + fate.emitted + fate.split + fate.implicit
              = 1 + Len(pending) + result.leakage + result.absorptions + result.fissions
                + fate.rouletted + fate.dropped
    BY Before
  <2>4. /\ f.emitted = fate.emitted /\ f.split = fate.split /\ f.rouletted = fate.rouletted
        /\ f.dropped = fate.dropped /\ f.implicit = fate.implicit + k
    BY Before, Zenon DEF Fates
  <2> DEFINE l == Len(pending)
             t == result.leakage
             u == result.absorptions
             v == result.fissions
             x == result'.leakage
             y == result'.absorptions
             z == result'.fissions
             fe == fate.emitted
             fs == fate.split
             fr == fate.rouletted
             fd == fate.dropped
             fi == fate.implicit
  <2>5. /\ l \in Nat /\ t \in Nat /\ u \in Nat /\ v \in Nat /\ x \in Nat /\ y \in Nat /\ z \in Nat
        /\ fe \in Nat /\ fs \in Nat /\ fr \in Nat /\ fd \in Nat /\ fi \in Nat
        /\ 1 + fe + fs + fi = 1 + l + t + u + v + fr + fd
        /\ x + y + z = t + u + v + 1 + k
    BY <2>1, <2>2, <2>3, Zenon
  <2> HIDE DEF l, t, u, v, x, y, z, fe, fs, fr, fd, fi
  <2>6. 1 + fe + fs + (fi + k) = 0 + l + x + y + z + fr + fd
    BY <2>5
  <2> QED
    BY <1>1, <2>4, <2>6 DEF l, x, y, z, fe, fs, fr, fd, fi
<1> QED
  BY <1>1, <1>2, <1>3, Before, StepKeeps

\* One neutron ends, and one of the three counters of the result goes up.
LEMMA OneEndsAnalog ==
  ASSUME IInv, Step, After(Dead(particle), pending, fate),
         result' \in Tallies,
         voids' \in 0..(MaxVoid + 1),
         result'.leakage + result'.absorptions + result'.fissions
           = result.leakage + result.absorptions + result.fissions + 1
  PROVE  IInv'
<1>1. fate \in Fates /\ fate.implicit \in Nat
  BY Before DEF Fates
<1>2. fate = [fate EXCEPT !.implicit = fate.implicit + 0]
  BY <1>1 DEF Fates
<1>3. result.leakage + result.absorptions + result.fissions + 1
        = result.leakage + result.absorptions + result.fissions + 1 + 0
  BY Before
<1> QED
  BY <1>1, <1>2, <1>3, OneEnds

\* Nobody ends and no counter changes.
LEMMA NobodyEnds ==
  ASSUME IInv, Step, After(particle, pending, fate),
         result' = result,
         voids' \in 0..(MaxVoid + 1), particle'.alive => voids' <= MaxVoid
  PROVE  IInv'
<1>1. result' \in Tallies
  BY DEF IInv, Typed
<1>2. 1 + fate.emitted + fate.split + fate.implicit
        = Alive(particle) + Len(pending) + result'.leakage + result'.absorptions
          + result'.fissions + fate.rouletted + fate.dropped
  BY Before
<1> QED
  BY <1>1, <1>2, Before, StepKeeps

LEMMA LeakTallied ==
  ASSUME IInv, result' = [result EXCEPT !.leakage = @ + 1]
  PROVE  result' \in Tallies /\ result'.leakage = result.leakage + 1
         /\ result'.absorptions = result.absorptions /\ result'.fissions = result.fissions
<1>1. result \in Tallies /\ result.leakage + 1 \in Nat
  BY DEF IInv, Typed, Tallies
<1> QED
  BY <1>1, Zenon DEF Tallies

LEMMA LeakInv ==
  ASSUME IInv, Leak
  PROVE  IInv'
<1>1. Step
  BY DEF Leak
<1>2. After(Dead(particle), pending, fate)
  BY <1>1, Before, DeadNeutron, SkipAfter DEF IInv, Leak
<1>3. result' \in Tallies /\ result'.leakage = result.leakage + 1
      /\ result'.absorptions = result.absorptions /\ result'.fissions = result.fissions
  BY LeakTallied DEF Leak
<1>4. voids' \in 0..(MaxVoid + 1)
  BY DEF IInv, Typed, Leak
<1> QED
  BY <1>1, <1>2, <1>3, <1>4, Before, OneEndsAnalog

LEMMA VoidStepInv ==
  ASSUME IInv, VoidStep
  PROVE  IInv'
<1>1. Step /\ voids' = voids + 1
  BY DEF VoidStep
<1>2. voids' \in 0..(MaxVoid + 1)
  BY <1>1, Before, HistoryAssumption
<1>3. CASE voids + 1 > MaxVoid
  <2>1. After(Dead(particle), pending, fate)
    BY <1>1, <1>3, Before, DeadNeutron, SkipAfter DEF IInv, VoidStep
  <2>2. result' \in Tallies /\ result'.leakage = result.leakage + 1
        /\ result'.absorptions = result.absorptions /\ result'.fissions = result.fissions
    BY <1>3, LeakTallied DEF VoidStep
  <2> QED
    BY <1>1, <1>2, <2>1, <2>2, Before, OneEndsAnalog
<1>4. CASE ~ (voids + 1 > MaxVoid)
  <2>1. After(particle, pending, fate) /\ result' = result
    BY <1>1, <1>4, Before, SkipAfter DEF IInv, VoidStep
  <2>2. voids' <= MaxVoid
    BY <1>1, <1>4, Before, HistoryAssumption
  <2> QED
    BY <1>1, <1>2, <2>1, <2>2, NobodyEnds
<1> QED
  BY <1>3, <1>4

LEMMA CrossSurfaceInv ==
  ASSUME IInv, CrossSurface
  PROVE  IInv'
<1>1. Step /\ voids' = 0 /\ result' = result /\ ApplyWindow(particle, pending, fate)
  BY DEF CrossSurface
<1>2. After(particle, pending, fate)
  BY <1>1, Before, WindowAfter
<1> QED
  BY <1>1, <1>2, NobodyEnds, HistoryAssumption

LEMMA DeltaFlightInv ==
  ASSUME IInv, DeltaFlight
  PROVE  IInv'
<1>1. Step /\ voids' = voids /\ result' = result /\ SkipWindow(particle)
  BY DEF DeltaFlight
<1>2. After(particle, pending, fate)
  BY <1>1, Before, SkipAfter DEF IInv
<1>3. voids' \in 0..(MaxVoid + 1) /\ voids' <= MaxVoid
  BY <1>1, Before, HistoryAssumption
<1> QED
  BY <1>1, <1>2, <1>3, NobodyEnds

LEMMA ThermalScatterInv ==
  ASSUME IInv, ThermalScatter
  PROVE  IInv'
<1>1. Step /\ voids' = 0 /\ result' = result
      /\ (SkipWindow(particle) \/ ApplyWindow(particle, pending, fate))
  BY DEF ThermalScatter, Collide
<1>2. After(particle, pending, fate)
  BY <1>1, Before, SkipAfter, WindowAfter DEF IInv
<1> QED
  BY <1>1, <1>2, NobodyEnds, HistoryAssumption

-----------------------------------------------------------------------------
(***************************************************************************)
(* The reactions.                                                          *)
(***************************************************************************)
\* However many sites a collision banks, it counts one fission, the one the neutron
\* survives.
LEMMA ImplicitFission ==
  ASSUME NEW sites \in BankedSites, NEW f \in Fates, NEW r \in Tallies
  PROVE  \E k \in Nat :
           /\ Banking(sites) = k
           /\ SurviveFissions(f, sites) = [f EXCEPT !.implicit = f.implicit + k]
           /\ SurviveFissions(f, sites) \in Fates
           /\ [r EXCEPT !.fissions = @ + Banking(sites)] \in Tallies
<1> DEFINE k == IF sites = 0 THEN 0 ELSE 1
<1>1. sites \in 0..2
  BY DEF BankedSites
<1>2. k \in Nat /\ Banking(sites) = k
  BY <1>1 DEF Banking
<1>3. SurviveFissions(f, sites) = [f EXCEPT !.implicit = f.implicit + k]
  BY DEF SurviveFissions
<1> HIDE DEF k
<1>4. f.implicit + k \in Nat /\ r.fissions + k \in Nat
  BY <1>2 DEF Fates, Tallies
<1>5. [f EXCEPT !.implicit = f.implicit + k] \in Fates
  BY <1>4, Zenon DEF Fates
<1>6. [r EXCEPT !.fissions = @ + Banking(sites)] \in Tallies
  BY <1>2, <1>4 DEF Tallies
<1> QED
  BY <1>2, <1>3, <1>5, <1>6

LEMMA CaptureInv ==
  ASSUME IInv, Capture
  PROVE  IInv'
<1>1. Step /\ voids' = 0
  BY DEF Capture, Collide
<1>2. PICK sites \in BankedSites :
        /\ ApplyWindow(Dead(particle), pending, SurviveFissions(fate, sites))
        /\ result' = [result EXCEPT !.absorptions = @ + 1, !.fissions = @ + Banking(sites)]
  BY DEF Capture
<1>3. PICK k \in Nat :
        /\ Banking(sites) = k
        /\ SurviveFissions(fate, sites) = [fate EXCEPT !.implicit = fate.implicit + k]
        /\ SurviveFissions(fate, sites) \in Fates
  BY <1>1, Before, ImplicitFission DEF IInv, Typed
<1>4. After(Dead(particle), pending, SurviveFissions(fate, sites))
  BY <1>1, <1>2, <1>3, Before, DeadNeutron, WindowAfter
<1>5. result' \in Tallies /\ result'.leakage = result.leakage
      /\ result'.absorptions = result.absorptions + 1
      /\ result'.fissions = result.fissions + k
  <2>1. result' = [result EXCEPT !.absorptions = result.absorptions + 1,
                                 !.fissions = result.fissions + k]
    BY <1>2, <1>3
  <2>2. result \in Tallies /\ result.absorptions + 1 \in Nat /\ result.fissions + k \in Nat
    BY DEF IInv, Typed, Tallies
  <2> QED
    BY <2>1, <2>2, Zenon DEF Tallies
<1>6. result'.leakage + result'.absorptions + result'.fissions
        = result.leakage + result.absorptions + result.fissions + 1 + k
  <2>1. result.leakage \in Nat /\ result.absorptions \in Nat /\ result.fissions \in Nat
    BY <1>1, Before
  <2> QED
    BY <1>5, <2>1
<1> QED
  BY <1>1, <1>3, <1>4, <1>5, <1>6, OneEnds, HistoryAssumption

LEMMA AnalogFissionInv ==
  ASSUME IInv, AnalogFission
  PROVE  IInv'
<1>1. Step /\ voids' = 0 /\ ApplyWindow(Dead(particle), pending, fate)
      /\ result' = [result EXCEPT !.fissions = @ + 1]
  BY DEF AnalogFission, Collide
<1>2. After(Dead(particle), pending, fate)
  BY <1>1, Before, DeadNeutron, WindowAfter
<1>3. result' \in Tallies /\ result'.leakage = result.leakage
      /\ result'.absorptions = result.absorptions /\ result'.fissions = result.fissions + 1
  BY <1>1, Before DEF IInv, Typed, Tallies
<1>4. result'.leakage + result'.absorptions + result'.fissions
        = result.leakage + result.absorptions + result.fissions + 1
  <2>1. result.leakage \in Nat /\ result.absorptions \in Nat /\ result.fissions \in Nat
    BY <1>1, Before
  <2> QED
    BY <1>3, <2>1
<1> QED
  BY <1>1, <1>2, <1>3, <1>4, OneEndsAnalog, HistoryAssumption

\* Survival biasing makes no copies and, in a fair game, an unfair neutron of none.
LEMMA BiasedGood ==
  ASSUME mode \in Modes, NEW p \in Neutrons, p.alive, NEW o \in Biased(p)
  PROVE  Good(p, o) /\ o.copies = <<>>
<1>1. CASE o = Outcome(p, <<>>, FALSE)
  BY <1>1, NothingGood DEF Outcome
<1>2. CASE o # Outcome(p, <<>>, FALSE)
  <2>1. ~ Analog /\ o \in Roulette(p, Biasing.survive)
    BY <1>2 DEF Biased
  <2>2. Biasing.survive \in Nat \ {0}
    BY <2>1, HistoryAssumption DEF Analog, Biasing
  <2> QED
    BY <2>1, <2>2, RouletteGood
<1> QED
  BY <1>1, <1>2

\* Implicit capture halves what is carried and what is due alike.
LEMMA ReducedNeutron ==
  ASSUME NEW p \in Neutrons, NEW w \in Reduced(p.w)
  PROVE  LET q == [p EXCEPT !.w = w, !.due = IF w = p.w THEN @ ELSE @ \div 2]
         IN  /\ q \in Neutrons
             /\ q.alive = p.alive
             /\ Fair(p) => Fair(q)
<1> DEFINE d == IF w = p.w THEN p.due ELSE p.due \div 2
           q == [p EXCEPT !.w = w, !.due = d]
<1>1. p.w \in Nat \ {0} /\ p.due \in Nat /\ p.alive \in BOOLEAN
  BY DEF Neutrons
<1>2. w = p.w \/ (p.w % 2 = 0 /\ w = p.w \div 2)
  BY DEF Reduced
<1>3. w \in Nat \ {0}
  BY <1>1, <1>2
<1>4. d \in Nat
  BY <1>1
<1>5. p.w = p.due => w = d
  BY <1>1, <1>2
<1> HIDE DEF d
<1>6. q \in Neutrons /\ q.alive = p.alive /\ q.w = w /\ q.due = d
  BY <1>1, <1>3, <1>4 DEF Neutrons
<1>7. Fair(p) => Fair(q)
  BY <1>5, <1>6 DEF Fair
<1> QED
  BY <1>6, <1>7 DEF d

\* The neutrons a reaction emits.
LEMMA EmittedNeutrons ==
  ASSUME NEW extra \in Nat, NEW due \in Nat
  PROVE  LET emitted == [i \in 1..extra |-> Neutron(Unit, due)]
         IN  /\ Waiting(emitted)
             /\ Len(emitted) = extra
             /\ extra = 0 => AllFair(emitted)
<1> DEFINE n == Neutron(Unit, due)
           emitted == [i \in 1..extra |-> n]
<1>1. n \in Neutrons /\ n.alive
  BY HistoryAssumption DEF Neutron, Neutrons
<1> HIDE DEF n
<1>2. emitted \in Seq(Neutrons) /\ Len(emitted) = extra /\ \A i \in 1..extra : emitted[i] = n
  BY <1>1
<1>3. Waiting(emitted)
  BY <1>1, <1>2 DEF Waiting
<1>4. extra = 0 => AllFair(emitted)
  BY <1>2 DEF AllFair
<1> QED
  BY <1>2, <1>3, <1>4 DEF n

LEMMA ScatterInv ==
  ASSUME IInv, NEW extra \in Nat, extra # 0 => mode.multiplies, Scatter(extra)
  PROVE  IInv'
<1>1. Step /\ voids' = 0
  BY DEF Scatter, Collide
<1>2. PICK sites \in BankedSites, w \in IF Analog THEN {particle.w} ELSE Reduced(particle.w) :
        LET p == [particle EXCEPT !.w = w, !.due = IF w = particle.w THEN @ ELSE @ \div 2]
            emitted == [i \in 1..extra |-> Neutron(Unit, p.due)]
        IN  /\ \E o \in Biased(p) :
                 ApplyWindow(o.p, pending \o emitted,
                             [SurviveFissions(fate, sites) EXCEPT
                                !.emitted = @ + extra,
                                !.rouletted = @ + IF o.killed THEN 1 ELSE 0])
            /\ result' = [result EXCEPT !.fissions = @ + Banking(sites)]
  BY DEF Scatter
<1> DEFINE p == [particle EXCEPT !.w = w, !.due = IF w = particle.w THEN @ ELSE @ \div 2]
           emitted == [i \in 1..extra |-> Neutron(Unit, p.due)]
           s == pending \o emitted
<1>3. w \in Reduced(particle.w)
  BY DEF Reduced
<1>4. p \in Neutrons /\ p.alive = particle.alive /\ (Fair(particle) => Fair(p))
  BY <1>1, <1>3, Before, ReducedNeutron
<1>5. p.due \in Nat /\ p.alive
  BY <1>1, <1>4, Before DEF Neutrons
<1>6. Waiting(emitted) /\ Len(emitted) = extra /\ (extra = 0 => AllFair(emitted))
  BY <1>5, EmittedNeutrons
<1>7. PICK o \in Biased(p) :
        ApplyWindow(o.p, s, [SurviveFissions(fate, sites) EXCEPT
                               !.emitted = @ + extra,
                               !.rouletted = @ + IF o.killed THEN 1 ELSE 0])
  BY <1>2
<1> HIDE DEF p, emitted, s
<1>8. Good(p, o) /\ o.copies = <<>>
  BY <1>1, <1>4, <1>5, Before, BiasedGood
<1> DEFINE r == IF o.killed THEN 1 ELSE 0
           g == SurviveFissions(fate, sites)
           f == [g EXCEPT !.emitted = @ + extra, !.rouletted = @ + r]
<1>9. r \in Nat /\ Alive(p) = Alive(o.p) + r /\ o.p \in Neutrons
  BY <1>8 DEF Good
<1>10. PICK k \in Nat :
         /\ Banking(sites) = k
         /\ g = [fate EXCEPT !.implicit = fate.implicit + k]
         /\ g \in Fates
  BY <1>1, Before, ImplicitFission DEF IInv, Typed
<1>11. ApplyWindow(o.p, s, f)
  BY <1>7
<1> HIDE DEF r, g
<1>12. /\ g.emitted = fate.emitted /\ g.rouletted = fate.rouletted /\ g.split = fate.split
       /\ g.dropped = fate.dropped /\ g.implicit = fate.implicit + k
       /\ fate.emitted \in Nat /\ fate.rouletted \in Nat /\ fate.split \in Nat
       /\ fate.dropped \in Nat /\ fate.implicit \in Nat
       /\ g.emitted + extra \in Nat /\ g.rouletted + r \in Nat
  <2>1. fate \in Fates
    BY <1>1, Before
  <2>2. /\ g.emitted = fate.emitted /\ g.rouletted = fate.rouletted /\ g.split = fate.split
        /\ g.dropped = fate.dropped /\ g.implicit = fate.implicit + k
    BY <1>10, <2>1, Zenon DEF Fates
  <2>3. /\ fate.emitted \in Nat /\ fate.rouletted \in Nat /\ fate.split \in Nat
        /\ fate.dropped \in Nat /\ fate.implicit \in Nat
    BY <2>1 DEF Fates
  <2> QED
    BY <1>9, <2>2, <2>3
<1>13. f \in Fates /\ f.emitted = fate.emitted + extra /\ f.rouletted = fate.rouletted + r
       /\ f.split = fate.split /\ f.dropped = fate.dropped /\ f.implicit = fate.implicit + k
  <2>1. f \in Fates /\ f.emitted = g.emitted + extra /\ f.rouletted = g.rouletted + r
        /\ f.split = g.split /\ f.dropped = g.dropped /\ f.implicit = g.implicit
    BY <1>10, <1>12, Zenon DEF Fates
  <2> HIDE DEF f
  <2> QED
    BY <1>12, <2>1
<1> HIDE DEF f
<1>14. Waiting(s) /\ Len(s) = Len(pending) + extra
       /\ (AllFair(pending) /\ AllFair(emitted) => AllFair(s))
  BY <1>1, <1>6, Before, WaitingConcat DEF s
<1>15. After(o.p, s, f)
  BY <1>1, <1>9, <1>11, <1>13, <1>14, Before, WindowAfter
<1>16. result' \in Tallies /\ result'.leakage = result.leakage
       /\ result'.absorptions = result.absorptions /\ result'.fissions = result.fissions + k
  <2>1. result' = [result EXCEPT !.fissions = @ + Banking(sites)] /\ result \in Tallies
    BY <1>2 DEF IInv, Typed
  <2>2. result.fissions + k \in Nat
    BY <2>1 DEF Tallies
  <2> QED
    BY <1>10, <2>1, <2>2 DEF Tallies
<1>17. 1 + f.emitted + f.split + f.implicit
         = Alive(o.p) + Len(s) + result'.leakage + result'.absorptions
           + result'.fissions + f.rouletted + f.dropped
  <2>1. /\ result.leakage \in Nat /\ result.absorptions \in Nat /\ result.fissions \in Nat
        /\ Len(pending) \in Nat
        /\ 1 + fate.emitted + fate.split + fate.implicit
              = 1 + Len(pending) + result.leakage + result.absorptions + result.fissions
                + fate.rouletted + fate.dropped
    BY <1>1, Before
  <2>2. Alive(p) = 1
    BY <1>5 DEF Alive
  <2> DEFINE a == Alive(o.p)
             l == Len(pending)
             t == result.leakage
             u == result.absorptions
             v == result.fissions
             fe == fate.emitted
             fs == fate.split
             fr == fate.rouletted
             fd == fate.dropped
             fi == fate.implicit
  <2>3. a \in Nat
    BY DEF Alive
  <2>4. /\ l \in Nat /\ t \in Nat /\ u \in Nat /\ v \in Nat /\ r \in Nat
        /\ fe \in Nat /\ fs \in Nat /\ fr \in Nat /\ fd \in Nat /\ fi \in Nat
        /\ 1 = a + r
        /\ 1 + fe + fs + fi = 1 + l + t + u + v + fr + fd
    BY <1>9, <1>12, <2>1, <2>2
  <2>5. /\ f.emitted = fe + extra /\ f.rouletted = fr + r /\ f.split = fs /\ f.dropped = fd
        /\ f.implicit = fi + k /\ Len(s) = l + extra
    BY <1>13, <1>14
  <2>6. result'.leakage = t /\ result'.absorptions = u /\ result'.fissions = v + k
    BY <1>16
  <2> HIDE DEF a, l, t, u, v, fe, fs, fr, fd, fi
  <2>7. 1 + (fe + extra) + fs + (fi + k) = a + (l + extra) + t + u + (v + k) + (fr + r) + fd
    BY <2>3, <2>4
  <2> QED
    BY <2>5, <2>6, <2>7 DEF a
<1>18. ~ mode.multiplies => Fair(o.p) /\ AllFair(s)
  BY <1>1, <1>4, <1>6, <1>8, <1>14, Before DEF Good
<1>19. voids' \in 0..(MaxVoid + 1) /\ voids' <= MaxVoid
  BY <1>1, HistoryAssumption
<1>20. o.p.alive => particle.alive
  BY <1>1, Before
<1> QED
  BY <1>1, <1>9, <1>13, <1>14, <1>15, <1>16, <1>17, <1>18, <1>19, <1>20, StepKeeps

-----------------------------------------------------------------------------
(***************************************************************************)
(* Between two neutrons, and the end.                                      *)
(***************************************************************************)
LEMMA NextPendingInv ==
  ASSUME IInv, NextPending
  PROVE  IInv'
<1> DEFINE n == Len(pending)
           last == pending[n]
           front == SubSeq(pending, 1, n - 1)
<1>1. pending \in Seq(Neutrons) /\ \A i \in 1..n : pending[i].alive
  BY DEF IInv, Typed, Waiting
<1>2. n \in Nat \ {0}
  BY <1>1, EmptySeq, LenProperties DEF NextPending
<1>3. last \in Neutrons /\ last.alive
  BY <1>1, <1>2
<1>4. front \in Seq(Neutrons) /\ Len(front) = n - 1 /\ \A i \in 1..(n - 1) : front[i] = pending[i]
  <2>1. n - 1 \in Int /\ \A i \in 1..(n - 1) : pending[i] \in Neutrons
    BY <1>1, <1>2
  <2> HIDE DEF n
  <2>2. /\ SubSeq(pending, 1, n - 1) \in Seq(Neutrons)
        /\ Len(SubSeq(pending, 1, n - 1)) = IF 1 <= n - 1 THEN n - 1 - 1 + 1 ELSE 0
        /\ \A i \in 1..(n - 1 - 1 + 1) : SubSeq(pending, 1, n - 1)[i] = pending[1 + i - 1]
    BY <1>1, <1>2, <2>1, SubSeqProperties DEF n
  <2> QED
    BY <1>2, <2>2
<1>5. particle' = last /\ pending' = front /\ mode' = mode /\ events' = events /\ result' = result
      /\ voids' = 0
      /\ fate' = [fate EXCEPT !.dropped = @ + Alive(particle)]
  BY DEF NextPending, Last, Front, Alive
<1>6. Alive(particle) \in Nat /\ Alive(last) = 1
  BY <1>3 DEF Alive
<1>7. fate \in Fates /\ fate.dropped \in Nat /\ fate.dropped + Alive(particle) \in Nat
  BY <1>6 DEF IInv, Typed, Fates
<1>8. fate' \in Fates /\ fate'.dropped = fate.dropped + Alive(particle)
      /\ fate'.emitted = fate.emitted /\ fate'.split = fate.split /\ fate'.rouletted = fate.rouletted
      /\ fate'.implicit = fate.implicit
  BY <1>5, <1>7, Zenon DEF Fates
<1> HIDE DEF n, last, front
<1>9. Waiting(pending')
  BY <1>1, <1>2, <1>4, <1>5 DEF Waiting
<1>10. Typed'
  BY <1>3, <1>5, <1>8, <1>9, HistoryAssumption DEF IInv, Typed
<1>11. Accounted'
  <2> SUFFICES 1 + fate'.emitted + fate'.split + fate'.implicit
                 = Alive(last) + Len(front) + result.leakage
                   + result.absorptions + result.fissions
                   + fate'.rouletted + fate'.dropped
    BY <1>5 DEF Accounted, Alive
  <2>1. 1 + fate.emitted + fate.split + fate.implicit
          = Alive(particle) + n + result.leakage + result.absorptions
            + result.fissions + fate.rouletted + fate.dropped
    BY DEF IInv, Accounted, Alive, n
  <2>2. /\ fate.emitted \in Nat /\ fate.split \in Nat /\ fate.rouletted \in Nat /\ fate.dropped \in Nat
        /\ fate.implicit \in Nat
        /\ result.leakage \in Nat /\ result.absorptions \in Nat /\ result.fissions \in Nat
    BY <1>7 DEF IInv, Typed, Fates, Tallies
  <2> DEFINE a == Alive(particle)
             m == Len(front)
             t == result.leakage
             u == result.absorptions
             v == result.fissions
             fe == fate.emitted
             fs == fate.split
             fr == fate.rouletted
             fd == fate.dropped
             fi == fate.implicit
  <2>3. /\ a \in Nat /\ n \in Nat /\ m = n - 1 /\ t \in Nat /\ u \in Nat /\ v \in Nat
        /\ fe \in Nat /\ fs \in Nat /\ fr \in Nat /\ fd \in Nat /\ fi \in Nat
        /\ 1 + fe + fs + fi = a + n + t + u + v + fr + fd
    BY <1>2, <1>4, <1>6, <2>1, <2>2
  <2>4. /\ fate'.emitted = fe /\ fate'.split = fs /\ fate'.rouletted = fr
        /\ fate'.dropped = fd + a /\ fate'.implicit = fi /\ Alive(last) = 1
    BY <1>6, <1>8
  <2> HIDE DEF a, m, t, u, v, fe, fs, fr, fd, fi
  <2>5. 1 + fe + fs + fi = 1 + m + t + u + v + fr + (fd + a)
    BY <2>3
  <2> QED
    BY <2>4, <2>5 DEF m, t, u, v
<1>12. FairHistory'
  <2> SUFFICES ASSUME ~ mode.multiplies PROVE Fair(last) /\ AllFair(front)
    BY <1>5 DEF FairHistory
  <2>1. \A i \in 1..n : Fair(pending[i])
    BY DEF IInv, FairHistory, AllFair, n
  <2> QED
    BY <1>2, <1>4, <2>1 DEF AllFair, last
<1> QED
  BY <1>10, <1>11, <1>12 DEF IInv

LEMMA FinishInv ==
  ASSUME IInv, Finish
  PROVE  IInv'
<1>1. particle' = Dead(particle) /\ pending' = pending /\ mode' = mode /\ events' = events
      /\ result' = result /\ voids' = voids
      /\ fate' = [fate EXCEPT !.dropped = @ + Alive(particle)]
  BY DEF Finish, Alive
<1>2. Dead(particle) \in Neutrons /\ ~ Dead(particle).alive /\ Alive(Dead(particle)) = 0
      /\ Fair(Dead(particle))
  BY DeadNeutron DEF IInv, Typed
<1>3. Alive(particle) \in Nat
  BY DEF Alive
<1>4. fate \in Fates /\ fate.dropped \in Nat /\ fate.dropped + Alive(particle) \in Nat
  BY <1>3 DEF IInv, Typed, Fates
<1>5. fate' \in Fates /\ fate'.dropped = fate.dropped + Alive(particle)
      /\ fate'.emitted = fate.emitted /\ fate'.split = fate.split /\ fate'.rouletted = fate.rouletted
      /\ fate'.implicit = fate.implicit
  BY <1>1, <1>4, Zenon DEF Fates
<1>6. Typed'
  BY <1>1, <1>2, <1>5 DEF IInv, Typed
<1>7. Accounted'
  <2> SUFFICES 1 + fate'.emitted + fate'.split + fate'.implicit
                 = 0 + Len(pending) + result.leakage
                   + result.absorptions + result.fissions
                   + fate'.rouletted + fate'.dropped
    BY <1>1, <1>2 DEF Accounted
  <2>1. 1 + fate.emitted + fate.split + fate.implicit
          = Alive(particle) + Len(pending) + result.leakage + result.absorptions
            + result.fissions + fate.rouletted + fate.dropped
    BY DEF IInv, Accounted, Alive
  <2>2. /\ fate.emitted \in Nat /\ fate.split \in Nat /\ fate.rouletted \in Nat /\ fate.dropped \in Nat
        /\ fate.implicit \in Nat
        /\ result.leakage \in Nat /\ result.absorptions \in Nat /\ result.fissions \in Nat
    BY <1>4 DEF IInv, Typed, Fates, Tallies
  <2>3. Len(pending) \in Nat
    BY DEF IInv, Typed, Waiting
  <2> DEFINE a == Alive(particle)
             l == Len(pending)
             t == result.leakage
             u == result.absorptions
             v == result.fissions
             fe == fate.emitted
             fs == fate.split
             fr == fate.rouletted
             fd == fate.dropped
             fi == fate.implicit
  <2>4. /\ a \in Nat /\ l \in Nat /\ t \in Nat /\ u \in Nat /\ v \in Nat
        /\ fe \in Nat /\ fs \in Nat /\ fr \in Nat /\ fd \in Nat /\ fi \in Nat
        /\ 1 + fe + fs + fi = a + l + t + u + v + fr + fd
    BY <1>3, <2>1, <2>2, <2>3
  <2>5. fate'.emitted = fe /\ fate'.split = fs /\ fate'.rouletted = fr /\ fate'.dropped = fd + a
        /\ fate'.implicit = fi
    BY <1>5
  <2> HIDE DEF a, l, t, u, v, fe, fs, fr, fd, fi
  <2>6. 1 + fe + fs + fi = 0 + l + t + u + v + fr + (fd + a)
    BY <2>4
  <2> QED
    BY <2>5, <2>6 DEF l, t, u, v
<1>8. FairHistory'
  BY <1>1, <1>2 DEF IInv, FairHistory
<1> QED
  BY <1>6, <1>7, <1>8 DEF IInv

-----------------------------------------------------------------------------
LEMMA InvStep == IInv /\ [Next]_vars => IInv'
<1> SUFFICES ASSUME IInv, [Next]_vars PROVE IInv'
  OBVIOUS
<1>1. CASE Leak
  BY <1>1, LeakInv
<1>2. CASE VoidStep
  BY <1>2, VoidStepInv
<1>3. CASE CrossSurface
  BY <1>3, CrossSurfaceInv
<1>4. CASE DeltaFlight
  BY <1>4, DeltaFlightInv
<1>5. CASE ThermalScatter
  BY <1>5, ThermalScatterInv
<1>6. CASE Capture
  BY <1>6, CaptureInv
<1>7. CASE AnalogFission
  BY <1>7, AnalogFissionInv
<1>8. CASE ElasticOrInelastic
  BY <1>8, ScatterInv DEF ElasticOrInelastic
<1>9. CASE Multiply
  BY <1>9, ScatterInv DEF Multiply
<1>10. CASE NextPending
  BY <1>10, NextPendingInv
<1>11. CASE Finish
  BY <1>11, FinishInv
<1>12. CASE UNCHANGED vars
  <2>1. Typed'
    BY <1>12 DEF IInv, Typed, vars
  <2>2. Accounted' /\ FairHistory'
    BY <1>12 DEF IInv, Accounted, FairHistory, vars
  <2> QED
    BY <2>1, <2>2 DEF IInv
<1> QED
  BY <1>1, <1>2, <1>3, <1>4, <1>5, <1>6, <1>7, <1>8, <1>9, <1>10, <1>11, <1>12 DEF Next, Collision

LEMMA InvAlways == Spec => []IInv
<1> QED
  BY InvInit, InvStep, PTL DEF Spec

\* The neutron followed and those that wait are neutrons of positive weight, and the
\* counters keep their types.
THEOREM TypeCorrect == Spec => []TypeOK
<1>1. IInv => TypeOK
  <2> SUFFICES ASSUME IInv PROVE TypeOK
    OBVIOUS
  <2>1. particle.w \in Nat \ {0} /\ particle.due \in Nat
    BY DEF IInv, Typed, Neutrons
  <2>2. \A i \in DOMAIN pending : pending[i].w \in Nat \ {0} /\ pending[i].alive
    <3>1. pending \in Seq(Neutrons) /\ \A i \in 1..Len(pending) : pending[i].alive
      BY DEF IInv, Typed, Waiting
    <3>2. DOMAIN pending = 1..Len(pending) /\ \A i \in 1..Len(pending) : pending[i] \in Neutrons
      BY <3>1
    <3> QED
      BY <3>1, <3>2 DEF Neutrons
  <2>3. (\A c \in DOMAIN result : result[c] \in Nat) /\ \A c \in DOMAIN fate : fate[c] \in Nat
    BY DEF IInv, Typed, Tallies, Fates
  <2> QED
    BY <2>1, <2>2, <2>3 DEF IInv, Typed, TypeOK
<1> QED
  BY <1>1, InvAlways, PTL

\* With or without survival biasing, every neutron is followed, waits, or has ended in
\* exactly one way, the fissions a neutron survives counted apart.
THEOREM NobodyLost == Spec => []Accounted
<1>1. IInv => Accounted
  BY DEF IInv
<1> QED
  BY <1>1, InvAlways, PTL

\* Splitting, survival biasing and both roulettes preserve the expected weight where no
\* reaction multiplies.
THEOREM FairGames == Spec => []FairUnlessMultiplying
<1>1. IInv => FairUnlessMultiplying
  <2> SUFFICES ASSUME IInv, ~ mode.multiplies PROVE FairWeights
    BY DEF FairUnlessMultiplying
  <2>1. Fair(particle) /\ AllFair(pending) /\ Waiting(pending)
    BY DEF IInv, Typed, FairHistory
  <2>2. \A i \in DOMAIN pending : pending[i].w = pending[i].due
    BY <2>1 DEF AllFair, Waiting, Fair
  <2> QED
    BY <2>1, <2>2 DEF FairWeights, Fair
<1> QED
  BY <1>1, InvAlways, PTL
=============================================================================
