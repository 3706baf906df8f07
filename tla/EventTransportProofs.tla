------------------------ MODULE EventTransportProofs ------------------------
(***************************************************************************)
(* Theorems about the event queues of the device, for every number of      *)
(* slots, bins, sites, steps and batches and every mode.  The refill       *)
(* cursor is an int that every dead slot of every step advances: what is   *)
(* said of refills assumes that it does not wrap around.                   *)
(***************************************************************************)
EXTENDS EventTransport, FiniteSetTheorems, TLAPS

-----------------------------------------------------------------------------
(***************************************************************************)
(* The inductive invariant.                                                *)
(***************************************************************************)
Kernels == {"init", "trace", "scan", "partition", "fission", "multi", "refill", "inject",
            "drained", "spent"}
Sorting == kernel \in {"partition", "fission", "multi"}
Kinds == {"source", "pool", "secondary"}

ThreadsTyped ==
  /\ kernel \in {"init", "trace", "partition", "refill", "inject"} => todo \subseteq Slot
  /\ kernel = "scan" => todo \subseteq {1}
  /\ kernel = "fission" => todo \subseteq ClassRange(Fission, Fission) /\ (mode.biased => todo = {})
  /\ kernel = "multi" => todo \subseteq ClassRange(N2N, N3N)
  /\ Over => todo = {}

DevTypes == [leak : Nat, capture : Nat, fissions : Nat, sites : Nat, next : Int,
             refilled : Nat, secWrite : Nat, secRead : Nat]

Typed ==
  /\ mode \in Modes /\ batch \in Nat /\ step \in 0..MaxSteps
  /\ kernel \in Kernels
  /\ alive \in [Slot -> BOOLEAN]
  /\ event \in [Slot -> Queues \cup {NoEvent}]
  /\ count \in [Queues -> Nat] /\ placed \in [Queues -> Nat]
  /\ offset \in [0..(5 * Bins) -> Nat]
  /\ sorted \in [0..(N - 1) -> Slot]
  /\ dev \in DevTypes
  /\ bank \in [0..(BankCap - 1) -> Nat]
  /\ who \in [Slot -> [kind : Kinds, i : Int]]
  /\ begun \subseteq [kind : Kinds, i : Int] /\ IsFiniteSet(begun)
  /\ rouletted \in Nat /\ spare \in Nat

\* The slots whose event is for queue q, and those whose event is for a queue before q.
Of(q) == {s \in Slot : event[s] = q}
Below(q) == {s \in Slot : event[s] \in 0..(q - 1)}
Between(a, b) == {s \in Slot : event[s] \in a..(b - 1)}

\* A counter holds the events of the slots traced so far, until the scan clears it.
Counted ==
  \A q \in Queues :
    count[q] = IF kernel = "trace" THEN Cardinality(Of(q) \ todo)
               ELSE IF kernel = "scan" /\ todo # {} THEN Cardinality(Of(q)) ELSE 0

\* An event is a live neutron's; a fission thread finds a live neutron.
EventsAlive ==
  /\ kernel = "init" => \A s \in todo : alive[s]
  /\ kernel = "trace" => \A s \in Slot \ todo : alive[s] <=> event[s] # NoEvent
  /\ kernel \in {"scan", "partition"} => \A s \in Slot : alive[s] <=> event[s] # NoEvent
  /\ kernel = "fission" => \A i \in todo : alive[sorted[i]]

Offsets ==
  Sorting \/ (kernel = "scan" /\ todo = {}) =>
    \A q \in 0..(5 * Bins) : offset[q] = Cardinality(Below(q))

Unplaced == IF kernel = "partition" THEN todo ELSE {}

\* The places a queue has given out, and a slot in one of them.
Places(q) == offset[q]..(offset[q] + placed[q] - 1)

Placed ==
  /\ kernel = "scan" /\ todo = {} => \A q \in Queues : placed[q] = 0
  /\ Sorting => /\ \A q \in Queues : placed[q] = Cardinality(Of(q) \ Unplaced)
                /\ \A s \in Slot \ Unplaced :
                     event[s] # NoEvent => \E i \in Places(event[s]) : sorted[i] = s

SortInv == Typed /\ ThreadsTyped /\ Counted /\ EventsAlive /\ Offsets /\ Placed

\* A cursor is past all that it gave out.
CursorsPast ==
  /\ \A x \in begun : x.kind = "secondary" => x.i < dev.secRead
  /\ dev.secRead <= dev.secWrite

Waited ==
  /\ mode.nxn # "ingen" => spare = 0 /\ kernel # "inject"
  /\ kernel \in {"init", "inject", "trace", "scan", "drained"} /\ spare > 0 => dev.secRead = dev.secWrite

BankFilled == \A i \in DOMAIN bank : i < dev.sites => bank[i] = batch

\* The cursor of the refills has moved at most once for every slot and step.
Refilling == IF kernel = "refill" THEN Cardinality(todo) ELSE 0
RefillsDone ==
  IF kernel \in {"trace", "scan", "partition", "fission", "multi", "drained"} THEN step - 1 ELSE step

CursorBounded ==
  /\ dev.next \in Nat
  /\ kernel \in {"trace", "scan", "partition", "fission", "multi", "refill"} => step > 0
  /\ dev.next <= N * RefillsDone - Refilling

RefillsPast == \A x \in begun : x.kind = "pool" => x.i < dev.next

RefillInv == CursorBounded /\ RefillsPast /\ HistoriesCounted

-----------------------------------------------------------------------------
(***************************************************************************)
(* Counting.                                                               *)
(***************************************************************************)
LEMMA QueuesAre ==
  /\ Bins \in Nat \ {0} /\ N \in Nat \ {0} /\ 5 * Bins \in Nat
  /\ Queues = 0..(5 * Bins - 1) /\ Queues \subseteq Nat /\ NoEvent \notin Queues
  BY EventAssumption DEF Queues, NoEvent

LEMMA SlotsFinite ==
  ASSUME NEW S \in SUBSET Slot
  PROVE  IsFiniteSet(S) /\ Cardinality(S) \in Nat /\ Cardinality(S) <= N
<1>1. IsFiniteSet(Slot) /\ Cardinality(Slot) = N
  BY EventAssumption, FS_Interval DEF Slot
<1>2. IsFiniteSet(S) /\ Cardinality(S) <= Cardinality(Slot)
  BY <1>1, FS_Subset
<1> QED
  BY <1>1, <1>2, FS_CardinalityType

\* gr_scan_offsets: the sum of the counts before q is the number of slots whose events
\* go before q, if each count is that of the slots of its queue.
LEMMA SumOfCounts ==
  ASSUME event \in [Slot -> Queues \cup {NoEvent}], count \in [Queues -> Nat],
         \A p \in Queues : count[p] = Cardinality(Of(p)), NEW q \in 0..(5 * Bins)
  PROVE  Cardinality(Before(q)) = Cardinality(Below(q))
<1> DEFINE b(p) == CHOOSE f : f \in Bijection(Of(p), 1..count[p])
           G == [s \in Below(q) |-> <<event[s], b(event[s])[s]>>]
<1>1. ASSUME NEW p \in Queues PROVE b(p) \in Bijection(Of(p), 1..count[p])
  <2>1. IsFiniteSet(Of(p))
    BY SlotsFinite DEF Of
  <2>2. count[p] \in Nat
    OBVIOUS
  <2>3. IsFiniteSet(1..count[p]) /\ Cardinality(1..count[p]) = count[p]
    BY <2>2, FS_Interval
  <2>4. ExistsBijection(Of(p), 1..count[p])
    BY <2>1, <2>3, FS_SameCardinalityBij
  <2> QED
    BY <2>4 DEF ExistsBijection
<1>2. ASSUME NEW s \in Below(q)
      PROVE  event[s] \in Queues /\ event[s] \in 0..(q - 1) /\ s \in Of(event[s])
  BY <1>2, QueuesAre DEF Below, Of
<1>3. ASSUME NEW p \in Queues PROVE b(p) \in [Of(p) -> 1..count[p]]
  BY <1>1 DEF Bijection, Injection
<1> HIDE DEF b
<1>4. G \in [Below(q) -> Before(q)]
  <2> SUFFICES ASSUME NEW s \in Below(q) PROVE <<event[s], b(event[s])[s]>> \in Before(q)
    OBVIOUS
  <2>1. b(event[s])[s] \in 1..count[event[s]]
    BY <1>2, <1>3
  <2>2. {event[s]} \X (1..count[event[s]]) \in {{p} \X (1..count[p]) : p \in 0..(q - 1)}
    BY <1>2
  <2> QED
    BY <2>1, <2>2 DEF Before
<1>5. ASSUME NEW s \in Below(q), NEW t \in Below(q), G[s] = G[t] PROVE s = t
  <2>1. event[s] = event[t] /\ b(event[s])[s] = b(event[s])[t]
    BY <1>5
  <2> QED
    BY <1>1, <1>2, <2>1 DEF Bijection, Injection, IsInjective
<1>6. ASSUME NEW x \in Before(q) PROVE \E s \in Below(q) : G[s] = x
  <2>1. PICK p \in 0..(q - 1) : x \in {p} \X (1..count[p])
    BY DEF Before
  <2>2. p \in Queues
    BY <2>1, QueuesAre
  <2>3. PICK i \in 1..count[p] : x = <<p, i>>
    BY <2>1
  <2>4. PICK s \in Of(p) : b(p)[s] = i
    BY <1>1, <2>2, <2>3 DEF Bijection, Surjection
  <2>5. s \in Below(q) /\ event[s] = p
    BY <2>1, <2>4 DEF Of, Below
  <2> QED
    BY <2>3, <2>4, <2>5
<1>7. G \in Bijection(Below(q), Before(q))
  BY <1>4, <1>5, <1>6 DEF Bijection, Injection, Surjection, IsInjective
<1>8. ExistsBijection(Below(q), Before(q))
  BY <1>7 DEF ExistsBijection
<1>9. IsFiniteSet(Below(q))
  BY SlotsFinite DEF Below
<1> QED
  BY <1>8, <1>9, FS_Bijection

\* What lies between two queues in d_sorted_idx is as long as their events are many.
LEMMA OffsetsApart ==
  ASSUME Typed, Offsets, Sorting \/ (kernel = "scan" /\ todo = {}),
         NEW a \in 0..(5 * Bins), NEW b \in 0..(5 * Bins), a <= b
  PROVE  /\ offset[b] - offset[a] = Cardinality(Between(a, b))
         /\ offset[a] <= offset[b] /\ offset[b] <= N /\ offset[a] \in Nat /\ offset[b] \in Nat
<1> DEFINE T == Between(a, b)
<1>1. a \in Nat /\ b \in Nat
  BY QueuesAre
<1>2. ASSUME NEW s \in Slot PROVE event[s] \in Int
  BY QueuesAre DEF Typed, NoEvent
<1>3. Below(b) = Below(a) \cup T /\ Below(a) \cap T = {}
  BY <1>1, <1>2 DEF Below, Between
<1>4. /\ IsFiniteSet(Below(a)) /\ Cardinality(Below(a)) \in Nat
      /\ IsFiniteSet(Below(b)) /\ Cardinality(Below(b)) \in Nat /\ Cardinality(Below(b)) <= N
      /\ IsFiniteSet(T) /\ Cardinality(T) \in Nat
  <2>1. Below(a) \in SUBSET Slot /\ Below(b) \in SUBSET Slot /\ T \in SUBSET Slot
    BY DEF Below, Between
  <2> QED
    BY <2>1, SlotsFinite
<1>5. Cardinality(Below(b)) = Cardinality(Below(a)) + Cardinality(T) - Cardinality({})
  BY <1>3, <1>4, FS_Union
<1>6. offset[a] = Cardinality(Below(a)) /\ offset[b] = Cardinality(Below(b))
  BY DEF Offsets
<1> QED
  BY <1>4, <1>5, <1>6, FS_EmptySet

LEMMA QueueLength ==
  ASSUME Typed, Offsets, Sorting \/ (kernel = "scan" /\ todo = {}), NEW q \in Queues
  PROVE  /\ offset[q + 1] = offset[q] + Cardinality(Of(q))
         /\ offset[q] \in Nat /\ offset[q + 1] \in Nat /\ offset[q + 1] <= N
<1>1. q \in 0..(5 * Bins) /\ q + 1 \in 0..(5 * Bins) /\ q <= q + 1 /\ q + 1 - 1 = q /\ q \in Int
  BY QueuesAre
<1>2. ASSUME NEW s \in Slot PROVE event[s] \in Int
  BY QueuesAre DEF Typed, NoEvent
<1>3. Between(q, q + 1) = Of(q)
  BY <1>1, <1>2 DEF Of, Between
<1>4. IsFiniteSet(Of(q)) /\ Cardinality(Of(q)) \in Nat
  BY SlotsFinite DEF Of
<1>5. /\ offset[q + 1] - offset[q] = Cardinality(Between(q, q + 1))
      /\ offset[q + 1] <= N /\ offset[q] \in Nat /\ offset[q + 1] \in Nat
  BY <1>1, OffsetsApart
<1> QED
  BY <1>3, <1>4, <1>5

\* The places of two queues are apart, and inside d_sorted_idx.
LEMMA PlacesApart ==
  ASSUME Typed, Offsets, Placed, Sorting, NEW p \in Queues, NEW q \in Queues,
         NEW i \in offset[p]..(offset[p + 1] - 1), NEW j \in Places(q)
  PROVE  /\ j \in offset[q]..(offset[q + 1] - 1)
         /\ i \in 0..(N - 1) /\ j \in 0..(N - 1)
         /\ p # q => i # j
<1>1. placed[q] <= Cardinality(Of(q)) /\ placed[q] \in Nat
  <2>1. IsFiniteSet(Of(q))
    BY SlotsFinite DEF Of
  <2>2. placed[q] = Cardinality(Of(q) \ Unplaced)
    BY DEF Placed
  <2>3. Cardinality(Of(q) \ Unplaced) <= Cardinality(Of(q))
    BY <2>1, FS_Subset
  <2> QED
    BY <2>2, <2>3 DEF Typed
<1>2. j \in offset[q]..(offset[q + 1] - 1) /\ j \in 0..(N - 1)
  <2>1. IsFiniteSet(Of(q)) /\ Cardinality(Of(q)) \in Nat
    BY SlotsFinite DEF Of
  <2> QED
    BY <1>1, <2>1, QueueLength, EventAssumption DEF Places
<1>3. i \in 0..(N - 1)
  BY QueueLength, EventAssumption
<1>4. ASSUME NEW x \in Queues, NEW y \in Queues, x < y PROVE offset[x + 1] <= offset[y]
  <2>1. x + 1 \in 0..(5 * Bins) /\ y \in 0..(5 * Bins) /\ x + 1 <= y
    BY <1>4, QueuesAre
  <2> QED
    BY <2>1, OffsetsApart
<1>5. ASSUME p # q PROVE i # j
  <2>1. p < q \/ q < p
    BY <1>5, QueuesAre
  <2>2. /\ offset[p] \in Nat /\ offset[p + 1] \in Nat
        /\ offset[q] \in Nat /\ offset[q + 1] \in Nat
    BY QueueLength
  <2>3. CASE p < q
    BY <1>2, <1>4, <2>2, <2>3
  <2>4. CASE q < p
    BY <1>2, <1>4, <2>2, <2>4
  <2> QED
    BY <2>1, <2>3, <2>4
<1> QED
  BY <1>2, <1>3, <1>5

\* gr_partition: once every thread has run, the range of the queues from lo to hi lists
\* the slots with events for them, each once.
LEMMA RangeLists ==
  ASSUME Typed, Offsets, Placed, Sorting, Unplaced = {},
         NEW lo \in 0..(5 * Bins), NEW hi \in 0..(5 * Bins), lo <= hi
  PROVE  LET T == Between(lo, hi)
             R == offset[lo]..(offset[hi] - 1)
         IN  /\ R \subseteq 0..(N - 1)
             /\ {sorted[i] : i \in R} = T
             /\ Cardinality(R) = Cardinality(T)
             /\ \A i, j \in R : sorted[i] = sorted[j] => i = j
<1> DEFINE T == Between(lo, hi)
           R == offset[lo]..(offset[hi] - 1)
           pos == [s \in T |-> CHOOSE i \in Places(event[s]) : sorted[i] = s]
<1>1. /\ offset[hi] - offset[lo] = Cardinality(T) /\ offset[lo] <= offset[hi]
      /\ offset[hi] <= N /\ offset[lo] \in Nat /\ offset[hi] \in Nat
  BY OffsetsApart
<1>2. /\ IsFiniteSet(R) /\ Cardinality(R) = Cardinality(T) /\ R \subseteq 0..(N - 1)
  <2>1. offset[lo] \in Int /\ offset[hi] - 1 \in Int /\ N \in Nat
    BY <1>1, EventAssumption
  <2>2. /\ IsFiniteSet(R)
        /\ Cardinality(R) = IF offset[lo] > offset[hi] - 1 THEN 0
                            ELSE (offset[hi] - 1) - offset[lo] + 1
    BY <2>1, FS_Interval
  <2>3. Cardinality(R) = Cardinality(T)
    <3> DEFINE lowest == offset[lo]
               end == offset[hi]
               many == Cardinality(T)
    <3>1. lowest \in Nat /\ end \in Nat /\ lowest <= end /\ end - lowest = many
      BY <1>1
    <3>2. Cardinality(R) = IF lowest > end - 1 THEN 0 ELSE (end - 1) - lowest + 1
      BY <2>2
    <3> HIDE DEF lowest, end, many, T, R
    <3>3. Cardinality(R) = many
      BY <3>1, <3>2
    <3> QED
      BY <3>3 DEF many
  <2>4. R \subseteq 0..(N - 1)
    BY <1>1, <2>1
  <2> QED
    BY <2>2, <2>3, <2>4
<1>3. ASSUME NEW s \in T
      PROVE  event[s] \in Queues /\ event[s] # NoEvent /\ lo <= event[s] /\ event[s] + 1 <= hi
  BY QueuesAre DEF Between
<1>4. ASSUME NEW s \in T
      PROVE  pos[s] \in Places(event[s]) /\ sorted[pos[s]] = s
  <2>1. \E i \in Places(event[s]) : sorted[i] = s
    BY <1>3 DEF Placed, Between
  <2> QED
    BY <2>1
<1> HIDE DEF pos
<1>5. ASSUME NEW s \in T PROVE pos[s] \in R
  <2>1. event[s] \in Queues /\ lo <= event[s] /\ event[s] + 1 <= hi
    BY <1>3
  <2>2. /\ offset[event[s]] \in Nat /\ offset[event[s] + 1] \in Nat
    BY <2>1, QueueLength
  <2>3. /\ event[s] \in 0..(5 * Bins) /\ event[s] + 1 \in 0..(5 * Bins)
    BY <2>1, QueuesAre
  <2>4. offset[lo] <= offset[event[s]]
    BY <2>1, <2>3, OffsetsApart
  <2>5. offset[event[s] + 1] <= offset[hi]
    BY <2>1, <2>3, OffsetsApart
  <2>6. pos[s] \in offset[event[s]]..(offset[event[s] + 1] - 1)
    <3>1. IsFiniteSet(Of(event[s])) /\ Cardinality(Of(event[s])) \in Nat
      BY SlotsFinite DEF Of
    <3>2. placed[event[s]] = Cardinality(Of(event[s]))
      <4>1. Of(event[s]) \ Unplaced = Of(event[s])
        OBVIOUS
      <4> QED
        BY <2>1, <4>1 DEF Placed
    <3> QED
      BY <1>4, <2>1, <2>2, <3>1, <3>2, QueueLength DEF Places
  <2> QED
    BY <1>1, <2>2, <2>4, <2>5, <2>6
<1>6. pos \in Injection(T, R)
  <2>1. pos \in [T -> R]
    BY <1>5 DEF pos
  <2> QED
    BY <1>4, <2>1 DEF Injection, IsInjective
<1>7. pos \in Surjection(T, R)
  BY <1>2, <1>6, FS_Injection
<1>8. ASSUME NEW i \in R PROVE sorted[i] \in T /\ pos[sorted[i]] = i
  <2>1. PICK s \in T : pos[s] = i
    BY <1>7 DEF Surjection
  <2> QED
    BY <1>4, <2>1
<1>9. {sorted[i] : i \in R} = T
  BY <1>4, <1>5, <1>8
<1>10. \A i, j \in R : sorted[i] = sorted[j] => i = j
  BY <1>8
<1> QED
  BY <1>2, <1>9, <1>10

-----------------------------------------------------------------------------
(***************************************************************************)
(* Types.                                                                  *)
(***************************************************************************)
LEMMA Constants ==
  /\ N \in Nat \ {0} /\ Bins \in Nat \ {0} /\ Batches \in Nat \ {0}
  /\ BankCap \in Nat /\ MaxNu \in Nat /\ MaxSteps \in Nat /\ CursorMax \in Nat
  /\ \A m \in Modes : m.biased \in BOOLEAN /\ m.pool \in Nat
  BY EventAssumption

LEMMA BeforeFinite ==
  ASSUME Typed, Counted, kernel = "scan", todo # {}, NEW q \in 0..(5 * Bins)
  PROVE  Cardinality(Before(q)) = Cardinality(Below(q)) /\ Cardinality(Below(q)) \in Nat
<1>1. Cardinality(Before(q)) = Cardinality(Below(q))
  BY SumOfCounts DEF Typed, Counted
<1> QED
  BY <1>1, SlotsFinite DEF Below

LEMMA SourceTyped ==
  /\ [s \in Slot |-> Neutron("source", s)] \in [Slot -> [kind : Kinds, i : Int]]
  /\ {Neutron("source", s) : s \in Slot} \subseteq [kind : Kinds, i : Int]
  /\ IsFiniteSet({Neutron("source", s) : s \in Slot})
<1>1. \A s \in Slot : Neutron("source", s) \in [kind : Kinds, i : Int]
  BY Constants DEF Slot, Neutron, Kinds
<1>2. IsFiniteSet(Slot)
  BY SlotsFinite
<1> DEFINE T == {Neutron("source", s) : s \in Slot}
           f == [s \in Slot |-> Neutron("source", s)]
<1>3. f \in Surjection(Slot, T)
  BY DEF Surjection
<1>4. IsFiniteSet(T)
  BY <1>2, <1>3, FS_Surjection
<1> QED
  BY <1>1, <1>4

LEMMA ZeroedTyped == Zeroed \in DevTypes
  BY DEF Zeroed, DevTypes

LEMMA TypedInit == Init => Typed
<1> SUFFICES ASSUME Init PROVE Typed
  OBVIOUS
<1>1. /\ mode \in Modes /\ batch \in Nat /\ step \in 0..MaxSteps /\ kernel \in Kernels
      /\ alive \in [Slot -> BOOLEAN] /\ event \in [Slot -> Queues \cup {NoEvent}]
      /\ count \in [Queues -> Nat] /\ placed \in [Queues -> Nat]
      /\ offset \in [0..(5 * Bins) -> Nat]
      /\ bank \in [0..(BankCap - 1) -> Nat]
      /\ rouletted \in Nat /\ spare \in Nat
  BY Constants DEF Init, Kernels
<1>2. sorted \in [0..(N - 1) -> Slot]
  BY Constants DEF Init, Slot
<1>3. dev \in DevTypes
  BY ZeroedTyped DEF Init
<1>4. /\ who \in [Slot -> [kind : Kinds, i : Int]]
      /\ begun \subseteq [kind : Kinds, i : Int] /\ IsFiniteSet(begun)
  BY SourceTyped DEF Init
<1> QED
  BY <1>1, <1>2, <1>3, <1>4 DEF Typed

LEMMA BankedTyped ==
  ASSUME Typed, NEW k \in Nat, Banked(k)
  PROVE  bank' \in [0..(BankCap - 1) -> Nat]
  BY DEF Typed, Banked

LEMMA OccupyTyped ==
  ASSUME Typed, NEW s \in Slot, NEW kind \in Kinds, NEW i \in Int, NEW inside \in BOOLEAN,
         NEW c \in DevTypes,
         Occupy(s, Neutron(kind, i), c, inside)
  PROVE  /\ alive' \in [Slot -> BOOLEAN]
         /\ event' \in [Slot -> Queues \cup {NoEvent}]
         /\ dev' \in DevTypes
         /\ who' \in [Slot -> [kind : Kinds, i : Int]]
         /\ begun' \subseteq [kind : Kinds, i : Int] /\ IsFiniteSet(begun')
<1>1. Neutron(kind, i) \in [kind : Kinds, i : Int]
  BY DEF Neutron
<1>2. IsFiniteSet(begun')
  BY FS_AddElement DEF Occupy, Typed
<1>3. /\ dev' \in DevTypes
  BY DEF Occupy, DevTypes
<1> QED
  BY <1>1, <1>2, <1>3 DEF Occupy, Typed

LEMMA CountersNat ==
  ASSUME NEW d \in DevTypes
  PROVE  /\ d.next \in Int
         /\ \A k \in Nat : /\ d.leak + k \in Nat /\ d.sites + k \in Nat /\ d.fissions + k \in Nat
                           /\ d.capture + k \in Nat /\ d.secWrite + k \in Nat
                           /\ d.secRead + k \in Nat /\ d.refilled + k \in Nat
  BY DEF DevTypes

LEMMA AdvancedTyped == ASSUME dev \in DevTypes PROVE Advanced \in DevTypes
<1>1. dev.next \in Int
  BY DEF DevTypes
<1>2. (IF dev.next = CursorMax THEN - CursorMax - 1 ELSE dev.next + 1) \in Int
  BY <1>1, Constants
<1> QED
  BY <1>2, Zenon DEF Advanced, DevTypes

LEMMA TypedStep ==
  ASSUME Typed, ThreadsTyped, Counted, [Next]_vars
  PROVE  Typed'
<1> USE Constants
<1>0. dev \in DevTypes
  BY DEF Typed
<1>1. CASE NextBatch
  <2>1. /\ mode' \in Modes /\ batch' \in Nat /\ step' \in 0..MaxSteps /\ kernel' \in Kernels
        /\ alive' \in [Slot -> BOOLEAN] /\ rouletted' \in Nat /\ spare' \in Nat
    BY <1>1 DEF NextBatch, StartOfBatch, Typed, Kernels
  <2>2. /\ dev' \in DevTypes
    BY <1>1, ZeroedTyped DEF NextBatch, StartOfBatch
  <2>3. /\ who' \in [Slot -> [kind : Kinds, i : Int]]
        /\ begun' \subseteq [kind : Kinds, i : Int] /\ IsFiniteSet(begun')
    BY <1>1, SourceTyped DEF NextBatch, StartOfBatch
  <2>4. UNCHANGED <<event, sortvars, bank>>
    BY <1>1 DEF NextBatch
  <2> QED
    BY <2>1, <2>2, <2>3, <2>4 DEF Typed, sortvars
<1>2. CASE LaunchNext
  <2>1. step' \in 0..MaxSteps /\ kernel' \in Kernels /\ spare' \in Nat
    BY <1>2 DEF LaunchNext, Launch, AfterStep, Typed, Kernels, history
  <2>2. UNCHANGED <<mode, batch, alive, event, sortvars, dev, bank, who, begun, rouletted>>
    BY <1>2 DEF LaunchNext, Launch, AfterStep, history
  <2> QED
    BY <2>1, <2>2 DEF Typed, sortvars
<1>3. CASE Scan
  <2>1. offset' \in [0..(5 * Bins) -> Nat]
    <3>1. kernel = "scan" /\ todo # {} /\ DOMAIN offset = 0..(5 * Bins)
      BY <1>3 DEF Scan, Run, Typed
    <3>2. \A q \in 0..(5 * Bins) : Cardinality(Before(q)) \in Nat
      BY <3>1, BeforeFinite
    <3> QED
      BY <1>3, <3>1, <3>2 DEF Scan
  <2>2. count' \in [Queues -> Nat] /\ placed' \in [Queues -> Nat]
    BY <1>3 DEF Scan
  <2>3. UNCHANGED <<mode, batch, step, kernel, alive, event, sorted, dev, bank, history>>
    BY <1>3 DEF Scan, Run
  <2> QED
    BY <2>1, <2>2, <2>3 DEF Typed, history
<1>4. ASSUME NEW s \in Slot, InitStack(s) PROVE Typed'
  <2>1. alive' \in [Slot -> BOOLEAN]
    BY <1>4 DEF InitStack, Kill, Typed
  <2>3. dev' \in DevTypes
    BY <1>0, <1>4 DEF InitStack, DevTypes
  <2>2. UNCHANGED <<mode, batch, step, kernel, event, sortvars, bank, history>>
    BY <1>4 DEF InitStack, Run
  <2> QED
    BY <2>1, <2>2, <2>3 DEF Typed, history, sortvars
<1>5. ASSUME NEW s \in Slot, Trace(s) PROVE Typed'
  <2>1. alive' \in [Slot -> BOOLEAN] /\ event' \in [Slot -> Queues \cup {NoEvent}]
    BY <1>5 DEF Trace, TraceDead, TraceLeak, TraceCapture, TraceRoulette, TraceCollide, Kill, Typed
  <2>6. SitesAtCollision \subseteq Nat
    BY DEF SitesAtCollision
  <2>7. \A k \in SitesAtCollision : AtCollision(k) => dev' \in DevTypes
    <3> SUFFICES ASSUME NEW k \in SitesAtCollision, AtCollision(k) PROVE dev' \in DevTypes
      OBVIOUS
    <3>1. dev.sites + k \in Nat /\ dev.fissions + (IF k > 0 THEN 1 ELSE 0) \in Nat
      BY <1>0, <2>6, CountersNat
    <3> QED
      BY <1>0, <3>1, Zenon DEF AtCollision, DevTypes
  <2>2. dev' \in DevTypes
    <3>1. CASE TraceDead(s)
      BY <1>0, <3>1 DEF TraceDead
    <3>2. CASE TraceLeak(s)
      <4>1. dev.leak + 1 \in Nat
        BY <1>0, CountersNat
      <4> QED
        BY <1>0, <3>2, <4>1, Zenon DEF TraceLeak, DevTypes
    <3>3. CASE TraceCapture(s)
      <4>1. PICK k \in SitesAtCollision :
              dev' = [dev EXCEPT !.sites = @ + k, !.capture = @ + 1,
                                 !.fissions = @ + IF k > 0 THEN 1 ELSE 0]
        BY <3>3, Zenon DEF TraceCapture
      <4>2. /\ dev.sites + k \in Nat /\ dev.capture + 1 \in Nat
            /\ dev.fissions + (IF k > 0 THEN 1 ELSE 0) \in Nat
        BY <1>0, <2>6, CountersNat
      <4> QED
        BY <1>0, <4>1, <4>2, Zenon DEF DevTypes
    <3>4. CASE TraceRoulette(s) \/ TraceCollide(s)
      BY <2>7, <3>4 DEF TraceRoulette, TraceCollide
    <3> QED
      BY <1>5, <3>1, <3>2, <3>3, <3>4 DEF Trace
  <2>3. bank' \in [0..(BankCap - 1) -> Nat]
    <3>1. CASE TraceDead(s) \/ TraceLeak(s)
      BY <3>1 DEF TraceDead, TraceLeak, Typed
    <3>2. CASE TraceCapture(s) \/ TraceRoulette(s) \/ TraceCollide(s)
      <4>1. \E k \in SitesAtCollision : Banked(k)
        BY <3>2 DEF TraceCapture, TraceRoulette, TraceCollide, AtCollision
      <4> QED
        BY <2>6, <4>1, BankedTyped
    <3> QED
      BY <1>5, <3>1, <3>2 DEF Trace
  <2>4. count' \in [Queues -> Nat] /\ rouletted' \in Nat
    <3>1. count \in [Queues -> Nat] /\ rouletted \in Nat
      BY DEF Typed
    <3>2. ASSUME NEW e \in Queues PROVE [count EXCEPT ![e] = @ + 1] \in [Queues -> Nat]
      BY <3>1
    <3>3. CASE TraceDead(s) \/ TraceLeak(s) \/ TraceCapture(s)
      BY <3>1, <3>3 DEF TraceDead, TraceLeak, TraceCapture, sortvars, history
    <3>5. CASE TraceRoulette(s)
      BY <3>1, <3>5 DEF TraceRoulette, sortvars
    <3>4. CASE TraceCollide(s)
      BY <3>1, <3>2, <3>4 DEF TraceCollide, history
    <3> QED
      BY <1>5, <3>3, <3>4, <3>5 DEF Trace
  <2>5. UNCHANGED <<mode, batch, step, kernel, offset, placed, sorted, who, begun, spare>>
    BY <1>5 DEF Trace, TraceDead, TraceLeak, TraceCapture, TraceRoulette, TraceCollide, Run,
                sortvars, history
  <2> QED
    BY <2>1, <2>2, <2>3, <2>4, <2>5 DEF Typed
<1>6. ASSUME NEW s \in Slot, PartitionSkip(s) PROVE Typed'
  BY <1>6 DEF PartitionSkip, Run, Typed, history, sortvars
<1>7. ASSUME NEW s \in Slot, Partition(s) PROVE Typed'
  <2>1. placed' \in [Queues -> Nat] /\ sorted' \in [0..(N - 1) -> Slot]
    <3>1. placed \in [Queues -> Nat] /\ sorted \in [0..(N - 1) -> Slot]
      BY DEF Typed
    <3>2. event[s] \in Queues
      BY <1>7 DEF Partition, Typed
    <3>3. [placed EXCEPT ![event[s]] = @ + 1] \in [Queues -> Nat]
      BY <3>1, <3>2
    <3>4. ASSUME NEW i PROVE [sorted EXCEPT ![i] = s] \in [0..(N - 1) -> Slot]
      BY <3>1
    <3> QED
      BY <1>7, <3>3, <3>4 DEF Partition
  <2>2. UNCHANGED <<mode, batch, step, kernel, alive, event, count, offset, dev, bank, history>>
    BY <1>7 DEF Partition, Run
  <2> QED
    BY <2>1, <2>2 DEF Typed, history
<1>8. ASSUME NEW i \in 0..(N - 1), FissionEvent(i) PROVE Typed'
  <2>1. PICK k \in 0..MaxNu : Banked(k) /\ dev' = [dev EXCEPT !.sites = @ + k, !.fissions = @ + 1]
    BY <1>8 DEF FissionEvent
  <2>2. bank' \in [0..(BankCap - 1) -> Nat]
    BY <2>1, BankedTyped
  <2>3. dev' \in DevTypes
    <3>1. k \in Nat /\ dev.sites + k \in Nat /\ dev.fissions + 1 \in Nat
      BY <1>0, CountersNat
    <3> QED
      BY <1>0, <2>1, <3>1, Zenon DEF DevTypes
  <2>4. alive' \in [Slot -> BOOLEAN]
    BY <1>8 DEF FissionEvent, Kill, Typed
  <2>5. UNCHANGED <<mode, batch, step, kernel, event, sortvars, history>>
    BY <1>8 DEF FissionEvent, Run
  <2> QED
    BY <2>2, <2>3, <2>4, <2>5 DEF Typed, history, sortvars
<1>9. ASSUME NEW i \in 0..(N - 1), MultiEvent(i) PROVE Typed'
  <2>1. PICK extra \in {1, 2} :
          \/ dev' = [dev EXCEPT !.secWrite = @ + extra] /\ UNCHANGED bank
          \/ Banked(extra) /\ dev' = [dev EXCEPT !.sites = @ + extra]
          \/ UNCHANGED <<dev, bank>>
    <3>1. mode.nxn \in {"ingen", "bank", "drop"}
      BY EventAssumption DEF Typed
    <3> QED
      BY <1>9, <3>1 DEF MultiEvent
  <2>2. bank' \in [0..(BankCap - 1) -> Nat]
    BY <2>1, BankedTyped DEF Typed
  <2>3. dev' \in DevTypes
    <3>1. dev.secWrite + extra \in Nat /\ dev.sites + extra \in Nat
      BY <1>0, CountersNat
    <3> QED
      BY <1>0, <2>1, <3>1, Zenon DEF DevTypes
  <2>4. UNCHANGED <<mode, batch, step, kernel, alive, event, sortvars, history>>
    BY <1>9 DEF MultiEvent, Run
  <2> QED
    BY <2>2, <2>3, <2>4 DEF Typed, history, sortvars
<1>10. ASSUME NEW s \in Slot, RefillNothing(s) \/ InjectNothing(s) PROVE Typed'
  <2>1. dev' \in DevTypes /\ spare' \in Nat
    BY <1>0, <1>10, AdvancedTyped DEF RefillNothing, InjectNothing, Typed
  <2>2. UNCHANGED <<mode, batch, step, kernel, alive, event, sortvars, bank, who, begun, rouletted>>
    BY <1>10 DEF RefillNothing, InjectNothing, Leaves, Run
  <2> QED
    BY <2>1, <2>2 DEF Typed, sortvars
<1>11. ASSUME NEW s \in Slot, Refill(s) PROVE Typed'
  <2> DEFINE c == [Advanced EXCEPT !.refilled = @ + 1]
  <2>1. PICK inside \in BOOLEAN : Occupy(s, Neutron("pool", dev.next), c, inside)
    BY <1>11 DEF Refill
  <2>2. c \in DevTypes
    <3>1. Advanced \in DevTypes /\ Advanced.refilled + 1 \in Nat
      BY <1>0, AdvancedTyped, CountersNat
    <3> QED
      BY <3>1, Zenon DEF DevTypes
  <2>3. dev.next \in Int /\ "pool" \in Kinds
    BY <1>0 DEF DevTypes, Kinds
  <2> HIDE DEF c
  <2>4. /\ alive' \in [Slot -> BOOLEAN] /\ event' \in [Slot -> Queues \cup {NoEvent}]
        /\ dev' \in DevTypes
        /\ who' \in [Slot -> [kind : Kinds, i : Int]]
        /\ begun' \subseteq [kind : Kinds, i : Int] /\ IsFiniteSet(begun')
    BY <2>1, <2>2, <2>3, OccupyTyped
  <2>5. UNCHANGED <<mode, batch, step, kernel, sortvars, bank, rouletted, spare>>
    BY <1>11 DEF Refill, Run
  <2> QED
    BY <2>4, <2>5 DEF Typed, sortvars
<1>12. ASSUME NEW s \in Slot, Inject(s) PROVE Typed'
  <2> DEFINE c == [dev EXCEPT !.secRead = @ + 1]
  <2>1. PICK inside \in BOOLEAN : Occupy(s, Neutron("secondary", dev.secRead), c, inside)
    BY <1>12 DEF Inject
  <2>2. c \in DevTypes
    BY <1>0 DEF DevTypes
  <2>3. dev.secRead \in Int /\ "secondary" \in Kinds
    BY <1>0 DEF DevTypes, Kinds
  <2> HIDE DEF c
  <2>4. /\ alive' \in [Slot -> BOOLEAN] /\ event' \in [Slot -> Queues \cup {NoEvent}]
        /\ dev' \in DevTypes
        /\ who' \in [Slot -> [kind : Kinds, i : Int]]
        /\ begun' \subseteq [kind : Kinds, i : Int] /\ IsFiniteSet(begun')
    BY <2>1, <2>2, <2>3, OccupyTyped
  <2>5. UNCHANGED <<mode, batch, step, kernel, sortvars, bank, rouletted, spare>>
    BY <1>12 DEF Inject, Run
  <2> QED
    BY <2>4, <2>5 DEF Typed, sortvars
<1>13. CASE UNCHANGED vars
  BY <1>13 DEF vars, sortvars, history, Typed
<1> QED
  BY <1>1, <1>2, <1>3, <1>4, <1>5, <1>6, <1>7, <1>8, <1>9, <1>10, <1>11, <1>12, <1>13
     DEF Next, Thread

-----------------------------------------------------------------------------
(***************************************************************************)
(* The counting sort.                                                      *)
(***************************************************************************)
\* The kernels whose threads are slots and leave the sort alone.
Others(s) == InitStack(s) \/ RefillNothing(s) \/ Refill(s) \/ InjectNothing(s) \/ Inject(s)

LEMMA ThreadsAre ==
  ASSUME NEW s \in Slot, Thread(s)
  PROVE  Others(s) \/ Trace(s) \/ PartitionSkip(s) \/ Partition(s)
  BY DEF Thread, Others

\* What a thread of each kernel leaves alone.
LEMMA OthersKeep ==
  ASSUME NEW s, Others(s)
  PROVE  /\ kernel \in {"init", "refill", "inject"} /\ s \in todo /\ todo' = todo \ {s}
         /\ UNCHANGED <<mode, batch, step, kernel, sortvars, bank>>
<1>1. CASE InitStack(s)
  BY <1>1 DEF InitStack, Run
<1>2. CASE RefillNothing(s) \/ InjectNothing(s)
  BY <1>2 DEF RefillNothing, InjectNothing, Leaves, Run
<1>3. CASE Refill(s) \/ Inject(s)
  BY <1>3 DEF Refill, Inject, Run
<1> QED
  BY <1>1, <1>2, <1>3 DEF Others

LEMMA TraceKeeps ==
  ASSUME NEW s, Trace(s)
  PROVE  /\ kernel = "trace" /\ s \in todo /\ todo' = todo \ {s}
         /\ UNCHANGED <<mode, batch, step, kernel, offset, placed, sorted, who, begun, spare>>
  BY DEF Trace, TraceDead, TraceLeak, TraceCapture, TraceRoulette, TraceCollide, Run, sortvars, history

\* A neutron that collides leaves an event, counted; any other none.
LEMMA TraceCounts ==
  ASSUME NEW s \in Slot, Typed, Trace(s)
  PROVE  \/ /\ event' = [event EXCEPT ![s] = NoEvent] /\ alive' = [alive EXCEPT ![s] = FALSE]
            /\ UNCHANGED count
         \/ /\ alive[s] /\ UNCHANGED alive
            /\ \E e \in Queues : /\ event' = [event EXCEPT ![s] = e]
                                 /\ count' = [count EXCEPT ![e] = @ + 1]
<1>1. CASE TraceDead(s)
  <2>1. alive' = [alive EXCEPT ![s] = FALSE]
    BY <1>1 DEF TraceDead, Typed
  <2> QED
    BY <1>1, <2>1 DEF TraceDead, sortvars
<1>2. CASE TraceLeak(s)
  BY <1>2 DEF TraceLeak, Kill, sortvars
<1>3. CASE TraceCapture(s)
  BY <1>3 DEF TraceCapture, Kill, sortvars
<1>4. CASE TraceRoulette(s)
  BY <1>4 DEF TraceRoulette, Kill, sortvars
<1>5. CASE TraceCollide(s)
  BY <1>5 DEF TraceCollide
<1> QED
  BY <1>1, <1>2, <1>3, <1>4, <1>5 DEF Trace

LEMMA PartitionKeeps ==
  ASSUME NEW s, PartitionSkip(s) \/ Partition(s)
  PROVE  /\ kernel = "partition" /\ s \in todo /\ todo' = todo \ {s}
         /\ UNCHANGED <<mode, batch, step, kernel, alive, event, count, offset, dev, bank, history>>
  BY DEF PartitionSkip, Partition, Run, sortvars

LEMMA EventsKeep ==
  ASSUME NEW i, FissionEvent(i) \/ MultiEvent(i)
  PROVE  /\ kernel \in {"fission", "multi"} /\ i \in todo /\ todo' = todo \ {i}
         /\ UNCHANGED <<mode, batch, step, kernel, event, sortvars, history>>
  BY DEF FissionEvent, MultiEvent, Run

LEMMA LaunchKeeps ==
  ASSUME LaunchNext
  PROVE  /\ todo = {} /\ ~ Over
         /\ UNCHANGED <<mode, batch, alive, event, sortvars, dev, bank, who, begun, rouletted>>
  BY DEF LaunchNext, Launch, AfterStep, history

\* The kernels in the order of their launches, with their threads.
LEMMA LaunchOrder ==
  ASSUME LaunchNext
  PROVE  \/ /\ kernel \in {"init", "inject", "refill"}
            /\ \/ kernel' = "trace" /\ todo' = Slot
               \/ kernel' = "spent" /\ todo' = {}
         \/ kernel = "trace" /\ kernel' = "scan" /\ todo' = {1}
         \/ kernel = "scan" /\ kernel' = "drained" /\ todo' = {}
         \/ kernel = "scan" /\ kernel' = "partition" /\ todo' = Slot
         \/ /\ kernel = "partition" /\ kernel' = "fission"
            /\ todo' = IF mode.biased THEN {} ELSE ClassRange(Fission, Fission)
         \/ kernel = "fission" /\ kernel' = "multi" /\ todo' = ClassRange(N2N, N3N)
         \/ kernel = "multi" /\ kernel' = "refill" /\ todo' \in {{}, Slot}
         \/ kernel = "refill" /\ kernel' = "inject" /\ todo' = Slot
<1>1. CASE kernel \in {"init", "inject", "trace", "scan"}
  BY <1>1 DEF LaunchNext, Launch, AfterStep
<1>2. CASE kernel \in {"partition", "fission", "multi"}
  BY <1>2 DEF LaunchNext, Launch
<1>3. CASE kernel = "refill"
  BY <1>3 DEF LaunchNext, Launch, AfterStep
<1> QED
  BY <1>1, <1>2, <1>3 DEF LaunchNext

LEMMA NextIs ==
  ASSUME [Next]_vars
  PROVE  \/ NextBatch \/ LaunchNext \/ Scan \/ UNCHANGED vars
         \/ \E s \in Slot : Others(s) \/ Trace(s) \/ PartitionSkip(s) \/ Partition(s)
         \/ \E i \in 0..(N - 1) : FissionEvent(i) \/ MultiEvent(i)
  BY ThreadsAre DEF Next

LEMMA ThreadsStep ==
  ASSUME Typed, ThreadsTyped, [Next]_vars
  PROVE  ThreadsTyped'
<1>1. CASE NextBatch
  BY <1>1 DEF NextBatch, StartOfBatch, ThreadsTyped, Over
<1>2. CASE LaunchNext
  <2>1. UNCHANGED <<mode, offset>>
    BY <1>2, LaunchKeeps DEF sortvars
  <2>2. ClassRange(Fission, Fission)' = ClassRange(Fission, Fission)
        /\ ClassRange(N2N, N3N)' = ClassRange(N2N, N3N)
    BY <2>1 DEF ClassRange
  <2> QED
    BY <1>2, <2>1, <2>2, LaunchOrder DEF ThreadsTyped, Over
<1>3. CASE Scan
  BY <1>3 DEF Scan, Run, ThreadsTyped, Over
<1>4. ASSUME UNCHANGED <<kernel, mode, offset>>, todo' \subseteq todo PROVE ThreadsTyped'
  <2>1. ClassRange(Fission, Fission)' = ClassRange(Fission, Fission)
        /\ ClassRange(N2N, N3N)' = ClassRange(N2N, N3N)
    BY <1>4 DEF ClassRange
  <2> QED
    BY <1>4, <2>1 DEF ThreadsTyped, Over
<1>5. ASSUME NEW s \in Slot, Others(s) \/ Trace(s) \/ PartitionSkip(s) \/ Partition(s)
      PROVE  ThreadsTyped'
  BY <1>4, <1>5, OthersKeep, TraceKeeps, PartitionKeeps DEF sortvars
<1>6. ASSUME NEW i \in 0..(N - 1), FissionEvent(i) \/ MultiEvent(i) PROVE ThreadsTyped'
  BY <1>4, <1>6, EventsKeep DEF sortvars
<1>7. CASE UNCHANGED vars
  BY <1>4, <1>7 DEF vars, sortvars
<1> QED
  BY <1>1, <1>2, <1>3, <1>5, <1>6, <1>7, NextIs

LEMMA CountedStep ==
  ASSUME Typed, ThreadsTyped, Counted, [Next]_vars
  PROVE  Counted'
<1>1. CASE NextBatch
  <2>1. UNCHANGED count /\ kernel' = "init" /\ Over
    BY <1>1 DEF NextBatch, StartOfBatch, sortvars
  <2> QED
    BY <2>1 DEF Counted, Over
<1>2. CASE LaunchNext
  <2>1. UNCHANGED <<event, count>> /\ todo = {}
    BY <1>2, LaunchKeeps DEF sortvars
  <2>2. \A q \in Queues : Of(q)' = Of(q)
    BY <2>1 DEF Of
  <2>3. \A q \in Queues : Of(q) \ {} = Of(q) /\ Of(q) \ Slot = {}
    BY DEF Of
  <2>4. Cardinality({}) = 0
    BY FS_EmptySet
  <2> QED
    BY <1>2, <2>1, <2>2, <2>3, <2>4, LaunchOrder DEF Counted
<1>3. CASE Scan
  <2>1. kernel' = "scan" /\ todo' = {} /\ count' = [q \in Queues |-> 0]
    BY <1>3 DEF Scan, Run, ThreadsTyped
  <2> QED
    BY <2>1 DEF Counted
<1>4. ASSUME NEW s \in Slot, Trace(s) PROVE Counted'
  <2>1. kernel = "trace" /\ kernel' = "trace" /\ s \in todo /\ todo' = todo \ {s} /\ todo \subseteq Slot
    BY <1>4, TraceKeeps DEF ThreadsTyped
  <2> SUFFICES ASSUME NEW q \in Queues PROVE count'[q] = Cardinality(Of(q)' \ todo')
    BY <2>1 DEF Counted
  <2>2. count[q] = Cardinality(Of(q) \ todo) /\ IsFiniteSet(Of(q) \ todo) /\ count[q] \in Nat
    <3>1. IsFiniteSet(Of(q) \ todo)
      BY SlotsFinite DEF Of
    <3> QED
      BY <2>1, <3>1 DEF Counted, Typed
  <2>3. CASE event' = [event EXCEPT ![s] = NoEvent] /\ UNCHANGED count
    <3>1. Of(q)' \ todo' = Of(q) \ todo
      BY <2>1, <2>3, QueuesAre DEF Of, Typed
    <3> QED
      BY <2>2, <2>3, <3>1
  <2>4. ASSUME NEW e \in Queues, event' = [event EXCEPT ![s] = e], count' = [count EXCEPT ![e] = @ + 1]
        PROVE  count'[q] = Cardinality(Of(q)' \ todo')
    <3>1. CASE q = e
      <4>1. Of(q)' \ todo' = (Of(q) \ todo) \cup {s} /\ s \notin Of(q) \ todo
        BY <2>1, <2>4, <3>1 DEF Of, Typed
      <4>2. Cardinality((Of(q) \ todo) \cup {s}) = Cardinality(Of(q) \ todo) + 1
        BY <2>2, <4>1, FS_AddElement
      <4>3. count'[q] = count[q] + 1
        BY <2>4, <3>1 DEF Typed
      <4> QED
        BY <2>2, <4>1, <4>2, <4>3
    <3>2. CASE q # e
      <4>1. Of(q)' \ todo' = Of(q) \ todo
        BY <2>1, <2>4, <3>2 DEF Of, Typed
      <4>2. count'[q] = count[q]
        BY <2>4, <3>2 DEF Typed
      <4> QED
        BY <2>2, <4>1, <4>2
    <3> QED
      BY <3>1, <3>2
  <2> QED
    BY <1>4, <2>3, <2>4, TraceCounts
<1>5. ASSUME kernel \notin {"trace", "scan"}, UNCHANGED <<kernel, count>> PROVE Counted'
  BY <1>5 DEF Counted
<1>6. ASSUME NEW s \in Slot, Others(s) \/ PartitionSkip(s) \/ Partition(s) PROVE Counted'
  BY <1>5, <1>6, OthersKeep, PartitionKeeps DEF sortvars
<1>7. ASSUME NEW i \in 0..(N - 1), FissionEvent(i) \/ MultiEvent(i) PROVE Counted'
  BY <1>5, <1>7, EventsKeep DEF sortvars
<1>8. CASE UNCHANGED vars
  <2>1. \A q \in Queues : Of(q)' = Of(q)
    BY <1>8 DEF vars, Of
  <2> QED
    BY <1>8, <2>1 DEF vars, sortvars, Counted
<1> QED
  BY <1>1, <1>2, <1>3, <1>4, <1>6, <1>7, <1>8, NextIs

LEMMA OffsetsStep ==
  ASSUME Typed, ThreadsTyped, Counted, Offsets, [Next]_vars
  PROVE  Offsets'
<1>1. CASE NextBatch
  BY <1>1 DEF NextBatch, StartOfBatch, Offsets, Sorting
<1>2. ASSUME UNCHANGED <<event, offset>>,
             Sorting' \/ (kernel' = "scan" /\ todo' = {}) => Sorting \/ (kernel = "scan" /\ todo = {})
      PROVE  Offsets'
  <2>1. \A q \in 0..(5 * Bins) : Below(q)' = Below(q)
    BY <1>2 DEF Below
  <2> QED
    BY <1>2, <2>1 DEF Offsets
<1>3. CASE LaunchNext
  <2>1. UNCHANGED <<event, offset>> /\ todo = {}
    BY <1>3, LaunchKeeps DEF sortvars
  <2> QED
    BY <1>2, <1>3, <2>1, LaunchOrder DEF Sorting
<1>4. CASE Scan
  <2>1. kernel = "scan" /\ todo # {} /\ DOMAIN offset = 0..(5 * Bins) /\ UNCHANGED event
    BY <1>4 DEF Scan, Run, Typed
  <2>2. \A q \in 0..(5 * Bins) : offset'[q] = Cardinality(Before(q))
    BY <1>4, <2>1 DEF Scan
  <2>3. \A q \in 0..(5 * Bins) : Cardinality(Before(q)) = Cardinality(Below(q))
    BY <2>1, BeforeFinite
  <2>4. \A q \in 0..(5 * Bins) : Below(q)' = Below(q)
    BY <2>1 DEF Below
  <2> QED
    BY <2>2, <2>3, <2>4 DEF Offsets
<1>5. ASSUME NEW s \in Slot, Others(s) \/ Trace(s) PROVE Offsets'
  <2>1. kernel' \in {"init", "refill", "inject", "trace"}
    BY <1>5, OthersKeep, TraceKeeps
  <2> QED
    BY <2>1 DEF Offsets, Sorting
<1>6. ASSUME NEW s \in Slot, PartitionSkip(s) \/ Partition(s) PROVE Offsets'
  BY <1>2, <1>6, PartitionKeeps DEF Sorting
<1>7. ASSUME NEW i \in 0..(N - 1), FissionEvent(i) \/ MultiEvent(i) PROVE Offsets'
  BY <1>2, <1>7, EventsKeep DEF Sorting, sortvars
<1>8. CASE UNCHANGED vars
  BY <1>2, <1>8 DEF vars, sortvars, Sorting
<1> QED
  BY <1>1, <1>3, <1>4, <1>5, <1>6, <1>7, <1>8, NextIs

\* The thread of a slot with an event writes where no other slot is.
LEMMA PlacedPartition ==
  ASSUME Typed, ThreadsTyped, EventsAlive, Offsets, Placed, NEW s \in Slot, Partition(s)
  PROVE  Placed'
<1> DEFINE e == event[s]
           at == offset[e] + placed[e]
<1>1. /\ kernel = "partition" /\ kernel' = "partition" /\ s \in todo /\ todo' = todo \ {s}
      /\ UNCHANGED <<event, offset>>
  BY PartitionKeeps
<1>2. /\ e \in Queues /\ placed' = [placed EXCEPT ![e] = @ + 1]
      /\ sorted' = [sorted EXCEPT ![at] = s]
  BY DEF Partition, Typed
<1>3. Sorting /\ Unplaced = todo /\ Unplaced' = todo \ {s}
  BY <1>1 DEF Sorting, Unplaced
<1>4. \A q \in Queues : Of(q)' = Of(q)
  BY <1>1 DEF Of
<1>5. \A q \in Queues : /\ placed[q] = Cardinality(Of(q) \ todo) /\ IsFiniteSet(Of(q) \ todo)
                        /\ placed[q] \in Nat /\ offset[q] \in Nat
  <2>1. \A q \in Queues : Of(q) \ todo \in SUBSET Slot
    BY DEF Of
  <2>2. \A q \in Queues : offset[q] \in Nat /\ placed[q] \in Nat
    BY QueueLength, <1>3 DEF Typed
  <2> QED
    BY <1>3, <2>1, <2>2, SlotsFinite DEF Placed
<1> HIDE DEF e, at
<1>6. Of(e) \ (todo \ {s}) = (Of(e) \ todo) \cup {s} /\ s \notin Of(e) \ todo /\ s \in Of(e)
  BY <1>1 DEF Of, e
<1>7. Cardinality(Of(e) \ (todo \ {s})) = placed[e] + 1
  <2>1. Cardinality((Of(e) \ todo) \cup {s}) = Cardinality(Of(e) \ todo) + 1
    BY <1>2, <1>5, <1>6, FS_AddElement
  <2> QED
    BY <1>2, <1>5, <1>6, <2>1
<1>8. ASSUME NEW q \in Queues PROVE placed'[q] = Cardinality(Of(q)' \ Unplaced')
  <2>1. CASE q = e
    BY <1>2, <1>3, <1>4, <1>7, <2>1 DEF Typed
  <2>2. CASE q # e
    <3>1. Of(q) \ (todo \ {s}) = Of(q) \ todo
      BY <2>2 DEF Of, e
    <3> QED
      BY <1>2, <1>3, <1>4, <1>5, <2>2, <3>1 DEF Typed
  <2> QED
    BY <2>1, <2>2
<1>9. at \in offset[e]..(offset[e + 1] - 1) /\ at \in 0..(N - 1)
  <2>1. placed[e] + 1 <= Cardinality(Of(e)) /\ Cardinality(Of(e)) \in Nat
    <3>1. IsFiniteSet(Of(e)) /\ Cardinality(Of(e)) \in Nat
      BY SlotsFinite DEF Of
    <3>2. Cardinality(Of(e) \ (todo \ {s})) <= Cardinality(Of(e))
      BY <3>1, FS_Subset
    <3> QED
      BY <1>7, <3>1, <3>2
  <2>2. offset[e + 1] = offset[e] + Cardinality(Of(e)) /\ offset[e] \in Nat /\ offset[e + 1] <= N
        /\ offset[e + 1] \in Nat
    BY <1>2, <1>3, QueueLength
  <2>3. placed[e] \in Nat /\ N \in Nat
    BY <1>2, <1>5, Constants
  <2> QED
    BY <2>1, <2>2, <2>3 DEF at
<1>10. sorted'[at] = s /\ \A i \in 0..(N - 1) : i # at => sorted'[i] = sorted[i]
  BY <1>2, <1>9 DEF Typed
<1>11. ASSUME NEW q \in Queues, NEW i \in Places(q)
       PROVE  i # at /\ sorted'[i] = sorted[i] /\ i \in offset[q]..(offset[q] + placed'[q] - 1)
  <2>1. i \in 0..(N - 1) /\ (e # q => i # at)
    BY <1>2, <1>3, <1>9, PlacesApart
  <2>5. placed[q] \in Nat /\ offset[q] \in Nat
    BY <1>5
  <2>6. i \in offset[q]..(offset[q] + placed[q] - 1)
    BY DEF Places
  <2>2. e = q => i # at
    BY <2>5, <2>6 DEF at
  <2>3. placed'[q] \in Nat /\ placed'[q] >= placed[q]
    BY <1>2, <1>5 DEF Typed
  <2>4. i \in offset[q]..(offset[q] + placed'[q] - 1)
    BY <2>3, <2>5, <2>6
  <2> QED
    BY <1>10, <2>1, <2>2, <2>4
<1>12. ASSUME NEW x \in Slot \ Unplaced', event'[x] # NoEvent
       PROVE  \E i \in offset'[event'[x]]..(offset'[event'[x]] + placed'[event'[x]] - 1) : sorted'[i] = x
  <2>1. CASE x = s
    <3>1. placed'[e] = placed[e] + 1 /\ placed[e] \in Nat /\ offset[e] \in Nat
      BY <1>2, <1>5 DEF Typed
    <3>2. at \in offset[e]..(offset[e] + placed'[e] - 1)
      BY <3>1 DEF at
    <3>3. event'[x] = e
      BY <1>1, <2>1 DEF e
    <3> QED
      BY <1>1, <1>10, <2>1, <3>2, <3>3
  <2>2. CASE x # s
    <3>1. x \in Slot \ Unplaced /\ event[x] # NoEvent /\ event'[x] = event[x]
      BY <1>1, <1>3, <1>12, <2>2
    <3>2. event[x] \in Queues
      BY <3>1 DEF Typed
    <3>3. PICK i \in Places(event[x]) : sorted[i] = x
      BY <1>3, <3>1 DEF Placed
    <3> DEFINE q == event[x]
    <3>5. q \in Queues /\ i \in Places(q) /\ event'[x] = q
      BY <3>1, <3>2, <3>3
    <3> HIDE DEF q
    <3>4. sorted'[i] = x /\ i \in offset[q]..(offset[q] + placed'[q] - 1)
      BY <1>1, <1>11, <3>3, <3>5 DEF Places
    <3> QED
      BY <1>1, <3>4, <3>5
  <2> QED
    BY <2>1, <2>2
<1> QED
  BY <1>1, <1>8, <1>12 DEF Placed, Places

LEMMA PlacedStep ==
  ASSUME Typed, ThreadsTyped, EventsAlive, Offsets, Placed, [Next]_vars
  PROVE  Placed'
<1>1. CASE NextBatch
  BY <1>1 DEF NextBatch, StartOfBatch, Placed, Sorting
<1>2. ASSUME UNCHANGED <<event, sortvars>>, Sorting' => Sorting, kernel' # "scan",
             Unplaced' = {}, Unplaced = {}
      PROVE  Placed'
  <2>1. \A q \in Queues : Of(q)' = Of(q)
    BY <1>2 DEF Of
  <2>2. \A q : Places(q)' = Places(q)
    BY <1>2 DEF sortvars, Places
  <2> QED
    BY <1>2, <2>1, <2>2 DEF Placed, sortvars
<1>3. CASE LaunchNext
  <2>1. UNCHANGED <<event, sortvars>> /\ todo = {}
    BY <1>3, LaunchKeeps
  <2>2. CASE kernel = "scan"
    <3>1. kernel' = "drained" \/ (kernel' = "partition" /\ todo' = Slot)
      BY <1>3, <2>2, LaunchOrder
    <3>2. ASSUME kernel' = "partition", todo' = Slot PROVE Placed'
      <4>1. \A q \in Queues : Of(q)' \ Unplaced' = {} /\ placed'[q] = 0
        BY <2>1, <2>2, <3>2 DEF Of, Unplaced, Placed, sortvars
      <4>2. Slot \ Unplaced' = {}
        BY <3>2 DEF Unplaced
      <4> QED
        BY <3>2, <4>1, <4>2, FS_EmptySet DEF Placed
    <3> QED
      BY <3>1, <3>2 DEF Placed, Sorting
  <2>3. CASE kernel \in {"partition", "fission"}
    <3>1. kernel' \in {"fission", "multi"}
      BY <1>3, <2>3, LaunchOrder
    <3> QED
      BY <1>2, <2>1, <2>3, <3>1 DEF Sorting, Unplaced
  <2>4. CASE kernel \notin {"scan", "partition", "fission"}
    <3>1. kernel' \in {"spent", "trace", "refill", "inject"} \/ (kernel' = "scan" /\ todo' = {1})
      BY <1>3, <2>4, LaunchOrder
    <3> QED
      BY <3>1 DEF Placed, Sorting
  <2> QED
    BY <2>2, <2>3, <2>4
<1>4. CASE Scan
  <2>1. kernel' = "scan" /\ placed' = [q \in Queues |-> 0]
    BY <1>4 DEF Scan, Run
  <2> QED
    BY <2>1 DEF Placed, Sorting
<1>5. ASSUME NEW s \in Slot, Others(s) \/ Trace(s) PROVE Placed'
  <2>1. kernel' \in {"init", "refill", "inject", "trace"}
    BY <1>5, OthersKeep, TraceKeeps
  <2> QED
    BY <2>1 DEF Placed, Sorting
<1>6. ASSUME NEW s \in Slot, PartitionSkip(s) PROVE Placed'
  <2>1. /\ kernel = "partition" /\ kernel' = "partition" /\ s \in todo /\ todo' = todo \ {s}
        /\ UNCHANGED <<event, sortvars>>
    BY <1>6, PartitionKeeps DEF PartitionSkip
  <2>2. event[s] = NoEvent
    BY <1>6, <2>1 DEF PartitionSkip, EventsAlive
  <2>3. \A q \in Queues : Of(q)' \ Unplaced' = Of(q) \ Unplaced
    BY <2>1, <2>2, QueuesAre DEF Of, Unplaced
  <2>4. \A q : Places(q)' = Places(q)
    BY <2>1 DEF sortvars, Places
  <2>5. \A x \in Slot \ Unplaced' : x \in Slot \ Unplaced \/ event[x] = NoEvent
    BY <2>1, <2>2 DEF Unplaced
  <2> QED
    BY <2>1, <2>3, <2>4, <2>5 DEF Placed, Sorting, sortvars
<1>7. ASSUME NEW s \in Slot, Partition(s) PROVE Placed'
  BY <1>7, PlacedPartition
<1>8. ASSUME NEW i \in 0..(N - 1), FissionEvent(i) \/ MultiEvent(i) PROVE Placed'
  BY <1>2, <1>8, EventsKeep DEF Sorting, Unplaced
<1>9. CASE UNCHANGED vars
  <2>1. Unplaced' = Unplaced /\ \A q \in Queues : Of(q)' = Of(q)
    BY <1>9 DEF vars, Of, Unplaced
  <2>2. UNCHANGED <<kernel, todo, event, offset, placed, sorted>>
    BY <1>9 DEF vars, sortvars
  <2>3. Sorting' = Sorting
    BY <2>2 DEF Sorting
  <2>4. ASSUME Sorting, NEW x \in Slot \ Unplaced, event[x] # NoEvent
        PROVE  \E i \in offset'[event'[x]]..(offset'[event'[x]] + placed'[event'[x]] - 1) : sorted'[i] = x
    BY <2>2, <2>4 DEF Placed, Places
  <2> QED
    BY <2>1, <2>2, <2>3, <2>4 DEF Placed, Places
<1> QED
  BY <1>1, <1>3, <1>4, <1>5, <1>6, <1>7, <1>8, <1>9, NextIs

LEMMA EventsAliveStep ==
  ASSUME Typed, ThreadsTyped, EventsAlive, Offsets, Placed, [Next]_vars
  PROVE  EventsAlive'
<1>1. CASE NextBatch
  BY <1>1 DEF NextBatch, StartOfBatch, EventsAlive
<1>2. CASE LaunchNext
  <2>1. UNCHANGED <<alive, event, sorted>> /\ todo = {}
    BY <1>2, LaunchKeeps DEF sortvars
  <2>2. CASE kernel = "partition"
    <3>1. kernel' = "fission" /\ todo' \subseteq ClassRange(Fission, Fission)
      BY <1>2, <2>2, LaunchOrder
    <3>2. Sorting /\ Unplaced = {}
      BY <2>1, <2>2 DEF Sorting, Unplaced
    <3>3. ASSUME NEW i \in ClassRange(Fission, Fission) PROVE alive[sorted[i]]
      <4>1. 2 * Bins \in 0..(5 * Bins) /\ 3 * Bins \in 0..(5 * Bins) /\ 2 * Bins <= 3 * Bins
        BY Constants
      <4>2. i \in offset[2 * Bins]..(offset[3 * Bins] - 1)
        BY DEF ClassRange, Fission
      <4>3. sorted[i] \in Between(2 * Bins, 3 * Bins)
        BY <3>2, <4>1, <4>2, RangeLists
      <4>4. sorted[i] \in Slot /\ event[sorted[i]] # NoEvent
        BY <4>1, <4>3 DEF Between, NoEvent
      <4> QED
        BY <2>2, <4>4 DEF EventsAlive
    <3> QED
      BY <2>1, <3>1, <3>3 DEF EventsAlive
  <2>3. CASE kernel = "scan"
    <3>1. kernel' \in {"drained", "partition"}
      BY <1>2, <2>3, LaunchOrder
    <3> QED
      BY <2>1, <2>3, <3>1 DEF EventsAlive
  <2>4. CASE kernel = "trace"
    <3>1. kernel' = "scan"
      BY <1>2, <2>4, LaunchOrder
    <3> QED
      BY <2>1, <2>4, <3>1 DEF EventsAlive
  <2>5. CASE kernel \notin {"trace", "scan", "partition"}
    <3>1. kernel' \in {"spent", "multi", "refill", "inject"} \/ (kernel' = "trace" /\ todo' = Slot)
      BY <1>2, <2>5, LaunchOrder
    <3> QED
      BY <3>1 DEF EventsAlive
  <2> QED
    BY <2>2, <2>3, <2>4, <2>5
<1>3. CASE Scan
  BY <1>3 DEF Scan, Run, EventsAlive
<1>4. ASSUME NEW s \in Slot, InitStack(s) PROVE EventsAlive'
  <2>1. kernel = "init" /\ kernel' = "init" /\ todo' = todo \ {s} /\ todo \subseteq Slot
    BY <1>4 DEF InitStack, Run, ThreadsTyped
  <2>2. alive' = alive \/ alive' = [alive EXCEPT ![s] = FALSE]
    BY <1>4 DEF InitStack, Kill
  <2> QED
    BY <2>1, <2>2 DEF EventsAlive, Typed
<1>5. ASSUME NEW s \in Slot, Trace(s) PROVE EventsAlive'
  <2>1. kernel = "trace" /\ kernel' = "trace" /\ todo' = todo \ {s}
    BY <1>5, TraceKeeps
  <2> SUFFICES ASSUME NEW x \in Slot \ todo' PROVE alive'[x] <=> event'[x] # NoEvent
    BY <2>1 DEF EventsAlive
  <2>2. x # s => (alive[x] <=> event[x] # NoEvent)
    BY <2>1 DEF EventsAlive
  <2>3. CASE event' = [event EXCEPT ![s] = NoEvent] /\ alive' = [alive EXCEPT ![s] = FALSE]
    BY <2>2, <2>3 DEF Typed
  <2>4. ASSUME alive[s], UNCHANGED alive, NEW e \in Queues, event' = [event EXCEPT ![s] = e]
        PROVE  alive'[x] <=> event'[x] # NoEvent
    BY <2>2, <2>4, QueuesAre DEF Typed
  <2> QED
    BY <1>5, <2>3, <2>4, TraceCounts
<1>6. ASSUME NEW s \in Slot, PartitionSkip(s) \/ Partition(s) PROVE EventsAlive'
  BY <1>6, PartitionKeeps DEF EventsAlive
<1>7. ASSUME NEW s \in Slot, RefillNothing(s) \/ Refill(s) \/ InjectNothing(s) \/ Inject(s)
      PROVE  EventsAlive'
  <2>1. kernel' \in {"refill", "inject"}
    BY <1>7 DEF RefillNothing, Refill, InjectNothing, Inject, Leaves, Run
  <2> QED
    BY <2>1 DEF EventsAlive
<1>8. ASSUME NEW i \in 0..(N - 1), FissionEvent(i) PROVE EventsAlive'
  <2>1. /\ kernel = "fission" /\ kernel' = "fission" /\ i \in todo /\ todo' = todo \ {i}
        /\ UNCHANGED sorted
    BY <1>8 DEF FissionEvent, Run, sortvars
  <2>2. todo \subseteq ClassRange(Fission, Fission)
    BY <2>1 DEF ThreadsTyped
  <2>3. Sorting /\ Unplaced = {}
    BY <2>1 DEF Sorting, Unplaced
  <2>4. 2 * Bins \in 0..(5 * Bins) /\ 3 * Bins \in 0..(5 * Bins) /\ 2 * Bins <= 3 * Bins
    BY Constants
  <2>5. ClassRange(Fission, Fission) = offset[2 * Bins]..(offset[3 * Bins] - 1)
    BY DEF ClassRange, Fission
  <2>6. \A j \in ClassRange(Fission, Fission) : sorted[j] = sorted[i] => j = i
    BY <2>1, <2>2, <2>3, <2>4, <2>5, RangeLists
  <2>7. alive' = [alive EXCEPT ![sorted[i]] = FALSE]
    BY <1>8 DEF FissionEvent, Kill
  <2>8. ASSUME NEW j \in todo' PROVE alive'[sorted'[j]]
    <3>1. j \in todo /\ sorted[j] # sorted[i]
      BY <2>1, <2>2, <2>6
    <3>2. alive[sorted[j]]
      BY <2>1, <3>1 DEF EventsAlive
    <3>3. j \in 0..(N - 1)
      BY <2>2, <2>3, <2>4, <2>5, <3>1, RangeLists
    <3> QED
      BY <2>1, <2>7, <3>1, <3>2, <3>3 DEF Typed
  <2> QED
    BY <2>1, <2>8 DEF EventsAlive
<1>9. ASSUME NEW i \in 0..(N - 1), MultiEvent(i) PROVE EventsAlive'
  BY <1>9, EventsKeep DEF MultiEvent, Run, EventsAlive
<1>10. CASE UNCHANGED vars
  BY <1>10 DEF vars, sortvars, EventsAlive
<1> QED
  BY <1>1, <1>2, <1>3, <1>4, <1>5, <1>6, <1>7, <1>8, <1>9, <1>10, NextIs DEF Others

LEMMA SortInit == Init => ThreadsTyped /\ Counted /\ EventsAlive /\ Offsets /\ Placed
<1> SUFFICES ASSUME Init PROVE ThreadsTyped /\ Counted /\ EventsAlive /\ Offsets /\ Placed
  OBVIOUS
<1>1. kernel = "init" /\ todo = Slot /\ count = [q \in Queues |-> 0] /\ \A s \in Slot : alive[s]
  BY DEF Init
<1> QED
  BY <1>1 DEF ThreadsTyped, Over, Counted, EventsAlive, Offsets, Placed, Sorting

LEMMA SortStep == SortInv /\ [Next]_vars => SortInv'
  BY TypedStep, ThreadsStep, CountedStep, OffsetsStep, PlacedStep, EventsAliveStep DEF SortInv

LEMMA SortInvariant == Spec => []SortInv
<1>1. Init => SortInv
  BY TypedInit, SortInit DEF SortInv
<1> QED
  BY <1>1, SortStep, PTL DEF Spec

\* The types of the state, the threads of each kernel included.
THEOREM TypeCorrect == Spec => [](Typed /\ ThreadsTyped)
<1>1. SortInv => Typed /\ ThreadsTyped
  BY DEF SortInv
<1> QED
  BY <1>1, SortInvariant, PTL

\* The queues of a class are Bins in a row.
LEMMA ClassOf ==
  ASSUME NEW e \in Queues, NEW c \in 0..4
  PROVE  Class(e) = c <=> e \in (c * Bins)..((c + 1) * Bins - 1)
<1> USE QueuesAre
<1>1. CASE c = 0
  BY <1>1 DEF Class
<1>2. CASE c = 1
  BY <1>2 DEF Class
<1>3. CASE c = 2
  BY <1>3 DEF Class
<1>4. CASE c = 3
  BY <1>4 DEF Class
<1>5. CASE c = 4
  BY <1>5 DEF Class
<1> QED
  BY <1>1, <1>2, <1>3, <1>4, <1>5

\* The counting sort hands every collision to the kernel of its class, once.
THEOREM CollisionsHandedOnce == Spec => []EachCollisionOnce
<1>1. SortInv => EachCollisionOnce
  <2> SUFFICES ASSUME SortInv, kernel = "partition", todo = {}, NEW c \in 0..4
               PROVE  /\ {sorted[i] : i \in ClassRange(c, c)} = {s \in Live : Class(event[s]) = c}
                      /\ Cardinality(ClassRange(c, c)) = Cardinality({s \in Live : Class(event[s]) = c})
    BY DEF EachCollisionOnce
  <2> DEFINE lo == c * Bins
             hi == (c + 1) * Bins
  <2>1. lo \in 0..(5 * Bins) /\ hi \in 0..(5 * Bins) /\ lo <= hi
    <3>1. c = 0 \/ c = 1 \/ c = 2 \/ c = 3 \/ c = 4
      OBVIOUS
    <3> QED
      BY <3>1, Constants
  <2>2. ClassRange(c, c) = offset[lo]..(offset[hi] - 1)
    BY DEF ClassRange
  <2>3. Typed /\ Offsets /\ Placed /\ Sorting /\ Unplaced = {}
    BY DEF SortInv, Sorting, Unplaced
  <2>4. Between(lo, hi) = {s \in Live : Class(event[s]) = c}
    <3>1. ASSUME NEW s \in Slot
          PROVE  event[s] \in lo..(hi - 1) <=> alive[s] /\ Class(event[s]) = c
      <4>1. alive[s] <=> event[s] # NoEvent
        BY DEF SortInv, EventsAlive
      <4>2. CASE event[s] = NoEvent
        BY <2>1, <4>1, <4>2 DEF NoEvent
      <4>3. CASE event[s] # NoEvent
        <5>1. event[s] \in Queues
          BY <2>3, <4>3 DEF Typed
        <5> QED
          BY <4>1, <4>3, <5>1, ClassOf
      <4> QED
        BY <4>2, <4>3
    <3> QED
      BY <3>1 DEF Between, Live
  <2> HIDE DEF lo, hi
  <2>5. /\ {sorted[i] : i \in offset[lo]..(offset[hi] - 1)} = Between(lo, hi)
        /\ Cardinality(offset[lo]..(offset[hi] - 1)) = Cardinality(Between(lo, hi))
    BY <2>1, <2>3, RangeLists
  <2> QED
    BY <2>2, <2>4, <2>5
<1> QED
  BY <1>1, SortInvariant, PTL

-----------------------------------------------------------------------------
(***************************************************************************)
(* The balance of the neutrons.                                            *)
(***************************************************************************)
LEMMA LiveFinite == IsFiniteSet(Live) /\ Cardinality(Live) \in Nat
  BY SlotsFinite DEF Live

LEMMA LiveKilled ==
  ASSUME Typed, NEW s \in Slot, alive[s], alive' = [alive EXCEPT ![s] = FALSE]
  PROVE  Cardinality(Live') = Cardinality(Live) - 1
<1>1. Live' = Live \ {s} /\ s \in Live
  BY DEF Typed, Live
<1> QED
  BY <1>1, LiveFinite, FS_RemoveElement

LEMMA LiveTaken ==
  ASSUME Typed, NEW s \in Slot, ~ alive[s], NEW inside \in BOOLEAN,
         alive' = [alive EXCEPT ![s] = inside]
  PROVE  Cardinality(Live') = Cardinality(Live) + IF inside THEN 1 ELSE 0
<1>1. CASE inside
  <2>1. Live' = Live \cup {s} /\ s \notin Live
    BY <1>1 DEF Typed, Live
  <2> QED
    BY <1>1, <2>1, LiveFinite, FS_AddElement
<1>2. CASE ~ inside
  <2>1. Live' = Live
    BY <1>2 DEF Typed, Live
  <2> QED
    BY <1>2, <2>1, LiveFinite
<1> QED
  BY <1>1, <1>2

\* The neutrons given a slot, and those whose history ended.
Started == N + dev.refilled + dev.secRead
Ended == dev.leak + dev.capture + rouletted + IF mode.biased THEN 0 ELSE dev.fissions

LEMMA AccountedIs ==
  Typed => /\ Accounted <=> Started = Cardinality(Live) + Ended
           /\ Started \in Int /\ Ended \in Int /\ Cardinality(Live) \in Int
<1> SUFFICES ASSUME Typed
             PROVE  /\ Accounted <=> Started = Cardinality(Live) + Ended
                    /\ Started \in Int /\ Ended \in Int /\ Cardinality(Live) \in Int
  OBVIOUS
<1>1. /\ dev.refilled \in Int /\ dev.secRead \in Int /\ dev.leak \in Int /\ dev.capture \in Int
      /\ dev.fissions \in Int /\ rouletted \in Int
  BY DEF Typed, DevTypes
<1>2. Cardinality(Live) \in Int /\ N \in Int
  BY LiveFinite, Constants
<1>3. CASE mode.biased
  BY <1>1, <1>2, <1>3 DEF Accounted, Started, Ended
<1>4. CASE ~ mode.biased
  BY <1>1, <1>2, <1>4 DEF Accounted, Started, Ended
<1> QED
  BY <1>3, <1>4

\* A history ends.
LEMMA OneEnds ==
  ASSUME Typed, Typed', Accounted, NEW s \in Slot, alive[s], alive' = [alive EXCEPT ![s] = FALSE],
         mode' = mode, dev'.refilled = dev.refilled, dev'.secRead = dev.secRead,
         Ended' = Ended + 1
  PROVE  Accounted'
<1>1. Cardinality(Live') = Cardinality(Live) - 1
  BY LiveKilled
<1>2. Started' = Started
  BY DEF Started
<1>3. (Accounted <=> Started = Cardinality(Live) + Ended) /\ Ended \in Int /\ Cardinality(Live) \in Int
  BY AccountedIs
<1>4. (Typed => (Accounted <=> Started = Cardinality(Live) + Ended))'
  BY AccountedIs, PTL
<1> QED
  BY <1>1, <1>2, <1>3, <1>4

\* A history begins, and ends at once outside the geometry.
LEMMA OneBegins ==
  ASSUME Typed, Typed', Accounted, NEW s \in Slot, ~ alive[s], NEW inside \in BOOLEAN,
         alive' = [alive EXCEPT ![s] = inside],
         Started' = Started + 1, Ended' = Ended + IF inside THEN 0 ELSE 1
  PROVE  Accounted'
<1>1. Cardinality(Live') = Cardinality(Live) + IF inside THEN 1 ELSE 0
  BY LiveTaken
<1>2. /\ Accounted <=> Started = Cardinality(Live) + Ended
      /\ Started \in Int /\ Ended \in Int /\ Cardinality(Live) \in Int
  BY AccountedIs
<1>3. (Typed => (Accounted <=> Started = Cardinality(Live) + Ended))'
  BY AccountedIs, PTL
<1> QED
  BY <1>1, <1>2, <1>3

LEMMA AccountedStep ==
  ASSUME SortInv, Accounted, [Next]_vars
  PROVE  Accounted'
<1>0. Typed /\ ThreadsTyped /\ EventsAlive /\ Offsets /\ Placed /\ Typed' /\ dev \in DevTypes
  BY SortStep DEF SortInv, Typed
<1>n. /\ dev.next \in Int /\ dev.refilled \in Int /\ dev.secRead \in Int /\ dev.leak \in Int /\ dev.capture \in Int
      /\ dev.fissions \in Int /\ rouletted \in Int /\ Cardinality(Live) \in Int
  BY <1>0, LiveFinite DEF Typed, DevTypes
<1>1. CASE NextBatch
  <2>1. Live' = Slot
    BY <1>1 DEF NextBatch, StartOfBatch, Live
  <2>2. Cardinality(Slot) = N /\ N \in Nat
    BY Constants, FS_Interval DEF Slot
  <2>3. dev' = Zeroed /\ rouletted' = 0
    BY <1>1 DEF NextBatch, StartOfBatch
  <2>4. /\ dev'.refilled = 0 /\ dev'.secRead = 0 /\ dev'.leak = 0 /\ dev'.capture = 0
        /\ dev'.fissions = 0
    BY <2>3 DEF Zeroed
  <2> QED
    BY <2>1, <2>2, <2>3, <2>4 DEF Accounted
<1>2. ASSUME UNCHANGED <<mode, alive, rouletted>>,
             dev'.refilled = dev.refilled, dev'.secRead = dev.secRead, dev'.leak = dev.leak,
             dev'.capture = dev.capture, mode.biased \/ dev'.fissions = dev.fissions
      PROVE  Accounted'
  <2>1. Live' = Live
    BY <1>2 DEF Live
  <2> QED
    BY <1>2, <2>1 DEF Accounted
<1>3. CASE LaunchNext
  BY <1>2, <1>3, LaunchKeeps
<1>4. CASE Scan
  BY <1>2, <1>4 DEF Scan, Run, history
<1>5. ASSUME NEW s \in Slot, InitStack(s) PROVE Accounted'
  <2>1. UNCHANGED <<mode, rouletted>> /\ alive[s]
    BY <1>0, <1>5 DEF InitStack, Run, history, EventsAlive
  <2>2. CASE UNCHANGED <<alive, dev>>
    BY <1>2, <2>1, <2>2
  <2>3. CASE Kill(s) /\ dev' = [dev EXCEPT !.leak = @ + 1]
    <3>2. /\ dev'.refilled = dev.refilled /\ dev'.secRead = dev.secRead /\ dev'.leak = dev.leak + 1
          /\ dev'.capture = dev.capture /\ dev'.fissions = dev.fissions
      BY <1>0, <2>3 DEF DevTypes
    <3>3. Ended' = Ended + 1
      BY <1>n, <2>1, <3>2, SMT DEF Ended
    <3> QED
      BY <1>0, <2>1, <2>3, <3>2, <3>3, OneEnds DEF Kill
  <2> QED
    BY <1>5, <2>2, <2>3 DEF InitStack
<1>6. ASSUME NEW s \in Slot, TraceDead(s) PROVE Accounted'
  BY <1>2, <1>6 DEF TraceDead, Run, history
<1>7. ASSUME NEW s \in Slot, TraceLeak(s) PROVE Accounted'
  <2>1. UNCHANGED <<mode, rouletted>> /\ alive[s] /\ Kill(s) /\ dev' = [dev EXCEPT !.leak = @ + 1]
    BY <1>7 DEF TraceLeak, Run, history
  <2>3. /\ dev'.refilled = dev.refilled /\ dev'.secRead = dev.secRead /\ dev'.leak = dev.leak + 1
        /\ dev'.capture = dev.capture /\ dev'.fissions = dev.fissions
    BY <1>0, <2>1 DEF DevTypes
  <2>2. Ended' = Ended + 1
    BY <1>n, <2>1, <2>3 DEF Ended
  <2> QED
    BY <1>0, <2>1, <2>2, <2>3, OneEnds DEF Kill
<1>8. ASSUME NEW s \in Slot, TraceCapture(s) PROVE Accounted'
  <2>1. UNCHANGED <<mode, rouletted>> /\ alive[s] /\ Kill(s)
    BY <1>8 DEF TraceCapture, Run, history
  <2>2. PICK k \in SitesAtCollision :
          dev' = [dev EXCEPT !.sites = @ + k, !.capture = @ + 1,
                             !.fissions = @ + IF k > 0 THEN 1 ELSE 0]
    BY <1>8, Zenon DEF TraceCapture
  <2>4. /\ dev'.refilled = dev.refilled /\ dev'.secRead = dev.secRead /\ dev'.leak = dev.leak
        /\ dev'.capture = dev.capture + 1
        /\ dev'.fissions = dev.fissions + IF k > 0 THEN 1 ELSE 0
    BY <1>0, <2>2 DEF DevTypes
  <2>5. ~ mode.biased => dev'.fissions = dev.fissions
    BY <1>n, <2>4 DEF SitesAtCollision
  <2>3. Ended' = Ended + 1
    BY <1>n, <2>1, <2>4, <2>5 DEF Ended
  <2> QED
    BY <1>0, <2>1, <2>3, <2>4, OneEnds DEF Kill
<1>9. ASSUME NEW k \in SitesAtCollision, AtCollision(k)
      PROVE  /\ dev'.refilled = dev.refilled /\ dev'.secRead = dev.secRead /\ dev'.leak = dev.leak
             /\ dev'.capture = dev.capture /\ (~ mode.biased => dev'.fissions = dev.fissions)
  <2>1. dev' = [dev EXCEPT !.sites = @ + k, !.fissions = @ + IF k > 0 THEN 1 ELSE 0]
    BY <1>9 DEF AtCollision
  <2>2. /\ dev'.refilled = dev.refilled /\ dev'.secRead = dev.secRead /\ dev'.leak = dev.leak
        /\ dev'.capture = dev.capture /\ dev'.fissions = dev.fissions + IF k > 0 THEN 1 ELSE 0
    BY <1>0, <2>1 DEF DevTypes
  <2> QED
    BY <1>n, <2>2 DEF SitesAtCollision
<1>10. ASSUME NEW s \in Slot, TraceRoulette(s) PROVE Accounted'
  <2>1. UNCHANGED mode /\ alive[s] /\ Kill(s) /\ rouletted' = rouletted + 1
    BY <1>10 DEF TraceRoulette, Run
  <2>3. /\ dev'.refilled = dev.refilled /\ dev'.secRead = dev.secRead /\ dev'.leak = dev.leak
        /\ dev'.capture = dev.capture /\ (~ mode.biased => dev'.fissions = dev.fissions)
    BY <1>9, <1>10 DEF TraceRoulette
  <2>2. Ended' = Ended + 1
    BY <1>n, <2>1, <2>3 DEF Ended
  <2> QED
    BY <1>0, <2>1, <2>2, <2>3, OneEnds DEF Kill
<1>11. ASSUME NEW s \in Slot, TraceCollide(s) PROVE Accounted'
  <2>1. UNCHANGED <<mode, alive, rouletted>>
    BY <1>11 DEF TraceCollide, Run, history
  <2>2. /\ dev'.refilled = dev.refilled /\ dev'.secRead = dev.secRead /\ dev'.leak = dev.leak
        /\ dev'.capture = dev.capture /\ (~ mode.biased => dev'.fissions = dev.fissions)
    BY <1>9, <1>11 DEF TraceCollide
  <2> QED
    BY <1>2, <2>1, <2>2
<1>12. ASSUME NEW s \in Slot, PartitionSkip(s) \/ Partition(s) PROVE Accounted'
  BY <1>2, <1>12, PartitionKeeps DEF history
<1>13. ASSUME NEW i \in 0..(N - 1), FissionEvent(i) PROVE Accounted'
  <2>1. kernel = "fission" /\ i \in todo /\ UNCHANGED <<mode, rouletted>> /\ Kill(sorted[i])
    BY <1>13 DEF FissionEvent, Run, history
  <2>2. sorted[i] \in Slot /\ alive[sorted[i]] /\ ~ mode.biased
    BY <1>0, <2>1 DEF Typed, ThreadsTyped, EventsAlive
  <2>3. PICK k \in 0..MaxNu : dev' = [dev EXCEPT !.sites = @ + k, !.fissions = @ + 1]
    BY <1>13, Zenon DEF FissionEvent
  <2>4. /\ dev'.refilled = dev.refilled /\ dev'.secRead = dev.secRead /\ dev'.leak = dev.leak
        /\ dev'.capture = dev.capture /\ dev'.fissions = dev.fissions + 1
    BY <1>0, <2>3 DEF DevTypes
  <2>5. Ended' = Ended + 1
    BY <1>n, <2>1, <2>2, <2>4 DEF Ended
  <2> QED
    BY <1>0, <2>1, <2>2, <2>4, <2>5, OneEnds DEF Kill
<1>14. ASSUME NEW i \in 0..(N - 1), MultiEvent(i) PROVE Accounted'
  <2>1. UNCHANGED <<mode, alive, rouletted>>
    BY <1>14 DEF MultiEvent, Run, history
  <2>2. PICK extra \in {1, 2} :
          \/ dev' = [dev EXCEPT !.secWrite = @ + extra]
          \/ dev' = [dev EXCEPT !.sites = @ + extra]
          \/ UNCHANGED dev
    <3>1. mode.nxn \in {"ingen", "bank", "drop"}
      BY <1>0, EventAssumption DEF Typed
    <3> QED
      BY <1>14, <3>1 DEF MultiEvent
  <2>3. /\ dev'.refilled = dev.refilled /\ dev'.secRead = dev.secRead /\ dev'.leak = dev.leak
        /\ dev'.capture = dev.capture /\ dev'.fissions = dev.fissions
    BY <1>0, <2>2 DEF DevTypes
  <2> QED
    BY <1>2, <2>1, <2>3
<1>15. ASSUME NEW s \in Slot, RefillNothing(s) \/ InjectNothing(s) PROVE Accounted'
  <2>1. UNCHANGED <<mode, alive, rouletted>> /\ (dev' = dev \/ dev' = Advanced)
    BY <1>15 DEF RefillNothing, InjectNothing, Leaves, Run
  <2>2. /\ dev'.refilled = dev.refilled /\ dev'.secRead = dev.secRead /\ dev'.leak = dev.leak
        /\ dev'.capture = dev.capture /\ dev'.fissions = dev.fissions
    BY <1>0, <2>1 DEF DevTypes, Advanced
  <2> QED
    BY <1>2, <2>1, <2>2
<1>16. ASSUME NEW s \in Slot, NEW x, NEW c \in DevTypes, NEW inside \in BOOLEAN, ~ alive[s],
              Occupy(s, x, c, inside), UNCHANGED <<mode, rouletted>>,
              c.refilled + c.secRead = dev.refilled + dev.secRead + 1,
              c.leak = dev.leak, c.capture = dev.capture, c.fissions = dev.fissions
       PROVE  Accounted'
  <2>1. alive' = [alive EXCEPT ![s] = inside]
    BY <1>16 DEF Occupy
  <2>2. /\ dev'.refilled = c.refilled /\ dev'.secRead = c.secRead
        /\ dev'.leak = c.leak + (IF inside THEN 0 ELSE 1)
        /\ dev'.capture = c.capture /\ dev'.fissions = c.fissions
    BY <1>16 DEF Occupy, DevTypes
  <2>3. c.refilled \in Int /\ c.secRead \in Int /\ N \in Int
    BY <1>16, Constants DEF DevTypes
  <2>4. Started' = Started + 1
    <3>1. dev'.refilled + dev'.secRead = dev.refilled + dev.secRead + 1
      BY <1>16, <2>2
    <3>2. dev'.refilled \in Int /\ dev'.secRead \in Int
      BY <2>2, <2>3
    <3> QED
      BY <1>n, <2>3, <3>1, <3>2 DEF Started
  <2>5. Ended' = Ended + IF inside THEN 0 ELSE 1
    BY <1>n, <1>16, <2>2 DEF Ended
  <2> QED
    BY <1>0, <1>16, <2>1, <2>4, <2>5, OneBegins
<1>17. ASSUME NEW s \in Slot, Refill(s) PROVE Accounted'
  <2> DEFINE c == [Advanced EXCEPT !.refilled = @ + 1]
  <2>1. ~ alive[s] /\ UNCHANGED <<mode, rouletted>>
    BY <1>17 DEF Refill, Run
  <2>2. \E inside \in BOOLEAN : Occupy(s, Neutron("pool", dev.next), c, inside)
    BY <1>17 DEF Refill
  <2>3. Advanced \in DevTypes /\ Advanced.refilled + 1 \in Nat
    BY <1>0, AdvancedTyped, CountersNat
  <2>4. c \in DevTypes
    BY <2>3, Zenon DEF DevTypes
  <2>5. /\ Advanced.refilled = dev.refilled /\ Advanced.secRead = dev.secRead
        /\ Advanced.leak = dev.leak /\ Advanced.capture = dev.capture /\ Advanced.fissions = dev.fissions
    BY <1>0 DEF DevTypes, Advanced
  <2>6. /\ c.refilled = Advanced.refilled + 1 /\ c.secRead = Advanced.secRead
        /\ c.leak = Advanced.leak /\ c.capture = Advanced.capture /\ c.fissions = Advanced.fissions
    BY <2>3 DEF DevTypes
  <2> HIDE DEF c
  <2> QED
    BY <1>n, <1>16, <2>1, <2>2, <2>4, <2>5, <2>6
<1>18. ASSUME NEW s \in Slot, Inject(s) PROVE Accounted'
  <2> DEFINE c == [dev EXCEPT !.secRead = @ + 1]
  <2>1. ~ alive[s] /\ UNCHANGED <<mode, rouletted>>
    BY <1>18 DEF Inject, Run
  <2>2. \E inside \in BOOLEAN : Occupy(s, Neutron("secondary", dev.secRead), c, inside)
    BY <1>18 DEF Inject
  <2>3. c \in DevTypes
    <3>1. dev.secRead + 1 \in Nat
      BY <1>0, CountersNat
    <3> QED
      BY <1>0, <3>1, Zenon DEF DevTypes
  <2>4. /\ c.refilled = dev.refilled /\ c.secRead = dev.secRead + 1
        /\ c.leak = dev.leak /\ c.capture = dev.capture /\ c.fissions = dev.fissions
    BY <1>0 DEF DevTypes
  <2> HIDE DEF c
  <2> QED
    BY <1>n, <1>16, <2>1, <2>2, <2>3, <2>4
<1>19. CASE UNCHANGED vars
  BY <1>2, <1>19 DEF vars, history
<1> QED
  BY <1>1, <1>3, <1>4, <1>5, <1>6, <1>7, <1>8, <1>10, <1>11, <1>12, <1>13, <1>14, <1>15, <1>17,
     <1>18, <1>19, NextIs DEF Others, Trace

THEOREM NeutronsAccounted == Spec => []Accounted
<1>1. Init => Accounted
  <2> SUFFICES ASSUME Init PROVE Accounted
    OBVIOUS
  <2>1. Live = Slot /\ rouletted = 0
    BY DEF Init, Live
  <2>2. Cardinality(Slot) = N /\ N \in Nat
    BY Constants, FS_Interval DEF Slot
  <2>3. dev.refilled = 0 /\ dev.secRead = 0 /\ dev.leak = 0 /\ dev.capture = 0 /\ dev.fissions = 0
    BY DEF Init, Zeroed
  <2> QED
    BY <2>1, <2>2, <2>3 DEF Accounted
<1>2. SortInv /\ Accounted /\ [Next]_vars => Accounted'
  BY AccountedStep
<1> QED
  BY <1>1, <1>2, SortInvariant, PTL DEF Spec

-----------------------------------------------------------------------------
(***************************************************************************)
(* The fission bank.                                                       *)
(***************************************************************************)
LEMMA BankedFills ==
  ASSUME Typed, BankFilled, NEW k \in Nat, Banked(k), dev'.sites = dev.sites + k, batch' = batch
  PROVE  BankFilled'
<1>1. DOMAIN bank = 0..(BankCap - 1) /\ DOMAIN bank' = DOMAIN bank /\ dev.sites \in Nat
  BY DEF Typed, DevTypes, Banked
<1>2. ASSUME NEW i \in DOMAIN bank, i < dev.sites + k PROVE bank'[i] = batch
  <2>1. CASE i < dev.sites
    BY <1>1, <2>1 DEF Banked, BankFilled
  <2>2. CASE ~ (i < dev.sites)
    <3>1. i \in dev.sites..(dev.sites + k - 1)
      BY <1>1, <1>2, <2>2, Constants
    <3> QED
      BY <1>2, <3>1 DEF Banked
  <2> QED
    BY <2>1, <2>2
<1> QED
  BY <1>1, <1>2 DEF BankFilled

LEMMA BankFilledStep ==
  ASSUME Typed, BankFilled, [Next]_vars
  PROVE  BankFilled'
<1>0. dev \in DevTypes
  BY DEF Typed
<1>1. CASE NextBatch
  <2>1. dev'.sites = 0 /\ UNCHANGED bank
    BY <1>1 DEF NextBatch, StartOfBatch, Zeroed
  <2>2. DOMAIN bank \subseteq Nat
    BY Constants DEF Typed
  <2> QED
    BY <2>1, <2>2 DEF BankFilled
<1>2. ASSUME UNCHANGED <<batch, bank>>, dev'.sites = dev.sites PROVE BankFilled'
  BY <1>2 DEF BankFilled
<1>3. CASE LaunchNext
  BY <1>2, <1>3, LaunchKeeps
<1>4. CASE Scan
  BY <1>2, <1>4 DEF Scan, Run
<1>5. ASSUME NEW s \in Slot, Others(s) PROVE BankFilled'
  <2>1. UNCHANGED <<batch, bank>>
    BY <1>5, OthersKeep
  <2>2. Advanced.sites = dev.sites /\ Advanced \in DevTypes
    BY <1>0, AdvancedTyped DEF Advanced, DevTypes
  <2>3. CASE InitStack(s)
    <3>1. dev'.sites = dev.sites
      BY <1>0, <2>3 DEF InitStack, DevTypes
    <3> QED
      BY <1>2, <2>1, <3>1
  <2>4. CASE RefillNothing(s) \/ InjectNothing(s)
    <3>1. dev'.sites = dev.sites
      BY <2>2, <2>4 DEF RefillNothing, InjectNothing
    <3> QED
      BY <1>2, <2>1, <3>1
  <2>5. CASE Refill(s)
    <3>1. PICK inside \in BOOLEAN : dev' = [[Advanced EXCEPT !.refilled = @ + 1]
                                             EXCEPT !.leak = @ + IF inside THEN 0 ELSE 1]
      BY <2>5, Zenon DEF Refill, Occupy
    <3> QED
      BY <2>1, <2>2, <3>1, <1>2 DEF DevTypes
  <2>6. CASE Inject(s)
    <3>1. PICK inside \in BOOLEAN : dev' = [[dev EXCEPT !.secRead = @ + 1]
                                             EXCEPT !.leak = @ + IF inside THEN 0 ELSE 1]
      BY <2>6, Zenon DEF Inject, Occupy
    <3> QED
      BY <1>0, <2>1, <3>1, <1>2 DEF DevTypes
  <2> QED
    BY <1>2, <1>5, <2>1, <2>3, <2>4, <2>5, <2>6 DEF Others
<1>6. ASSUME NEW s \in Slot, Trace(s) PROVE BankFilled'
  <2>1. UNCHANGED batch
    BY <1>6, TraceKeeps
  <2>2. SitesAtCollision \subseteq Nat
    BY Constants DEF SitesAtCollision
  <2>3. CASE TraceDead(s) \/ TraceLeak(s)
    <3>1. UNCHANGED bank /\ dev'.sites = dev.sites
      BY <1>0, <2>3 DEF TraceDead, TraceLeak, DevTypes
    <3> QED
      BY <1>2, <2>1, <3>1
  <2>4. CASE TraceCapture(s)
    <3>1. PICK k \in SitesAtCollision :
            /\ Banked(k)
            /\ dev' = [dev EXCEPT !.sites = @ + k, !.capture = @ + 1,
                                  !.fissions = @ + IF k > 0 THEN 1 ELSE 0]
      BY <2>4, Zenon DEF TraceCapture
    <3>2. dev'.sites = dev.sites + k
      BY <1>0, <3>1 DEF DevTypes
    <3> QED
      BY <2>1, <2>2, <3>1, <3>2, BankedFills
  <2>5. CASE TraceRoulette(s) \/ TraceCollide(s)
    <3>1. PICK k \in SitesAtCollision : AtCollision(k)
      BY <2>5 DEF TraceRoulette, TraceCollide
    <3>2. dev'.sites = dev.sites + k /\ Banked(k)
      BY <1>0, <3>1 DEF AtCollision, DevTypes
    <3> QED
      BY <2>1, <2>2, <3>1, <3>2, BankedFills
  <2> QED
    BY <1>6, <2>3, <2>4, <2>5 DEF Trace
<1>7. ASSUME NEW s \in Slot, PartitionSkip(s) \/ Partition(s) PROVE BankFilled'
  BY <1>2, <1>7, PartitionKeeps
<1>8. ASSUME NEW i \in 0..(N - 1), FissionEvent(i) PROVE BankFilled'
  <2>1. PICK k \in 0..MaxNu : Banked(k) /\ dev' = [dev EXCEPT !.sites = @ + k, !.fissions = @ + 1]
    BY <1>8, Zenon DEF FissionEvent
  <2>2. dev'.sites = dev.sites + k /\ k \in Nat
    BY <1>0, <2>1, Constants DEF DevTypes
  <2> QED
    BY <1>8, <2>1, <2>2, EventsKeep, BankedFills
<1>9. ASSUME NEW i \in 0..(N - 1), MultiEvent(i) PROVE BankFilled'
  <2>1. UNCHANGED batch
    BY <1>9, EventsKeep
  <2>2. PICK extra \in {1, 2} :
          \/ dev' = [dev EXCEPT !.secWrite = @ + extra] /\ UNCHANGED bank
          \/ Banked(extra) /\ dev' = [dev EXCEPT !.sites = @ + extra]
          \/ UNCHANGED <<dev, bank>>
    <3>1. mode.nxn \in {"ingen", "bank", "drop"}
      BY EventAssumption DEF Typed
    <3> QED
      BY <1>9, <3>1 DEF MultiEvent
  <2>3. \/ UNCHANGED bank /\ dev'.sites = dev.sites
        \/ Banked(extra) /\ dev'.sites = dev.sites + extra
    BY <1>0, <2>2 DEF DevTypes
  <2> QED
    BY <1>2, <2>1, <2>3, BankedFills
<1>10. CASE UNCHANGED vars
  BY <1>2, <1>10 DEF vars
<1> QED
  BY <1>1, <1>3, <1>4, <1>5, <1>6, <1>7, <1>8, <1>9, <1>10, NextIs

\* Every site the host reads was written in its batch.
THEOREM BankIsWhole == Spec => []BankWhole
<1>1. Init => BankFilled
  <2> SUFFICES ASSUME Init PROVE BankFilled
    OBVIOUS
  <2>1. dev.sites = 0 /\ DOMAIN bank \subseteq Nat
    BY Constants DEF Init, Zeroed
  <2> QED
    BY <2>1 DEF BankFilled
<1>2. SortInv /\ BankFilled /\ [Next]_vars => BankFilled'
  BY BankFilledStep DEF SortInv
<1>3. BankFilled => BankWhole
  BY DEF BankFilled, BankWhole
<1> QED
  BY <1>1, <1>2, <1>3, SortInvariant, PTL DEF Spec

-----------------------------------------------------------------------------
(***************************************************************************)
(* The secondaries.                                                        *)
(***************************************************************************)
LEMMA SecondariesStep ==
  ASSUME Typed, CursorsPast, Waited, [Next]_vars
  PROVE  CursorsPast' /\ Waited'
<1>0. dev \in DevTypes /\ dev.secRead \in Nat /\ dev.secWrite \in Nat /\ spare \in Nat
  BY DEF Typed, DevTypes
<1>1. CASE NextBatch
  <2>1. /\ begun' = {Neutron("source", s) : s \in Slot} /\ spare' = 0 /\ kernel' = "init"
        /\ dev'.secRead = 0 /\ dev'.secWrite = 0
    BY <1>1 DEF NextBatch, StartOfBatch, Zeroed
  <2> QED
    BY <2>1 DEF CursorsPast, Waited, Neutron
<1>2. ASSUME UNCHANGED <<begun, spare, mode>>, dev'.secRead = dev.secRead, dev'.secWrite = dev.secWrite,
             kernel' = kernel \/ (kernel' # "inject"
                                  /\ (kernel \in {"init", "inject", "trace", "scan", "drained"}
                                      \/ kernel' \notin {"init", "inject", "trace", "scan", "drained"}
                                      \/ spare = 0))
      PROVE  CursorsPast' /\ Waited'
  BY <1>2 DEF CursorsPast, Waited
<1>3. CASE LaunchNext
  <2>1. UNCHANGED <<begun, mode, dev>>
    BY <1>3, LaunchKeeps
  <2>2. CASE kernel' = "inject"
    <3>1. spare' = 0 /\ mode.nxn = "ingen"
      BY <1>3, <2>2 DEF LaunchNext, Launch, AfterStep
    <3> QED
      BY <2>1, <3>1 DEF CursorsPast, Waited
  <2>3. CASE kernel' # "inject"
    <3>1. UNCHANGED spare
      BY <1>3, <2>3 DEF LaunchNext, Launch, AfterStep, history
    <3>2. kernel = "refill" => mode.nxn # "ingen"
      BY <1>3, <2>3 DEF LaunchNext, Launch, AfterStep
    <3>3. kernel = "refill" => spare = 0
      BY <3>2 DEF Waited
    <3> QED
      BY <1>2, <1>3, <2>1, <2>3, <3>1, <3>3, LaunchOrder
  <2> QED
    BY <2>2, <2>3
<1>4. CASE Scan
  BY <1>2, <1>4 DEF Scan, Run, history
<1>5. ASSUME NEW s \in Slot, InitStack(s) PROVE CursorsPast' /\ Waited'
  <2>1. UNCHANGED <<begun, spare, mode, kernel>>
    BY <1>5 DEF InitStack, Run, history
  <2>2. dev'.secRead = dev.secRead /\ dev'.secWrite = dev.secWrite
    BY <1>0, <1>5 DEF InitStack, DevTypes
  <2> QED
    BY <1>2, <2>1, <2>2
<1>6. ASSUME NEW s \in Slot, Trace(s) PROVE CursorsPast' /\ Waited'
  <2>1. UNCHANGED <<begun, spare, mode, kernel>>
    BY <1>6, TraceKeeps
  <2>2. dev'.secRead = dev.secRead /\ dev'.secWrite = dev.secWrite
    <3>1. CASE TraceDead(s) \/ TraceLeak(s)
      BY <1>0, <3>1 DEF TraceDead, TraceLeak, DevTypes
    <3>2. CASE TraceCapture(s)
      <4>1. PICK k \in SitesAtCollision :
              dev' = [dev EXCEPT !.sites = @ + k, !.capture = @ + 1,
                                 !.fissions = @ + IF k > 0 THEN 1 ELSE 0]
        BY <3>2, Zenon DEF TraceCapture
      <4> QED
        BY <1>0, <4>1 DEF DevTypes
    <3>3. CASE TraceRoulette(s) \/ TraceCollide(s)
      <4>1. PICK k \in SitesAtCollision : AtCollision(k)
        BY <3>3 DEF TraceRoulette, TraceCollide
      <4> QED
        BY <1>0, <4>1 DEF AtCollision, DevTypes
    <3> QED
      BY <1>6, <3>1, <3>2, <3>3 DEF Trace
  <2> QED
    BY <1>2, <2>1, <2>2
<1>7. ASSUME NEW s \in Slot, PartitionSkip(s) \/ Partition(s) PROVE CursorsPast' /\ Waited'
  BY <1>2, <1>7, PartitionKeeps DEF history
<1>8. ASSUME NEW i \in 0..(N - 1), FissionEvent(i) \/ MultiEvent(i) PROVE CursorsPast' /\ Waited'
  <2>1. kernel \in {"fission", "multi"} /\ UNCHANGED <<begun, spare, mode, kernel>>
    BY <1>8, EventsKeep DEF history
  <2>2. dev'.secRead = dev.secRead /\ dev'.secWrite >= dev.secWrite /\ dev'.secWrite \in Nat
    <3>1. CASE FissionEvent(i)
      <4>1. PICK k \in 0..MaxNu : dev' = [dev EXCEPT !.sites = @ + k, !.fissions = @ + 1]
        BY <3>1, Zenon DEF FissionEvent
      <4> QED
        BY <1>0, <4>1 DEF DevTypes
    <3>2. CASE MultiEvent(i)
      <4>1. mode.nxn \in {"ingen", "bank", "drop"}
        BY EventAssumption DEF Typed
      <4>2. PICK extra \in {1, 2} : \/ dev' = [dev EXCEPT !.secWrite = @ + extra]
                                    \/ dev' = [dev EXCEPT !.sites = @ + extra]
                                    \/ UNCHANGED dev
        BY <3>2, <4>1 DEF MultiEvent
      <4> QED
        BY <1>0, <4>2 DEF DevTypes
    <3> QED
      BY <1>8, <3>1, <3>2
  <2> QED
    BY <1>0, <2>1, <2>2 DEF CursorsPast, Waited
<1>9. ASSUME NEW s \in Slot, RefillNothing(s) PROVE CursorsPast' /\ Waited'
  <2>1. UNCHANGED <<begun, spare, mode, kernel>>
    BY <1>9 DEF RefillNothing, Leaves, Run
  <2>2. dev'.secRead = dev.secRead /\ dev'.secWrite = dev.secWrite
    BY <1>0, <1>9 DEF RefillNothing, Advanced, DevTypes
  <2> QED
    BY <1>2, <2>1, <2>2
<1>10. ASSUME NEW s \in Slot, Refill(s) PROVE CursorsPast' /\ Waited'
  <2>1. kernel = "refill" /\ UNCHANGED <<spare, mode, kernel>>
    BY <1>10 DEF Refill, Run
  <2>2. PICK inside \in BOOLEAN :
          /\ dev' = [[Advanced EXCEPT !.refilled = @ + 1] EXCEPT !.leak = @ + IF inside THEN 0 ELSE 1]
          /\ begun' = begun \cup {Neutron("pool", dev.next)}
    BY <1>10, Zenon DEF Refill, Occupy
  <2>3. /\ Advanced.secRead = dev.secRead /\ Advanced.secWrite = dev.secWrite /\ Advanced \in DevTypes
    BY <1>0, AdvancedTyped DEF Advanced, DevTypes
  <2>4. dev'.secRead = dev.secRead /\ dev'.secWrite = dev.secWrite
    BY <2>2, <2>3 DEF DevTypes
  <2>5. Neutron("pool", dev.next).kind = "pool"
    BY DEF Neutron
  <2> QED
    BY <1>0, <2>1, <2>2, <2>4, <2>5 DEF CursorsPast, Waited
<1>11. ASSUME NEW s \in Slot, InjectNothing(s) PROVE CursorsPast' /\ Waited'
  <2>1. kernel = "inject" /\ UNCHANGED <<begun, mode, kernel, dev>>
    BY <1>11 DEF InjectNothing, Leaves, Run
  <2>2. UNCHANGED spare \/ (dev.secRead >= dev.secWrite /\ spare' = spare + 1)
    BY <1>11 DEF InjectNothing
  <2> QED
    BY <1>0, <2>1, <2>2 DEF CursorsPast, Waited
<1>12. ASSUME NEW s \in Slot, Inject(s) PROVE CursorsPast' /\ Waited'
  <2>1. kernel = "inject" /\ UNCHANGED <<spare, mode, kernel>> /\ dev.secRead < dev.secWrite
    BY <1>12 DEF Inject, Run
  <2>2. PICK inside \in BOOLEAN :
          /\ dev' = [[dev EXCEPT !.secRead = @ + 1] EXCEPT !.leak = @ + IF inside THEN 0 ELSE 1]
          /\ begun' = begun \cup {Neutron("secondary", dev.secRead)}
    BY <1>12, Zenon DEF Inject, Occupy
  <2>3. dev'.secRead = dev.secRead + 1 /\ dev'.secWrite = dev.secWrite
    BY <1>0, <2>2 DEF DevTypes
  <2>4. Neutron("secondary", dev.secRead).i = dev.secRead
    BY DEF Neutron
  <2>5. spare = 0
    BY <1>0, <2>1 DEF Waited
  <2>6. \A x \in begun : x.i \in Int
    BY DEF Typed
  <2> QED
    BY <1>0, <2>1, <2>2, <2>3, <2>4, <2>5, <2>6 DEF CursorsPast, Waited
<1>13. CASE UNCHANGED vars
  BY <1>2, <1>13 DEF vars, history
<1> QED
  BY <1>1, <1>3, <1>4, <1>5, <1>6, <1>7, <1>8, <1>9, <1>10, <1>11, <1>12, <1>13, NextIs DEF Others

LEMMA SecondariesInvariant == Spec => [](Typed /\ CursorsPast /\ Waited)
<1>1. Init => Typed /\ CursorsPast /\ Waited
  <2> SUFFICES ASSUME Init PROVE Typed /\ CursorsPast /\ Waited
    OBVIOUS
  <2>1. /\ begun = {Neutron("source", s) : s \in Slot} /\ spare = 0 /\ kernel = "init"
        /\ dev.secRead = 0 /\ dev.secWrite = 0
    BY DEF Init, Zeroed
  <2> QED
    BY <2>1, TypedInit DEF CursorsPast, Waited, Neutron
<1>2. SortInv /\ Typed /\ CursorsPast /\ Waited /\ [Next]_vars => Typed' /\ CursorsPast' /\ Waited'
  BY SecondariesStep, SortStep DEF SortInv
<1> QED
  BY <1>1, <1>2, SortInvariant, PTL DEF Spec

\* No written secondary is left when nothing collides, if a slot waited for one.
THEOREM SecondariesTransported == Spec => []NoOrphans
<1>1. Typed /\ CursorsPast /\ Waited => NoOrphans
  BY DEF CursorsPast, Waited, NoOrphans
<1> QED
  BY <1>1, SecondariesInvariant, PTL

-----------------------------------------------------------------------------
(***************************************************************************)
(* The refills, while the cursor cannot wrap.                              *)
(***************************************************************************)
LEMMA StepsTimesSlots ==
  ASSUME NEW k \in Nat
  PROVE  /\ N * k \in Nat /\ N * (k + 1) = N * k + N
         /\ k <= MaxSteps => N * k <= N * MaxSteps
<1> USE Constants
<1>1. N * k \in Nat /\ N * (k + 1) = N * k + N
  OBVIOUS
<1>2. ASSUME k <= MaxSteps PROVE N * k <= N * MaxSteps
  <2>1. PICK d \in Nat : MaxSteps = k + d
    <3>1. MaxSteps - k \in Nat /\ MaxSteps = k + (MaxSteps - k)
      BY <1>2
    <3> QED
      BY <3>1
  <2>2. N * MaxSteps = N * k + N * d /\ N * d \in Nat
    BY <2>1
  <2> QED
    BY <1>1, <2>2
<1> QED
  BY <1>1, <1>2

\* A claim of a dead slot moves the cursor by one.
LEMMA CursorAdvances ==
  ASSUME N * MaxSteps <= CursorMax, Typed, ThreadsTyped, CursorBounded,
         kernel = "refill", NEW s \in todo
  PROVE  /\ Advanced.next = dev.next + 1 /\ dev.next \in Nat
         /\ IsFiniteSet(todo) /\ Cardinality(todo \ {s}) = Cardinality(todo) - 1
         /\ Cardinality(todo) \in Nat
         /\ dev.next <= N * step - Cardinality(todo) /\ N * step \in Nat
<1>1. IsFiniteSet(todo) /\ Cardinality(todo) \in Nat
  BY SlotsFinite DEF ThreadsTyped
<1>2. Cardinality(todo \ {s}) = Cardinality(todo) - 1 /\ Cardinality(todo \ {s}) \in Nat
  <2>1. IsFiniteSet(todo \ {s}) /\ Cardinality(todo \ {s}) = Cardinality(todo) - 1
    BY <1>1, FS_RemoveElement
  <2> QED
    BY <2>1, FS_CardinalityType
<1>3. dev.next <= N * step - Cardinality(todo) /\ dev.next \in Nat
  BY DEF CursorBounded, Refilling, RefillsDone
<1>4. step \in Nat /\ step <= MaxSteps
  BY Constants DEF Typed
<1>5. N * step \in Nat /\ N * step <= N * MaxSteps /\ N * MaxSteps \in Nat
  BY <1>4, StepsTimesSlots, Constants
<1>6. dev.next # CursorMax
  BY <1>1, <1>2, <1>3, <1>5, Constants
<1>7. Advanced.next = dev.next + 1
  <2>1. dev \in DevTypes
    BY DEF Typed
  <2> QED
    BY <1>6, <2>1 DEF Advanced, DevTypes
<1> QED
  BY <1>1, <1>2, <1>3, <1>5, <1>7

LEMMA RefillKeeps ==
  ASSUME RefillInv, Typed, dev'.next = dev.next, dev'.refilled = dev.refilled,
         UNCHANGED <<kernel, step, begun>>, kernel = "refill" => UNCHANGED todo
  PROVE  RefillInv'
<1>1. CursorBounded'
  BY DEF RefillInv, CursorBounded, Refilling, RefillsDone
<1>2. RefillsPast' /\ HistoriesCounted'
  BY DEF RefillInv, RefillsPast, HistoriesCounted
<1> QED
  BY <1>1, <1>2 DEF RefillInv

LEMMA LaunchBounded ==
  ASSUME Typed, CursorBounded, LaunchNext
  PROVE  CursorBounded'
<1>0. todo = {} /\ Cardinality({}) = 0 /\ UNCHANGED dev
  BY LaunchKeeps, FS_EmptySet
<1>1. step \in Nat /\ dev.next \in Nat /\ dev.next <= N * RefillsDone
  <2>1. dev.next \in Nat /\ Refilling = 0 /\ dev.next <= N * RefillsDone - Refilling
    BY <1>0 DEF CursorBounded, Refilling
  <2>2. step \in Nat /\ RefillsDone \in Int
    BY Constants DEF Typed, RefillsDone
  <2>3. N * RefillsDone \in Int
    BY <2>2, Constants
  <2> QED
    BY <2>1, <2>2, <2>3
<1>2. CASE kernel \in {"init", "inject"} \/ (kernel = "refill" /\ kernel' # "inject")
  <2>1. RefillsDone = step
    BY <1>2 DEF RefillsDone
  <2>2. \/ kernel' = "trace" /\ step' = step + 1
        \/ kernel' = "spent" /\ step' = step
    BY <1>2 DEF LaunchNext, Launch, AfterStep
  <2>3. step' - 1 = step \/ kernel' = "spent"
    BY <1>1, <2>2
  <2>4. RefillsDone' = step /\ Refilling' = 0
    BY <2>2, <2>3 DEF RefillsDone, Refilling
  <2>5. N * step \in Nat
    BY <1>1, StepsTimesSlots
  <2> QED
    BY <1>0, <1>1, <2>1, <2>2, <2>4, <2>5 DEF CursorBounded
<1>3. CASE kernel = "multi"
  <2>1. kernel' = "refill" /\ todo' \in {{}, Slot} /\ UNCHANGED step
    BY <1>3 DEF LaunchNext, Launch, AfterStep
  <2>2. step > 0 /\ RefillsDone = step - 1 /\ RefillsDone' = step
    BY <1>3, <2>1 DEF CursorBounded, RefillsDone
  <2>3. Refilling' \in Nat /\ Refilling' <= N
    <3>1. Cardinality(todo') \in Nat /\ Cardinality(todo') <= N
      BY <2>1, SlotsFinite
    <3> QED
      BY <2>1, <3>1 DEF Refilling
  <2>4. N * step = N * (step - 1) + N /\ N * (step - 1) \in Nat
    <3>1. step - 1 \in Nat /\ step - 1 + 1 = step
      BY <1>1, <2>2
    <3> QED
      BY <3>1, StepsTimesSlots
  <2> QED
    BY <1>0, <1>1, <2>1, <2>2, <2>3, <2>4, Constants DEF CursorBounded
<1>4. CASE kernel \in {"trace", "scan", "partition", "fission"} \/ (kernel = "refill" /\ kernel' = "inject")
  <2>1. /\ UNCHANGED step /\ kernel' # "refill"
        /\ kernel \in {"trace", "scan", "partition", "fission"} =>
             kernel' \in {"scan", "partition", "fission", "multi", "drained"}
    BY <1>4 DEF LaunchNext, Launch, AfterStep
  <2>2. RefillsDone' = RefillsDone /\ Refilling' = 0
    BY <1>4, <2>1 DEF RefillsDone, Refilling
  <2>3. RefillsDone \in Int /\ N * RefillsDone \in Int
    BY <1>1, Constants DEF RefillsDone
  <2>4. kernel \in {"trace", "scan", "partition", "fission"} => step > 0
    BY DEF CursorBounded
  <2> QED
    BY <1>0, <1>1, <1>4, <2>1, <2>2, <2>3, <2>4 DEF CursorBounded
<1> QED
  BY <1>2, <1>3, <1>4, LaunchOrder

\* The neutrons that are no secondaries, and those of the source.
Histories == {x \in begun : x.kind # "secondary"}
Sources == {Neutron("source", s) : s \in Slot}

LEMMA SourcesAre == Cardinality(Sources) = N
<1> DEFINE f == [s \in Slot |-> Neutron("source", s)]
<1>1. f \in Bijection(Slot, Sources)
  BY DEF Bijection, Injection, Surjection, IsInjective, Neutron, Sources
<1>2. IsFiniteSet(Slot) /\ Cardinality(Slot) = N
  BY Constants, FS_Interval DEF Slot
<1> QED
  BY <1>1, <1>2, FS_Bijection DEF ExistsBijection

LEMMA RefillStep ==
  ASSUME N * MaxSteps <= CursorMax, Typed, ThreadsTyped, Typed', RefillInv, [Next]_vars
  PROVE  RefillInv'
<1>0. dev \in DevTypes /\ IsFiniteSet(Histories) /\ Cardinality(Histories) \in Nat /\ N \in Nat
      /\ dev.refilled \in Nat /\ N + dev.refilled = Cardinality(Histories)
  <2>1. dev \in DevTypes /\ IsFiniteSet(begun) /\ Histories \in SUBSET begun
    BY DEF Typed, Histories
  <2>2. IsFiniteSet(Histories)
    BY <2>1, FS_Subset
  <2>3. Cardinality(Histories) \in Nat
    BY <2>2, FS_CardinalityType
  <2> QED
    BY <2>1, <2>2, <2>3, Constants DEF DevTypes, RefillInv, HistoriesCounted, Histories
<1>1. CASE NextBatch
  <2>1. /\ begun' = {Neutron("source", s) : s \in Slot} /\ kernel' = "init" /\ step' = 0
        /\ dev'.next = 0 /\ dev'.refilled = 0
    BY <1>1 DEF NextBatch, StartOfBatch, Zeroed
  <2>2. CursorBounded'
    BY <2>1, Constants DEF CursorBounded, RefillsDone, Refilling
  <2>3. RefillsPast'
    BY <2>1 DEF RefillsPast, Neutron
  <2>4. HistoriesCounted'
    <3>1. Histories' = Sources
      BY <2>1 DEF Neutron, Histories, Sources
    <3>2. Cardinality(Histories') = N + 0
      BY <3>1, SourcesAre, Constants
    <3> QED
      BY <2>1, <3>2 DEF HistoriesCounted, Histories
  <2> QED
    BY <2>2, <2>3, <2>4 DEF RefillInv
<1>2. CASE LaunchNext
  <2>1. UNCHANGED <<dev, begun>>
    BY <1>2, LaunchKeeps
  <2>2. CursorBounded'
    BY <1>2, LaunchBounded DEF RefillInv
  <2> QED
    BY <2>1, <2>2 DEF RefillInv, RefillsPast, HistoriesCounted
<1>3. CASE Scan
  BY <1>3, RefillKeeps DEF Scan, Run, history
<1>4. ASSUME NEW s \in Slot, InitStack(s) PROVE RefillInv'
  <2>1. kernel = "init" /\ UNCHANGED <<kernel, step, begun>>
    BY <1>4 DEF InitStack, Run, history
  <2>2. dev'.next = dev.next /\ dev'.refilled = dev.refilled
    BY <1>0, <1>4 DEF InitStack, DevTypes
  <2> QED
    BY <2>1, <2>2, RefillKeeps
<1>5. ASSUME NEW s \in Slot, Trace(s) PROVE RefillInv'
  <2>1. kernel = "trace" /\ UNCHANGED <<kernel, step, begun>>
    BY <1>5, TraceKeeps
  <2>2. dev'.next = dev.next /\ dev'.refilled = dev.refilled
    <3>1. CASE TraceDead(s) \/ TraceLeak(s)
      BY <1>0, <3>1 DEF TraceDead, TraceLeak, DevTypes
    <3>2. CASE TraceCapture(s)
      <4>1. PICK k \in SitesAtCollision :
              dev' = [dev EXCEPT !.sites = @ + k, !.capture = @ + 1,
                                 !.fissions = @ + IF k > 0 THEN 1 ELSE 0]
        BY <3>2, Zenon DEF TraceCapture
      <4> QED
        BY <1>0, <4>1 DEF DevTypes
    <3>3. CASE TraceRoulette(s) \/ TraceCollide(s)
      <4>1. PICK k \in SitesAtCollision : AtCollision(k)
        BY <3>3 DEF TraceRoulette, TraceCollide
      <4> QED
        BY <1>0, <4>1 DEF AtCollision, DevTypes
    <3> QED
      BY <1>5, <3>1, <3>2, <3>3 DEF Trace
  <2> QED
    BY <2>1, <2>2, RefillKeeps
<1>6. ASSUME NEW s \in Slot, PartitionSkip(s) \/ Partition(s) PROVE RefillInv'
  BY <1>6, PartitionKeeps, RefillKeeps DEF history
<1>7. ASSUME NEW i \in 0..(N - 1), FissionEvent(i) \/ MultiEvent(i) PROVE RefillInv'
  <2>1. kernel \in {"fission", "multi"} /\ UNCHANGED <<begun, step, kernel>>
    BY <1>7, EventsKeep DEF history
  <2>2. dev'.next = dev.next /\ dev'.refilled = dev.refilled
    <3>1. CASE FissionEvent(i)
      <4>1. PICK k \in 0..MaxNu : dev' = [dev EXCEPT !.sites = @ + k, !.fissions = @ + 1]
        BY <3>1, Zenon DEF FissionEvent
      <4> QED
        BY <1>0, <4>1 DEF DevTypes
    <3>2. CASE MultiEvent(i)
      <4>1. mode.nxn \in {"ingen", "bank", "drop"}
        BY EventAssumption DEF Typed
      <4>2. PICK extra \in {1, 2} : \/ dev' = [dev EXCEPT !.secWrite = @ + extra]
                                    \/ dev' = [dev EXCEPT !.sites = @ + extra]
                                    \/ UNCHANGED dev
        BY <3>2, <4>1 DEF MultiEvent
      <4> QED
        BY <1>0, <4>2 DEF DevTypes
    <3> QED
      BY <1>7, <3>1, <3>2
  <2> QED
    BY <2>1, <2>2, RefillKeeps
<1>8. ASSUME NEW s \in Slot, kernel = "refill", s \in todo, todo' = todo \ {s}, UNCHANGED <<kernel, step>>,
             dev'.next \in {dev.next, dev.next + 1}
      PROVE  CursorBounded'
  <2>1. /\ dev.next \in Nat /\ Cardinality(todo \ {s}) = Cardinality(todo) - 1
        /\ Cardinality(todo) \in Nat
        /\ dev.next <= N * step - Cardinality(todo) /\ N * step \in Nat
    BY <1>8, CursorAdvances DEF RefillInv
  <2>2. dev'.next \in Nat /\ dev'.next <= N * step - Cardinality(todo')
    BY <1>8, <2>1
  <2>3. step > 0
    BY <1>8 DEF RefillInv, CursorBounded
  <2> QED
    BY <1>8, <2>2, <2>3 DEF CursorBounded, RefillsDone, Refilling
<1>9. ASSUME NEW s \in Slot, RefillNothing(s) PROVE RefillInv'
  <2>1. /\ kernel = "refill" /\ s \in todo /\ todo' = todo \ {s} /\ UNCHANGED <<kernel, step, begun>>
        /\ (dev' = dev \/ dev' = Advanced)
    BY <1>9 DEF RefillNothing, Leaves, Run
  <2>2. Advanced.next = dev.next + 1 /\ dev.next \in Nat
    BY <2>1, CursorAdvances DEF RefillInv
  <2>3. Advanced.refilled = dev.refilled
    BY <1>0 DEF Advanced, DevTypes
  <2>4. CursorBounded'
    BY <1>8, <2>1, <2>2
  <2>5. RefillsPast'
    <3>1. dev'.next = dev.next \/ dev'.next = dev.next + 1
      BY <2>1, <2>2
    <3>2. \A x \in begun : x.i \in Int
      BY DEF Typed
    <3> QED
      BY <2>1, <2>2, <3>1, <3>2 DEF RefillInv, RefillsPast
  <2>6. HistoriesCounted'
    BY <2>1, <2>3 DEF RefillInv, HistoriesCounted
  <2> QED
    BY <2>4, <2>5, <2>6 DEF RefillInv
<1>10. ASSUME NEW s \in Slot, Refill(s) PROVE RefillInv'
  <2> DEFINE x == Neutron("pool", dev.next)
  <2>1. /\ kernel = "refill" /\ s \in todo /\ todo' = todo \ {s} /\ UNCHANGED <<kernel, step>>
    BY <1>10 DEF Refill, Run
  <2>2. PICK inside \in BOOLEAN :
          /\ dev' = [[Advanced EXCEPT !.refilled = @ + 1] EXCEPT !.leak = @ + IF inside THEN 0 ELSE 1]
          /\ begun' = begun \cup {x}
    BY <1>10, Zenon DEF Refill, Occupy
  <2>3. Advanced.next = dev.next + 1 /\ dev.next \in Nat
    BY <2>1, CursorAdvances DEF RefillInv
  <2>4. Advanced \in DevTypes /\ Advanced.refilled = dev.refilled
    BY <1>0, AdvancedTyped DEF Advanced, DevTypes
  <2>5. dev'.next = dev.next + 1 /\ dev'.refilled = dev.refilled + 1
    BY <2>2, <2>3, <2>4 DEF DevTypes
  <2>6. CursorBounded'
    BY <1>8, <2>1, <2>5
  <2>7. x.kind = "pool" /\ x.i = dev.next
    BY DEF Neutron
  <2> HIDE DEF x
  <2>8. RefillsPast'
    <3>1. \A y \in begun : y.i \in Int
      BY DEF Typed
    <3> QED
      BY <2>2, <2>3, <2>5, <2>7, <3>1 DEF RefillInv, RefillsPast
  <2>9. HistoriesCounted'
    <3>1. x \notin Histories
      BY <2>3, <2>7 DEF RefillInv, RefillsPast, Histories
    <3>2. Histories' = Histories \cup {x}
      BY <2>2, <2>7 DEF Histories
    <3>3. Cardinality(Histories \cup {x}) = Cardinality(Histories) + 1
      BY <1>0, <3>1, FS_AddElement
    <3> QED
      <4>1. N + dev'.refilled = Cardinality(Histories')
        BY <1>0, <2>5, <3>2, <3>3
      <4> QED
        BY <4>1 DEF HistoriesCounted, Histories
  <2> QED
    BY <2>6, <2>8, <2>9 DEF RefillInv
<1>11. ASSUME NEW s \in Slot, InjectNothing(s) PROVE RefillInv'
  <2>1. kernel = "inject" /\ UNCHANGED <<begun, step, kernel, dev>>
    BY <1>11 DEF InjectNothing, Leaves, Run
  <2> QED
    BY <2>1, RefillKeeps
<1>12. ASSUME NEW s \in Slot, Inject(s) PROVE RefillInv'
  <2> DEFINE x == Neutron("secondary", dev.secRead)
  <2>1. kernel = "inject" /\ UNCHANGED <<step, kernel>>
    BY <1>12 DEF Inject, Run
  <2>2. PICK inside \in BOOLEAN :
          /\ dev' = [[dev EXCEPT !.secRead = @ + 1] EXCEPT !.leak = @ + IF inside THEN 0 ELSE 1]
          /\ begun' = begun \cup {x}
    BY <1>12, Zenon DEF Inject, Occupy
  <2>3. dev'.next = dev.next /\ dev'.refilled = dev.refilled
    BY <1>0, <2>2 DEF DevTypes
  <2>4. x.kind = "secondary"
    BY DEF Neutron
  <2> HIDE DEF x
  <2>5. CursorBounded'
    BY <2>1, <2>3 DEF RefillInv, CursorBounded, RefillsDone, Refilling
  <2>6. RefillsPast'
    BY <2>2, <2>3, <2>4 DEF RefillInv, RefillsPast
  <2>7. HistoriesCounted'
    <3>1. {y \in begun' : y.kind # "secondary"} = Histories
      BY <2>2, <2>4 DEF Histories
    <3> QED
      BY <1>0, <2>3, <3>1 DEF HistoriesCounted
  <2> QED
    BY <2>5, <2>6, <2>7 DEF RefillInv
<1>13. CASE UNCHANGED vars
  BY <1>13, RefillKeeps DEF vars, history
<1> QED
  BY <1>1, <1>2, <1>3, <1>4, <1>5, <1>6, <1>7, <1>9, <1>10, <1>11, <1>12, <1>13, NextIs DEF Others

LEMMA RefillInvariant ==
  ASSUME N * MaxSteps <= CursorMax
  PROVE  Spec => [](SortInv /\ RefillInv)
<1>1. Init => RefillInv
  <2> SUFFICES ASSUME Init PROVE RefillInv
    OBVIOUS
  <2>1. /\ begun = {Neutron("source", s) : s \in Slot} /\ kernel = "init" /\ step = 0
        /\ dev.next = 0 /\ dev.refilled = 0
    BY DEF Init, Zeroed
  <2>2. CursorBounded
    BY <2>1, Constants DEF CursorBounded, RefillsDone, Refilling
  <2>3. RefillsPast
    BY <2>1 DEF RefillsPast, Neutron
  <2>4. HistoriesCounted
    <3>1. Histories = Sources
      BY <2>1 DEF Neutron, Histories, Sources
    <3>2. Cardinality(Histories) = N + 0
      BY <3>1, SourcesAre, Constants
    <3> QED
      BY <2>1, <3>2 DEF HistoriesCounted, Histories
  <2> QED
    BY <2>2, <2>3, <2>4 DEF RefillInv
<1>2. SortInv /\ RefillInv /\ [Next]_vars => RefillInv'
  BY RefillStep, SortStep DEF SortInv
<1> QED
  BY <1>1, <1>2, SortInvariant, PTL DEF Spec

\* The denominator of k counts the source histories begun, as long as the cursor of the
\* refills does not wrap: N slots claim at most once a step.
THEOREM DenominatorCounts ==
  ASSUME N * MaxSteps <= CursorMax
  PROVE  Spec => []HistoriesCounted
<1>1. SortInv /\ RefillInv => HistoriesCounted
  BY DEF RefillInv
<1> QED
  BY <1>1, RefillInvariant, PTL

\* No entry of the pool or of the secondary bank is given to a second slot.
THEOREM HandedOutOnce ==
  ASSUME N * MaxSteps <= CursorMax
  PROVE  Spec => NobodyBeginsTwice
<1>1. ASSUME Typed, ThreadsTyped, CursorsPast, RefillInv, [Next]_vars, NEW s \in Slot, who'[s] # who[s]
      PROVE  who'[s] \notin begun \/ batch' # batch
  <2>1. CASE NextBatch
    <3>1. batch' = batch + 1 /\ batch \in Nat
      BY <1>1, <2>1 DEF NextBatch, Typed
    <3> QED
      BY <3>1
  <2>2. ASSUME UNCHANGED who PROVE FALSE
    BY <1>1, <2>2
  <2>3. ASSUME NEW t \in Slot, Refill(t) PROVE who'[s] \notin begun
    <3>1. who' = [who EXCEPT ![t] = Neutron("pool", dev.next)]
      BY <2>3 DEF Refill, Occupy
    <3>2. who'[s] = Neutron("pool", dev.next)
      BY <1>1, <3>1 DEF Typed
    <3>3. Neutron("pool", dev.next).kind = "pool" /\ Neutron("pool", dev.next).i = dev.next
      BY DEF Neutron
    <3>4. dev.next \in Nat
      BY <1>1 DEF RefillInv, CursorBounded
    <3> QED
      BY <1>1, <3>2, <3>3, <3>4 DEF RefillInv, RefillsPast
  <2>4. ASSUME NEW t \in Slot, Inject(t) PROVE who'[s] \notin begun
    <3>1. who' = [who EXCEPT ![t] = Neutron("secondary", dev.secRead)]
      BY <2>4 DEF Inject, Occupy
    <3>2. who'[s] = Neutron("secondary", dev.secRead)
      BY <1>1, <3>1 DEF Typed
    <3>3. /\ Neutron("secondary", dev.secRead).kind = "secondary"
          /\ Neutron("secondary", dev.secRead).i = dev.secRead
      BY DEF Neutron
    <3>4. dev.secRead \in Nat
      BY <1>1 DEF Typed, DevTypes
    <3> QED
      BY <1>1, <3>2, <3>3, <3>4 DEF CursorsPast
  <2>5. ASSUME NEW t \in Slot, InitStack(t) \/ RefillNothing(t) \/ InjectNothing(t) PROVE UNCHANGED who
    BY <2>5 DEF InitStack, RefillNothing, InjectNothing, Leaves, history
  <2> QED
    BY <1>1, <2>1, <2>2, <2>3, <2>4, <2>5, NextIs, LaunchKeeps, TraceKeeps, PartitionKeeps, EventsKeep
       DEF Others, Scan, history, vars
<1>2. SortInv /\ RefillInv /\ CursorsPast /\ [Next]_vars =>
        [\A s \in Slot : who'[s] # who[s] => who'[s] \notin begun \/ batch' # batch]_vars
  BY <1>1 DEF SortInv
<1> QED
  BY <1>2, RefillInvariant, SecondariesInvariant, PTL DEF Spec, NobodyBeginsTwice
=============================================================================
