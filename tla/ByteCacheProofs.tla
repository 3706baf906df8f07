-------------------------- MODULE ByteCacheProofs --------------------------
(***************************************************************************)
(* Theorems about the two caches that count the bytes they hold.           *)
(*                                                                         *)
(* L1Memory: for every set of keys and values, every budget and every      *)
(* preload manifest.  GpuBufferCache: for every number of workers,         *)
(* nuclides, addresses and slot lists and every cap.                       *)
(***************************************************************************)
EXTENDS L1Memory, GpuBufferCache, FiniteSetTheorems, TLAPS

-----------------------------------------------------------------------------
(***************************************************************************)
(* The in-process cache.                                                   *)
(***************************************************************************)
\* Types.

LEMMA AbsentEntry == Absent \notin Entry
  BY AbsentAssumption

LEMMA PuttingNotAbsent ==
  ASSUME NEW k \in Keys, NEW v \in Vals PROVE [key |-> k, val |-> v] # Absent
  BY AbsentAssumption DEF PutRequest

LEMMA TypeInit == L1Init => L1TypeOK
  BY DEF L1Init, L1TypeOK

LEMMA TypeStep == L1TypeOK /\ [L1Next]_l1_vars => L1TypeOK'
<1> SUFFICES ASSUME L1TypeOK, [L1Next]_l1_vars PROVE L1TypeOK'
  OBVIOUS
<1> USE L1Assumption, AbsentEntry DEF L1TypeOK, PutRequest
<1>1. ASSUME NEW k \in Keys, TryGet(k) PROVE L1TypeOK'
  BY <1>1 DEF TryGet, Resident, Entry
<1>2. ASSUME NEW k \in Keys, NEW v \in Vals, PutBegin(k, v) PROVE L1TypeOK'
  BY <1>2 DEF PutBegin, Remove, Resident, SatSub, Entry
<1>3. ASSUME NEW k \in Keys, PutEvict(k) PROVE L1TypeOK'
  BY <1>3 DEF PutEvict, Victims, Remove, Resident, SatSub, Entry
<1>4. ASSUME PutInsert PROVE L1TypeOK'
  <2>1. putting \in [key : Keys, val : Vals]
    BY <1>4 DEF PutInsert, MutexFree
  <2>2. NewEntry(putting.key, putting.val) \in Entry
    BY <2>1 DEF NewEntry, Entry
  <2> QED
    BY <1>4, <2>1, <2>2 DEF PutInsert
<1>5. ASSUME NEW w \in PreloadMaps, SetPreloadWeights(w) PROVE L1TypeOK'
  <2>1. \A k \in DOMAIN w : k \in Keys /\ w[k] \in Nat
    OBVIOUS
  <2>2. \A k \in DOMAIN w \cap Resident :
          [entries[k] EXCEPT !.preload_weight = w[k]] \in Entry
    BY <2>1 DEF Resident, Entry
  <2> QED
    BY <1>5, <2>1, <2>2 DEF SetPreloadWeights
<1>6. CASE UNCHANGED l1_vars
  BY <1>6 DEF l1_vars
<1> QED
  BY <1>1, <1>2, <1>3, <1>4, <1>5, <1>6 DEF L1Next, PutStep

\* The variables of the cache keep their types.
THEOREM L1TypeCorrect == L1Spec => []L1TypeOK
<1>1. L1Init => L1TypeOK
  BY TypeInit
<1>2. L1TypeOK /\ [L1Next]_l1_vars => L1TypeOK'
  BY TypeStep
<1> QED
  BY <1>1, <1>2, PTL DEF L1Spec

-----------------------------------------------------------------------------
(***************************************************************************)
(* Bytes.  Counting the cells (k, i) with i up to the size of k's entry    *)
(* turns "the sum of the sizes" into the cardinality of a set, so removing *)
(* an entry takes away a block of cells and inserting one adds a block.    *)
(***************************************************************************)
Block(k, n) == {k} \X (1..n)

LEMMA BlockSize ==
  ASSUME NEW k, NEW n \in Nat
  PROVE  IsFiniteSet(Block(k, n)) /\ Cardinality(Block(k, n)) = n
<1>1. IsFiniteSet({k}) /\ Cardinality({k}) = 1
  BY FS_Singleton
<1>2. IsFiniteSet(1..n) /\ Cardinality(1..n) = n
  BY FS_Interval
<1>3. /\ IsFiniteSet({k} \X (1..n))
      /\ Cardinality({k} \X (1..n)) = Cardinality({k}) * Cardinality(1..n)
  BY <1>1, <1>2, FS_Product, Zenon
<1> QED
  BY <1>1, <1>2, <1>3 DEF Block

LEMMA CellsFinite == IsFiniteSet(HeldCells) /\ HeldBytes \in Nat
<1>1. IsFiniteSet(1..MaxSize)
  BY FS_Interval, L1Assumption
<1>2. IsFiniteSet(Keys \X (1..MaxSize))
  BY <1>1, FS_Product, L1Assumption
<1>3. IsFiniteSet(HeldCells)
  BY <1>2, FS_Subset DEF HeldCells
<1> QED
  BY <1>3, FS_CardinalityType DEF HeldBytes

LEMMA RemoveBytes ==
  ASSUME L1TypeOK, TotalBytesExact, NEW k \in Resident, Remove(k)
  PROVE  TotalBytesExact'
<1> DEFINE B == Block(k, entries[k].bytes)
<1>1. entries[k].bytes \in 0..MaxSize /\ entries[k].bytes \in Nat
  BY L1Assumption DEF L1TypeOK, Resident, Entry
<1>2. B \subseteq HeldCells
  BY <1>1, L1Assumption DEF Block, HeldCells, Resident
<1>3. HeldCells' = HeldCells \ B
  BY <1>1, L1Assumption DEF Block, HeldCells, Resident, Remove, L1TypeOK
<1>4. HeldCells \cap B = B
  BY <1>2
<1>5. Cardinality(HeldCells \ B) = Cardinality(HeldCells) - Cardinality(B)
  BY <1>4, CellsFinite, FS_Difference
<1>6. Cardinality(B) = entries[k].bytes
  BY <1>1, BlockSize
<1>7. Cardinality(B) <= Cardinality(HeldCells)
  BY <1>2, CellsFinite, FS_Subset
<1>8. HeldBytes' = HeldBytes - entries[k].bytes /\ entries[k].bytes <= HeldBytes
  BY <1>3, <1>5, <1>6, <1>7 DEF HeldBytes
<1> QED
  BY <1>1, <1>8, CellsFinite DEF TotalBytesExact, Remove, SatSub

LEMMA InsertBytes ==
  ASSUME L1TypeOK, TotalBytesExact, PutInsert, entries[putting.key] = Absent
  PROVE  TotalBytesExact'
<1> DEFINE k == putting.key
           n == Size[putting.val]
           B == Block(k, n)
<1>1. k \in Keys /\ putting.val \in Vals /\ n \in 0..MaxSize /\ n \in Nat
  BY L1Assumption DEF L1TypeOK, PutRequest, PutInsert, MutexFree
<1>2. NewEntry(k, putting.val) \in Entry
  BY <1>1, L1Assumption DEF NewEntry, Entry, L1TypeOK
<1>3. NewEntry(k, putting.val) # Absent /\ NewEntry(k, putting.val).bytes = n
  BY <1>2, AbsentEntry DEF NewEntry
<1>4. entries' = [entries EXCEPT ![k] = NewEntry(k, putting.val)]
  BY DEF PutInsert
<1>5. HeldCells' = HeldCells \cup B
  BY <1>1, <1>3, <1>4, L1Assumption DEF Block, HeldCells, L1TypeOK
<1>6. HeldCells \cap B = {}
  BY DEF Block, HeldCells
<1>7. IsFiniteSet(B) /\ Cardinality(B) = n
  BY <1>1, BlockSize
<1>8. Cardinality(HeldCells \cup B) = Cardinality(HeldCells) + n
  BY <1>1, <1>6, <1>7, CellsFinite, FS_Union, FS_EmptySet DEF HeldBytes
<1> QED
  BY <1>5, <1>8 DEF TotalBytesExact, HeldBytes, PutInsert

-----------------------------------------------------------------------------
(***************************************************************************)
(* The inductive invariant.  Besides the four invariants the runs check it *)
(* says what the loop of a put may rely on: the key being put has no       *)
(* entry, and nothing counts as evicted before the loop starts.            *)
(***************************************************************************)
PutInv ==
  /\ MutexFree => evicted = {}
  /\ ~ MutexFree => entries[putting.key] = Absent

L1Inv == PutInv /\ TotalBytesExact /\ WithinBudget /\ EvictsColdest /\ EvictsNoMoreThanNeeded

LEMMA L1InvInit == L1Init => L1Inv
<1> SUFFICES ASSUME L1Init PROVE L1Inv
  OBVIOUS
<1>1. HeldCells = {}
  BY DEF L1Init, HeldCells
<1>2. HeldBytes = 0
  BY <1>1, FS_EmptySet DEF HeldBytes
<1>3. TotalBytesExact
  BY <1>2 DEF L1Init, TotalBytesExact
<1>4. PutInv /\ WithinBudget
  BY L1Assumption DEF L1Init, PutInv, MutexFree, WithinBudget, Budget
<1>5. EvictsColdest /\ EvictsNoMoreThanNeeded
  BY DEF L1Init, EvictsColdest, EvictsNoMoreThanNeeded
<1> QED
  BY <1>3, <1>4, <1>5 DEF L1Inv

\* A step that leaves the sizes alone and is taken outside a put.
LEMMA QuietStep ==
  ASSUME L1TypeOK, L1TypeOK', L1Inv, MutexFree, UNCHANGED <<total_bytes, putting, evicted>>,
         \A k \in Keys : \/ entries'[k] = entries[k]
                         \/ /\ entries[k] # Absent /\ entries'[k] # Absent
                            /\ entries'[k].bytes = entries[k].bytes
  PROVE  L1Inv'
<1>1. HeldCells' = HeldCells
  BY DEF HeldCells
<1>2. Resident' = Resident
  BY DEF Resident
<1>3. TotalBytesExact'
  BY <1>1 DEF L1Inv, TotalBytesExact, HeldBytes
<1>4. WithinBudget'
  BY <1>2 DEF L1Inv, WithinBudget, MutexFree, Budget
<1>5. evicted' = {}
  BY DEF L1Inv, PutInv
<1>6. PutInv' /\ EvictsColdest' /\ EvictsNoMoreThanNeeded'
  BY <1>5 DEF L1Inv, PutInv, MutexFree, EvictsColdest, EvictsNoMoreThanNeeded
<1> QED
  BY <1>3, <1>4, <1>6 DEF L1Inv

LEMMA PutBeginInv ==
  ASSUME L1TypeOK, L1Inv, NEW k \in Keys, NEW v \in Vals, PutBegin(k, v)
  PROVE  L1Inv'
<1>1. putting' = [key |-> k, val |-> v] /\ evicted' = {}
  BY DEF PutBegin, L1Inv, PutInv
<1>2. putting' # Absent /\ putting'.key = k
  BY <1>1, PuttingNotAbsent
<1>3. TotalBytesExact'
  <2>1. CASE k \in Resident /\ Remove(k)
    BY <2>1, RemoveBytes DEF L1Inv
  <2>2. CASE k \notin Resident /\ UNCHANGED <<entries, total_bytes>>
    BY <2>2 DEF L1Inv, TotalBytesExact, HeldBytes, HeldCells
  <2> QED
    BY <2>1, <2>2 DEF PutBegin
<1>4. entries'[k] = Absent
  BY DEF PutBegin, Remove, Resident, L1TypeOK
<1>5. WithinBudget' /\ EvictsColdest' /\ EvictsNoMoreThanNeeded' /\ PutInv'
  BY <1>1, <1>2, <1>4
     DEF WithinBudget, EvictsColdest, EvictsNoMoreThanNeeded, PutInv, MutexFree
<1> QED
  BY <1>3, <1>5 DEF L1Inv

LEMMA PutEvictInv ==
  ASSUME L1TypeOK, L1TypeOK', L1Inv, NEW k \in Keys, PutEvict(k)
  PROVE  L1Inv'
<1> DEFINE e == entries[k]
<1>1. /\ k \in Resident /\ Remove(k) /\ ~ MutexFree
      /\ evicted' = evicted \cup {e}
      /\ UNCHANGED <<counter, putting>>
  BY DEF PutEvict, Victims
<1>2. TotalBytesExact'
  BY <1>1, RemoveBytes DEF L1Inv
<1>3. Resident' = Resident \ {k}
  BY <1>1 DEF Remove, Resident, L1TypeOK
<1>4. \A j \in Resident' : entries'[j] = entries[j]
  BY <1>1, <1>3 DEF Remove, L1TypeOK
<1>5. \A j \in Resident : ~ ScoreBelow(entries[j], e, counter)
  BY DEF PutEvict, Victims
<1>6. EvictsColdest'
  BY <1>1, <1>3, <1>4, <1>5 DEF L1Inv, EvictsColdest
<1>7. EvictsNoMoreThanNeeded'
  <2>1. \A f \in evicted' : ~ ScoreBelow(e, f, counter)
    BY <1>1, <1>5 DEF L1Inv, EvictsColdest
  <2>2. total_bytes + Size[putting.val] > Budget
    BY DEF PutEvict, PutMustEvict, MustEvict
  <2>3. total_bytes' + e.bytes >= total_bytes
    BY <1>1 DEF Remove, SatSub, L1TypeOK, Resident, Entry
  <2>4. putting.val \in Vals /\ Size[putting.val] \in Nat /\ e.bytes \in Nat
    BY <1>1, L1Assumption DEF L1TypeOK, PutRequest, MutexFree, Resident, Entry
  <2>5. total_bytes' + e.bytes + Size[putting.val] > Budget
    BY <2>2, <2>3, <2>4, L1Assumption DEF L1TypeOK, Budget
  <2> QED
    BY <1>1, <2>1, <2>5 DEF EvictsNoMoreThanNeeded, Budget
<1>8. PutInv' /\ WithinBudget'
  BY <1>1 DEF L1Inv, PutInv, WithinBudget, MutexFree, Remove, L1TypeOK
<1> QED
  BY <1>2, <1>6, <1>7, <1>8 DEF L1Inv

LEMMA PutInsertInv ==
  ASSUME L1TypeOK, L1TypeOK', L1Inv, PutInsert
  PROVE  L1Inv'
<1>1. entries[putting.key] = Absent
  BY DEF L1Inv, PutInv, PutInsert
<1>2. TotalBytesExact'
  BY <1>1, InsertBytes DEF L1Inv
<1>3. evicted' = {} /\ putting' = Absent
  BY DEF PutInsert
<1>4. PutInv' /\ EvictsColdest' /\ EvictsNoMoreThanNeeded'
  BY <1>3 DEF PutInv, MutexFree, EvictsColdest, EvictsNoMoreThanNeeded
<1>5. WithinBudget'
  <2>1. putting.key \in Keys
    BY DEF L1TypeOK, PutRequest, PutInsert, MutexFree
  <2>2. CASE Resident = {}
    <3>1. Resident' \subseteq {putting.key}
      BY <2>1, <2>2 DEF Resident, PutInsert, L1TypeOK
    <3>2. NewEntry(putting.key, putting.val) \in Entry
      BY L1Assumption DEF NewEntry, Entry, L1TypeOK, PutRequest, PutInsert, MutexFree
    <3>3. Resident' = {putting.key}
      BY <2>1, <3>1, <3>2, AbsentEntry DEF Resident, PutInsert, L1TypeOK
    <3> QED
      BY <3>3, FS_Singleton DEF WithinBudget
  <2>3. CASE total_bytes + Size[putting.val] <= Budget
    BY <2>3 DEF PutInsert, WithinBudget, Budget
  <2>4. total_bytes + Size[putting.val] \in Int /\ Budget \in Int
    BY L1Assumption DEF L1TypeOK, PutRequest, PutInsert, MutexFree, Budget
  <2> QED
    BY <2>2, <2>3, <2>4 DEF PutInsert, PutMustEvict, MustEvict
<1> QED
  BY <1>2, <1>4, <1>5 DEF L1Inv

LEMMA L1InvStep == L1TypeOK /\ L1TypeOK' /\ L1Inv /\ [L1Next]_l1_vars => L1Inv'
<1> SUFFICES ASSUME L1TypeOK, L1TypeOK', L1Inv, [L1Next]_l1_vars PROVE L1Inv'
  OBVIOUS
<1>1. ASSUME NEW k \in Keys, TryGet(k) PROVE L1Inv'
  <2>1. \A j \in Keys : \/ entries'[j] = entries[j]
                        \/ /\ entries[j] # Absent /\ entries'[j] # Absent
                           /\ entries'[j].bytes = entries[j].bytes
    BY <1>1, AbsentEntry DEF TryGet, Resident, L1TypeOK, Entry
  <2> QED
    BY <1>1, <2>1, QuietStep DEF TryGet
<1>2. ASSUME NEW k \in Keys, NEW v \in Vals, PutBegin(k, v) PROVE L1Inv'
  BY <1>2, PutBeginInv
<1>3. ASSUME NEW k \in Keys, PutEvict(k) PROVE L1Inv'
  BY <1>3, PutEvictInv
<1>4. ASSUME PutInsert PROVE L1Inv'
  BY <1>4, PutInsertInv
<1>5. ASSUME NEW w \in PreloadMaps, SetPreloadWeights(w) PROVE L1Inv'
  <2>1. \A j \in Keys : \/ entries'[j] = entries[j]
                        \/ /\ entries[j] # Absent /\ entries'[j] # Absent
                           /\ entries'[j].bytes = entries[j].bytes
    <3>1. \A j \in Keys : entries[j] # Absent => entries[j] \in Entry
      BY DEF L1TypeOK
    <3>2. ASSUME NEW j \in Keys, entries[j] = Absent
          PROVE  entries'[j] = entries[j]
      BY <1>5, <3>2 DEF SetPreloadWeights, Resident, L1TypeOK
    <3>3. ASSUME NEW j \in Keys, entries[j] # Absent
          PROVE  \/ entries'[j] = entries[j]
                 \/ entries'[j] # Absent /\ entries'[j].bytes = entries[j].bytes
      <4>1. entries[j] \in Entry
        BY <3>1, <3>3
      <4>2. \/ entries'[j] = entries[j]
            \/ j \in DOMAIN w /\ entries'[j] = [entries[j] EXCEPT !.preload_weight = w[j]]
        BY <1>5 DEF SetPreloadWeights
      <4>3. j \in DOMAIN w => w[j] \in Nat
        BY L1Assumption
      <4> QED
        BY <4>1, <4>2, <4>3, AbsentEntry DEF Entry
    <3> QED
      BY <3>2, <3>3
  <2> QED
    BY <1>5, <2>1, QuietStep DEF SetPreloadWeights
<1>6. CASE UNCHANGED l1_vars
  BY <1>6 DEF l1_vars, L1Inv, PutInv, MutexFree, TotalBytesExact, HeldBytes, HeldCells,
              WithinBudget, Budget, Resident, EvictsColdest, EvictsNoMoreThanNeeded
<1> QED
  BY <1>1, <1>2, <1>3, <1>4, <1>5, <1>6 DEF L1Next, PutStep

\* In every reachable state the running byte total is exact, the budget holds,
\* and what a put has evicted is the coldest and no more than it needed.
THEOREM CacheInvariant == L1Spec => []L1Inv
<1>1. L1Init => L1Inv
  BY L1InvInit
<1>2. L1TypeOK /\ L1TypeOK' /\ L1Inv /\ [L1Next]_l1_vars => L1Inv'
  BY L1InvStep
<1> QED
  BY <1>1, <1>2, L1TypeCorrect, PTL DEF L1Spec

\* l1_memory.rs never drifts from the bytes it really holds.
THEOREM L1BytesExact == L1Spec => []TotalBytesExact
  BY CacheInvariant, PTL DEF L1Inv

\* The budget is exceeded by a single oversized entry at worst.
THEOREM BudgetHolds == L1Spec => []WithinBudget
  BY CacheInvariant, PTL DEF L1Inv

\* Eviction takes the lowest scores, over all the rounds of a put.
THEOREM ColdestEvicted == L1Spec => []EvictsColdest
  BY CacheInvariant, PTL DEF L1Inv

\* Eviction stops as soon as the new value fits.
THEOREM NoNeedlessEviction == L1Spec => []EvictsNoMoreThanNeeded
  BY CacheInvariant, PTL DEF L1Inv

-----------------------------------------------------------------------------
(***************************************************************************)
(* Refinement: every step of the cache is a step of the lossy store of its *)
(* visible values, or leaves them alone.  The removal at the head of a put *)
(* and each eviction is a Forget, the insertion is the Put.                *)
(***************************************************************************)
LEMMA VisibleType == L1TypeOK => Visible \in [Keys -> Vals \cup {Absent}]
  BY DEF L1TypeOK, Visible, Entry

LEMMA RefinesInit == L1Init => Abstract!StoreInit
  BY DEF L1Init, Visible, Abstract!StoreInit, Abstract!Reply

LEMMA RemoveForgets ==
  ASSUME L1TypeOK, L1TypeOK', NEW k \in Keys, Remove(k), UNCHANGED got
  PROVE  Abstract!Forget
<1>1. Visible' = [Visible EXCEPT ![k] = Absent]
  BY DEF Remove, Visible, L1TypeOK
<1>2. \A j \in Keys : Visible'[j] \in {Visible[j], Absent}
  BY <1>1 DEF Visible
<1> QED
  BY <1>2, VisibleType DEF Abstract!Forget, Abstract!Shrinks, Visible, L1TypeOK, Entry

LEMMA RefinesStep ==
  L1TypeOK /\ L1TypeOK' /\ L1Inv /\ [L1Next]_l1_vars => [Abstract!StoreNext]_(Abstract!storeVars)
<1> SUFFICES ASSUME L1TypeOK, L1TypeOK', L1Inv, [L1Next]_l1_vars
             PROVE  [Abstract!StoreNext]_(Abstract!storeVars)
  OBVIOUS
<1> USE DEF Abstract!storeVars
<1>1. ASSUME NEW k \in Keys, TryGet(k) PROVE Abstract!Get(k)
  <2>1. Visible' = Visible
    BY <1>1, AbsentEntry DEF TryGet, Visible, Resident, L1TypeOK, Entry
  <2>2. got' = [key |-> k, val |-> Visible[k]]
    BY <1>1 DEF TryGet, Visible, Resident
  <2> QED
    BY <2>1, <2>2 DEF Abstract!Get
<1>2. ASSUME NEW k \in Keys, NEW v \in Vals, PutBegin(k, v)
      PROVE  Abstract!Forget \/ UNCHANGED <<Visible, got>>
  <2>1. CASE k \in Resident /\ Remove(k)
    BY <1>2, <2>1, RemoveForgets DEF PutBegin
  <2>2. CASE k \notin Resident /\ UNCHANGED <<entries, total_bytes>>
    BY <1>2, <2>2 DEF PutBegin, Visible
  <2> QED
    BY <1>2, <2>1, <2>2 DEF PutBegin
<1>3. ASSUME NEW k \in Keys, PutEvict(k) PROVE Abstract!Forget
  BY <1>3, RemoveForgets DEF PutEvict
<1>4. ASSUME PutInsert PROVE Abstract!Put(putting.key, putting.val)
  <2> DEFINE k == putting.key
             v == putting.val
  <2>1. k \in Keys /\ v \in Vals
    BY <1>4 DEF PutInsert, MutexFree, L1TypeOK, PutRequest
  <2>2. NewEntry(k, v) # Absent /\ NewEntry(k, v).val = v
    <3>1. NewEntry(k, v) \in Entry
      BY <2>1, L1Assumption DEF NewEntry, Entry, L1TypeOK
    <3> QED
      BY <3>1, AbsentEntry DEF NewEntry
  <2>3. Visible' = [Visible EXCEPT ![k] = v]
    BY <1>4, <2>1, <2>2 DEF PutInsert, Visible, L1TypeOK
  <2>4. Visible' \in [Keys -> Vals \cup {Absent}]
    BY VisibleType DEF Visible, L1TypeOK, Entry
  <2> QED
    BY <1>4, <2>3, <2>4 DEF PutInsert, Abstract!Put, Abstract!Shrinks
<1>5. ASSUME NEW w \in PreloadMaps, SetPreloadWeights(w) PROVE UNCHANGED <<Visible, got>>
  BY <1>5, AbsentEntry DEF SetPreloadWeights, Visible, Resident, L1TypeOK, Entry
<1>6. CASE UNCHANGED l1_vars
  BY <1>6 DEF l1_vars, Visible
<1>7. PutInsert => putting.key \in Keys /\ putting.val \in Vals
  BY DEF PutInsert, MutexFree, L1TypeOK, PutRequest
<1> QED
  BY <1>1, <1>2, <1>3, <1>4, <1>5, <1>6, <1>7 DEF L1Next, PutStep, Abstract!StoreNext

\* The in-process cache implements the lossy store the NuclideStore trait
\* describes: a hit is the value last put under its key, and only a put brings a
\* dropped entry back.
THEOREM L1IsLossyStore == L1Spec => ImplementsLossyStore
<1>1. L1Init => Abstract!StoreInit
  BY RefinesInit
<1>2. L1TypeOK /\ L1TypeOK' /\ L1Inv /\ [L1Next]_l1_vars => [Abstract!StoreNext]_(Abstract!storeVars)
  BY RefinesStep
<1> QED
  BY <1>1, <1>2, L1TypeCorrect, CacheInvariant, PTL
     DEF L1Spec, ImplementsLossyStore, Abstract!StoreSpec

-----------------------------------------------------------------------------
(***************************************************************************)
(* The device caches.                                                      *)
(***************************************************************************)
(***************************************************************************)
(* Bytes of a set of entries, as cardinalities of their cells.             *)
(***************************************************************************)
CellsOf(k, n) == {k} \X (1..n)

LEMMA OneEntry ==
  ASSUME NEW k, NEW n \in Nat
  PROVE  IsFiniteSet(CellsOf(k, n)) /\ Cardinality(CellsOf(k, n)) = n
<1>1. IsFiniteSet({k}) /\ Cardinality({k}) = 1
  BY FS_Singleton
<1>2. IsFiniteSet(1..n) /\ Cardinality(1..n) = n
  BY FS_Interval
<1>3. /\ IsFiniteSet({k} \X (1..n))
      /\ Cardinality({k} \X (1..n)) = Cardinality({k}) * Cardinality(1..n)
  BY <1>1, <1>2, FS_Product, Zenon
<1> QED
  BY <1>1, <1>2, <1>3 DEF CellsOf

LEMMA BytesFinite ==
  ASSUME NEW S, IsFiniteSet(S), NEW size, \A k \in S : size[k] \in Nat
  PROVE  IsFiniteSet(Cells(S, size)) /\ BytesOf(S, size) \in Nat
<1> DEFINE f == [k \in S |-> CellsOf(k, size[k])]
           T == {CellsOf(k, size[k]) : k \in S}
<1>1. f \in Surjection(S, T)
  BY DEF Surjection
<1>2. IsFiniteSet(T)
  BY <1>1, FS_Surjection
<1>3. \A t \in T : IsFiniteSet(t)
  BY OneEntry
<1>4. IsFiniteSet(UNION T)
  BY <1>2, <1>3, FS_UNION
<1>5. UNION T = Cells(S, size)
  BY DEF Cells, CellsOf
<1> QED
  BY <1>4, <1>5, FS_CardinalityType DEF BytesOf

LEMMA BytesAgree ==
  ASSUME NEW S, NEW size, NEW other, \A k \in S : size[k] = other[k]
  PROVE  BytesOf(S, size) = BytesOf(S, other)
<1>1. Cells(S, size) = Cells(S, other)
  BY DEF Cells
<1> QED
  BY <1>1 DEF BytesOf

\* Evicting all but R takes away the bytes of the others.
LEMMA BytesEvict ==
  ASSUME NEW S, IsFiniteSet(S), NEW size, \A k \in S : size[k] \in Nat,
         NEW R \in SUBSET S
  PROVE  /\ BytesOf(R, size) = BytesOf(S, size) - BytesOf(S \ R, size)
         /\ BytesOf(S \ R, size) <= BytesOf(S, size)
         /\ BytesOf(R, size) <= BytesOf(S, size)
         /\ BytesOf(R, size) \in Nat
<1>1. IsFiniteSet(R) /\ IsFiniteSet(S \ R)
  BY FS_Subset, FS_Difference
<1>2. /\ IsFiniteSet(Cells(S, size)) /\ BytesOf(S, size) \in Nat
      /\ BytesOf(R, size) \in Nat
      /\ BytesOf(S \ R, size) \in Nat
  BY <1>1, BytesFinite
<1>3. Cells(R, size) = Cells(S, size) \ Cells(S \ R, size)
  BY DEF Cells
<1>4. Cells(S, size) \cap Cells(S \ R, size) = Cells(S \ R, size)
  BY DEF Cells
<1>5. Cardinality(Cells(R, size)) = Cardinality(Cells(S, size)) - Cardinality(Cells(S \ R, size))
  <2>1. /\ IsFiniteSet(Cells(S, size) \ Cells(S \ R, size))
        /\ Cardinality(Cells(S, size) \ Cells(S \ R, size)) =
             Cardinality(Cells(S, size)) - Cardinality(Cells(S, size) \cap Cells(S \ R, size))
    BY <1>2, FS_Difference, Zenon
  <2> QED
    BY <2>1, <1>3, <1>4, Zenon
<1> QED
  BY <1>2, <1>5 DEF BytesOf

LEMMA BytesInsert ==
  ASSUME NEW S, IsFiniteSet(S), NEW size, \A k \in S : size[k] \in Nat,
         NEW x, x \notin S, size[x] \in Nat
  PROVE  BytesOf(S \cup {x}, size) = BytesOf(S, size) + size[x]
<1>1. IsFiniteSet(Cells(S, size)) /\ BytesOf(S, size) \in Nat
  BY BytesFinite
<1>2. IsFiniteSet(CellsOf(x, size[x])) /\ Cardinality(CellsOf(x, size[x])) = size[x]
  BY OneEntry
<1>3. Cells(S \cup {x}, size) = Cells(S, size) \cup CellsOf(x, size[x])
  BY DEF Cells, CellsOf
<1>4. Cells(S, size) \cap CellsOf(x, size[x]) = {}
  BY DEF Cells, CellsOf
<1>5. Cardinality({}) = 0
  BY FS_EmptySet
<1>6. /\ Cardinality(Cells(S, size) \cup CellsOf(x, size[x]))
           = Cardinality(Cells(S, size)) + Cardinality(CellsOf(x, size[x]))
             - Cardinality(Cells(S, size) \cap CellsOf(x, size[x]))
  BY <1>1, <1>2, FS_Union
<1>7. Cardinality(Cells(S, size)) \in Nat
  BY <1>1, FS_CardinalityType
<1>8. Cardinality(Cells(S, size) \cup CellsOf(x, size[x])) = Cardinality(Cells(S, size)) + size[x]
  <2>1. Cardinality(Cells(S, size) \cap CellsOf(x, size[x])) = 0
    BY <1>4, <1>5, Zenon
  <2> DEFINE c == Cardinality(Cells(S, size))
             d == Cardinality(CellsOf(x, size[x]))
             e == Cardinality(Cells(S, size) \cap CellsOf(x, size[x]))
             u == Cardinality(Cells(S, size) \cup CellsOf(x, size[x]))
             m == size[x]
  <2>2. u = c + d - e /\ d = m /\ e = 0 /\ c \in Nat /\ m \in Nat
    BY <1>2, <1>6, <1>7, <2>1
  <2> HIDE DEF c, d, e, u, m
  <2>3. u = c + m
    BY <2>2
  <2> QED
    BY <2>3 DEF c, u, m
<1> QED
  BY <1>3, <1>8 DEF BytesOf

LEMMA NoBytes == ASSUME NEW size PROVE BytesOf({}, size) = 0
<1>1. Cells({}, size) = {}
  BY DEF Cells
<1> QED
  BY <1>1, FS_EmptySet DEF BytesOf

-----------------------------------------------------------------------------
(***************************************************************************)
(* The invariant: types, where a worker stands, what a live Arc is, and    *)
(* the two properties.                                                     *)
(***************************************************************************)
Uploading == {"clearsab", "budget", "lookup", "preevict", "transfer"}

\* Past the resolution, a worker has an Arc for each nuclide of its case; what it is
\* loading or uploading is a nuclide of the case, or a slot list.
Stages ==
  \A w \in Workers :
    /\ pc[w] = "store" => cur[w] \in Nuclides /\ arcs[w][cur[w]] \in Addrs
    /\ pc[w] \in {"preevict", "transfer"} => cur[w] \in want[w]
    /\ pc[w] \in Uploading => \A n \in want[w] : arcs[w][n] \in Addrs
    /\ pc[w] = "sabinsert" => cur[w] \in SabKeys
    /\ pc[w] = "sabtransfer" => cur[w] \in SabKeys

\* What a case or the host cache holds an Arc of is still at the Arc's address.
ArcsStayLive ==
  /\ \A w \in Workers, n \in Nuclides : arcs[w][n] # None => host[arcs[w][n]] = n
  /\ \A n \in Nuclides : l1[n] # None => host[l1[n]] = n

IInv == TypeOK /\ Stages /\ ArcsStayLive /\ TotalsExact /\ EachWithinCap

-----------------------------------------------------------------------------
\* Types of the parts.
LEMMA CachedFinite == IsFiniteSet(Cached) /\ Cached \subseteq Addrs
<1>1. Cached \in SUBSET Addrs
  BY DEF Cached
<1> QED
  BY <1>1, FS_Subset, GpuCacheAssumption

LEMMA PerSizes ==
  ASSUME TypeOK
  PROVE  \A a \in Cached : /\ PerSize[a] = DeviceBytes[per[a]]
                           /\ PerSize[a] \in Nat
<1>1. \A a \in Cached : PerSize[a] = DeviceBytes[per[a]] /\ per[a] \in Nuclides
  BY DEF PerSize, Cached, TypeOK
<1> QED
  BY <1>1, GpuCacheAssumption

LEMMA SabSizes ==
  ASSUME TypeOK
  PROVE  /\ IsFiniteSet(sab)
         /\ \A s \in sab : SabBytes[s] \in Nat
<1>1. sab \in SUBSET SabKeys
  BY DEF TypeOK
<1>2. IsFiniteSet(sab)
  BY <1>1, FS_Subset, GpuCacheAssumption
<1> QED
  BY <1>1, <1>2, GpuCacheAssumption

\* What a survivor set leaves, against the limit.
LEMMA SurvivorsFit ==
  ASSUME NEW S, IsFiniteSet(S), NEW size, \A k \in S : size[k] \in Nat,
         NEW total, total = BytesOf(S, size),
         NEW new \in Nat, NEW limit \in Nat,
         NEW R \in Survivors(S, size, total, new, limit)
  PROVE  /\ R \subseteq S
         /\ Less(total, BytesOf(S \ R, size)) = BytesOf(R, size)
         /\ BytesOf(R, size) \in Nat
         /\ BytesOf(R, size) <= total
         /\ R = {} \/ BytesOf(R, size) + new <= limit
<1>1. /\ R \in SUBSET S
      /\ R = {} \/ (total - BytesOf(S \ R, size)) + new <= limit
  BY DEF Survivors
<1>2. IsFiniteSet(S \ R)
  BY FS_Difference
<1>3. BytesOf(S, size) \in Nat /\ BytesOf(S \ R, size) \in Nat
  BY <1>2, BytesFinite
<1>4. /\ BytesOf(R, size) = BytesOf(S, size) - BytesOf(S \ R, size)
      /\ BytesOf(S \ R, size) <= BytesOf(S, size)
      /\ BytesOf(R, size) <= BytesOf(S, size)
      /\ BytesOf(R, size) \in Nat
  BY <1>1, BytesEvict
<1> QED
  BY <1>1, <1>3, <1>4 DEF Less

-----------------------------------------------------------------------------
\* Every entry's bytes are accounted for by an eviction and by an insertion.
LEMMA EvictPerBytes ==
  ASSUME TypeOK, NEW R \in SUBSET Cached, EvictPer(R),
         Less(per_total, BytesOf(Cached \ R, PerSize)) = BytesOf(R, PerSize)
  PROVE  Cached' = R /\ per_total' = BytesOf(Cached', PerSize')
<1>1. /\ \A b \in R : b \in Addrs /\ per[b] # None
      /\ \A b \in Addrs : per'[b] = IF b \in R THEN per[b] ELSE None
  BY DEF EvictPer, Cached
<1>2. Cached' = R
  BY <1>1 DEF Cached
<1>3. \A b \in R : PerSize[b] = PerSize'[b]
  BY <1>1, <1>2 DEF PerSize
<1>4. BytesOf(R, PerSize) = BytesOf(R, PerSize')
  BY <1>3, BytesAgree
<1> QED
  BY <1>2, <1>4 DEF EvictPer

LEMMA InsertPerBytes ==
  ASSUME TypeOK, NEW R \in SUBSET Cached, NEW a \in Addrs, per[a] = None, NEW n \in Nuclides,
         per' = [b \in Addrs |-> IF b \in R THEN per[b] ELSE IF b = a THEN n ELSE None],
         per_total' = BytesOf(R, PerSize) + DeviceBytes[n]
  PROVE  Cached' = R \cup {a} /\ a \notin R /\ per_total' = BytesOf(Cached', PerSize')
<1>1. /\ \A b \in R : b \in Addrs /\ per[b] # None
      /\ a \notin R /\ n # None
  BY GpuCacheAssumption DEF Cached
<1>2. Cached' = R \cup {a}
  BY <1>1 DEF Cached
<1>3. \A b \in R : PerSize[b] = PerSize'[b]
  BY <1>1, <1>2 DEF PerSize
<1>4. PerSize'[a] = DeviceBytes[n]
  BY <1>1, <1>2 DEF PerSize
<1>5. IsFiniteSet(R)
  BY CachedFinite, FS_Subset
<1>6. \A b \in R : PerSize'[b] \in Nat
  BY <1>3, PerSizes
<1>7. BytesOf(R \cup {a}, PerSize') = BytesOf(R, PerSize') + PerSize'[a]
  BY <1>1, <1>4, <1>5, <1>6, BytesInsert, GpuCacheAssumption
<1>8. BytesOf(R, PerSize) = BytesOf(R, PerSize')
  BY <1>3, BytesAgree
<1> QED
  BY <1>1, <1>2, <1>4, <1>7, <1>8

\* The budget a worker reads, whatever the sibling holds, is at most the cap.
LEMMA BudgetRead ==
  ASSUME NEW other \in Nat
  PROVE  Less(Cap, other) \in 0..Cap
  BY GpuCacheAssumption DEF Less

-----------------------------------------------------------------------------
\* The invariant holds at first.
LEMMA InvInit == Init => IInv
<1> SUFFICES ASSUME Init PROVE IInv
  OBVIOUS
<1>1. TypeOK
  BY GpuCacheAssumption DEF Init, TypeOK, NoArcs
<1>2. Stages
  BY DEF Init, Stages, Uploading
<1>3. ArcsStayLive
  BY DEF Init, ArcsStayLive, NoArcs
<1>4. Cached = {} /\ sab = {} /\ per_total = 0 /\ sab_total = 0
  BY DEF Init, Cached
<1>5. TotalsExact
  BY <1>4, NoBytes DEF TotalsExact
<1>6. EachWithinCap
  BY <1>4, GpuCacheAssumption DEF EachWithinCap
<1> QED
  BY <1>1, <1>2, <1>3, <1>5, <1>6 DEF IInv

\* A step that leaves the two caches alone leaves their totals and bounds alone.
LEMMA CachesAlone ==
  ASSUME IInv, UNCHANGED <<per, per_total, sab, sab_total>>
  PROVE  TotalsExact' /\ EachWithinCap'
<1>1. Cached' = Cached /\ PerSize' = PerSize
  BY DEF Cached, PerSize
<1> QED
  BY <1>1 DEF IInv, TotalsExact, EachWithinCap

\* A step that leaves the Arcs and the heap alone leaves them live.
LEMMA ArcsAlone ==
  ASSUME IInv, UNCHANGED <<host, l1, arcs>>
  PROVE  ArcsStayLive'
  BY DEF IInv, ArcsStayLive

-----------------------------------------------------------------------------
(***************************************************************************)
(* The host side.                                                          *)
(***************************************************************************)
LEMMA StartCaseInv ==
  ASSUME IInv, NEW w \in Workers, NEW S \in SUBSET Nuclides, StartCase(w, S)
  PROVE  IInv'
<1>1. TypeOK'
  BY DEF IInv, TypeOK, StartCase, Goto
<1>2. Stages'
  BY DEF IInv, TypeOK, Stages, Uploading, StartCase, Goto
<1>3. ArcsStayLive' /\ TotalsExact' /\ EachWithinCap'
  BY ArcsAlone, CachesAlone DEF StartCase
<1> QED
  BY <1>1, <1>2, <1>3 DEF IInv

LEMMA ResolveHitInv ==
  ASSUME IInv, NEW w \in Workers, NEW n \in Nuclides, ResolveHit(w, n)
  PROVE  IInv'
<1>1. TypeOK'
  BY DEF IInv, TypeOK, ResolveHit
<1>2. Stages'
  BY DEF IInv, TypeOK, Stages, Uploading, ResolveHit
<1>3. ArcsStayLive'
  BY DEF IInv, TypeOK, ArcsStayLive, ResolveHit
<1>4. TotalsExact' /\ EachWithinCap'
  BY CachesAlone DEF ResolveHit
<1> QED
  BY <1>1, <1>2, <1>3, <1>4 DEF IInv

\* The new address is free, so nobody holds it.
LEMMA ResolveLoadInv ==
  ASSUME IInv, NEW w \in Workers, NEW n \in Nuclides, NEW a \in Addrs, ResolveLoad(w, n, a)
  PROVE  IInv'
<1>1. TypeOK'
  BY DEF IInv, TypeOK, ResolveLoad, Goto
<1>2. Stages'
  BY DEF IInv, TypeOK, Stages, Uploading, ResolveLoad, Goto
<1>3. ArcsStayLive'
  <2>1. /\ \A v \in Workers, m \in Nuclides : arcs[v][m] # None => arcs[v][m] # a
        /\ \A m \in Nuclides : l1[m] # None => l1[m] # a
    BY GpuCacheAssumption DEF IInv, ArcsStayLive, ResolveLoad
  <2> QED
    BY <2>1 DEF IInv, TypeOK, ArcsStayLive, ResolveLoad
<1>4. TotalsExact' /\ EachWithinCap'
  BY CachesAlone DEF ResolveLoad
<1> QED
  BY <1>1, <1>2, <1>3, <1>4 DEF IInv

\* What is still referenced keeps its content.
LEMMA HeapKeeps ==
  ASSUME TypeOK, host' = HeapAfter(arcs', l1')
  PROVE  /\ host' \in [Addrs -> Nuclides \cup {None}]
         /\ \A v \in Workers, m \in Nuclides :
              arcs'[v][m] \in Addrs => host'[arcs'[v][m]] = host[arcs'[v][m]]
         /\ \A m \in Nuclides : l1'[m] \in Addrs => host'[l1'[m]] = host[l1'[m]]
<1>1. \A v \in Workers, m \in Nuclides : arcs'[v][m] \in Referenced(arcs', l1')
  BY DEF Referenced
<1>2. \A m \in Nuclides : l1'[m] \in Referenced(arcs', l1')
  BY DEF Referenced
<1>3. \A a \in Addrs : host'[a] = IF a \in Referenced(arcs', l1') THEN host[a] ELSE None
  BY DEF HeapAfter
<1>4. host' \in [Addrs -> Nuclides \cup {None}]
  BY DEF HeapAfter, TypeOK
<1> QED
  BY <1>1, <1>2, <1>3, <1>4

\* Arcs that were live when they were taken are live in the heap that is left.
LEMMA LiveAfter ==
  ASSUME TypeOK, TypeOK', host' = HeapAfter(arcs', l1'),
         \A v \in Workers, m \in Nuclides : arcs'[v][m] # None => host[arcs'[v][m]] = m,
         \A m \in Nuclides : l1'[m] # None => host[l1'[m]] = m
  PROVE  ArcsStayLive'
<1>1. /\ \A v \in Workers, m \in Nuclides : arcs'[v][m] # None => arcs'[v][m] \in Addrs
      /\ \A m \in Nuclides : l1'[m] # None => l1'[m] \in Addrs
  BY DEF TypeOK
<1> QED
  BY <1>1, HeapKeeps DEF ArcsStayLive

LEMMA ResolveStoreInv ==
  ASSUME IInv, NEW w \in Workers, ResolveStore(w)
  PROVE  IInv'
<1>1. cur[w] \in Nuclides /\ arcs[w][cur[w]] \in Addrs
  BY DEF IInv, Stages, ResolveStore
<1>2. l1' = [l1 EXCEPT ![cur[w]] = arcs[w][cur[w]]] /\ arcs' = arcs
  BY DEF ResolveStore
<1>3. host' = HeapAfter(arcs', l1')
  BY <1>2 DEF ResolveStore, HeapAfter, Referenced
<1>4. TypeOK'
  <2>1. host' \in [Addrs -> Nuclides \cup {None}]
    BY <1>3, HeapKeeps DEF IInv
  <2>2. l1' \in [Nuclides -> Addrs \cup {None}]
    BY <1>1, <1>2 DEF IInv, TypeOK
  <2> QED
    BY <2>1, <2>2 DEF IInv, TypeOK, ResolveStore, Goto
<1>5. Stages'
  BY DEF IInv, TypeOK, Stages, Uploading, ResolveStore, Goto
<1>6. ArcsStayLive'
  <2>1. \A v \in Workers, m \in Nuclides : arcs'[v][m] # None => host[arcs'[v][m]] = m
    BY <1>2 DEF IInv, ArcsStayLive
  <2>2. \A m \in Nuclides : l1'[m] # None => host[l1'[m]] = m
    <3> SUFFICES ASSUME NEW m \in Nuclides, l1'[m] # None PROVE host[l1'[m]] = m
      OBVIOUS
    <3>1. CASE m = cur[w]
      <4>1. l1'[m] = arcs[w][m]
        BY <1>1, <1>2, <3>1 DEF IInv, TypeOK
      <4> QED
        BY <4>1 DEF IInv, ArcsStayLive
    <3>2. CASE m # cur[w]
      <4>1. l1'[m] = l1[m]
        BY <1>1, <1>2, <3>2 DEF IInv, TypeOK
      <4> QED
        BY <4>1 DEF IInv, ArcsStayLive
    <3> QED
      BY <3>1, <3>2
  <2> QED
    BY <1>3, <1>4, <2>1, <2>2, LiveAfter DEF IInv
<1>7. TotalsExact' /\ EachWithinCap'
  BY CachesAlone DEF ResolveStore
<1> QED
  BY <1>4, <1>5, <1>6, <1>7 DEF IInv

LEMMA L1ForgetInv ==
  ASSUME IInv, NEW n \in Nuclides, L1Forget(n)
  PROVE  IInv'
<1>1. l1' = [l1 EXCEPT ![n] = None] /\ arcs' = arcs
  BY DEF L1Forget
<1>2. host' = HeapAfter(arcs', l1')
  BY <1>1 DEF L1Forget, HeapAfter, Referenced
<1>3. TypeOK'
  <2>1. host' \in [Addrs -> Nuclides \cup {None}]
    BY <1>2, HeapKeeps DEF IInv
  <2>2. l1' \in [Nuclides -> Addrs \cup {None}]
    BY <1>1 DEF IInv, TypeOK
  <2> QED
    BY <2>1, <2>2 DEF IInv, TypeOK, L1Forget
<1>4. Stages'
  BY DEF IInv, Stages, L1Forget
<1>5. ArcsStayLive'
  <2>1. \A v \in Workers, m \in Nuclides : arcs'[v][m] # None => host[arcs'[v][m]] = m
    BY <1>1 DEF IInv, ArcsStayLive
  <2>2. \A m \in Nuclides : l1'[m] # None => host[l1'[m]] = m
    BY <1>1 DEF IInv, TypeOK, ArcsStayLive
  <2> QED
    BY <1>2, <1>3, <2>1, <2>2, LiveAfter DEF IInv
<1>6. TotalsExact' /\ EachWithinCap'
  BY CachesAlone DEF L1Forget
<1> QED
  BY <1>3, <1>4, <1>5, <1>6 DEF IInv

LEMMA DropCaseInv ==
  ASSUME IInv, NEW w \in Workers, DropCase(w)
  PROVE  IInv'
<1>1. l1' = l1 /\ arcs' = [arcs EXCEPT ![w] = NoArcs]
  BY DEF DropCase
<1>2. host' = HeapAfter(arcs', l1')
  BY <1>1 DEF DropCase, HeapAfter, Referenced
<1>3. TypeOK'
  <2>1. host' \in [Addrs -> Nuclides \cup {None}]
    BY <1>2, HeapKeeps DEF IInv
  <2>2. NoArcs \in [Nuclides -> Addrs \cup {None}] /\ NoArcs \in [Nuclides -> Nuclides \cup {None}]
    BY DEF NoArcs
  <2>3. 0 \in 0..Cap
    BY GpuCacheAssumption
  <2>4. /\ arcs' \in [Workers -> [Nuclides -> Addrs \cup {None}]]
        /\ bundle' \in [Workers -> [Nuclides -> Nuclides \cup {None}]]
        /\ budget' \in [Workers -> 0..Cap]
    BY <2>2, <2>3 DEF IInv, TypeOK, DropCase
  <2>5. /\ want' \in [Workers -> SUBSET Nuclides]
        /\ cur' \in [Workers -> Nuclides \cup SabKeys \cup {None}]
    BY DEF IInv, TypeOK, DropCase
  <2> QED
    BY <2>1, <2>4, <2>5 DEF IInv, TypeOK, DropCase, Goto
<1>4. Stages'
  BY DEF IInv, TypeOK, Stages, Uploading, DropCase, Goto, NoArcs
<1>5. ArcsStayLive'
  <2>1. \A v \in Workers, m \in Nuclides : arcs'[v][m] # None => host[arcs'[v][m]] = m
    BY <1>1 DEF IInv, TypeOK, ArcsStayLive, NoArcs
  <2>2. \A m \in Nuclides : l1'[m] # None => host[l1'[m]] = m
    BY <1>1 DEF IInv, ArcsStayLive
  <2> QED
    BY <1>2, <1>3, <2>1, <2>2, LiveAfter DEF IInv
<1>6. TotalsExact' /\ EachWithinCap'
  BY CachesAlone DEF DropCase
<1> QED
  BY <1>3, <1>4, <1>5, <1>6 DEF IInv

-----------------------------------------------------------------------------
(***************************************************************************)
(* upload_nuclide_data.                                                    *)
(***************************************************************************)
LEMMA EmptyPer ==
  ASSUME IInv, per' = [a \in Addrs |-> None], per_total' = 0, UNCHANGED <<sab, sab_total>>
  PROVE  TotalsExact' /\ EachWithinCap'
<1>1. Cached' = {}
  BY DEF Cached
<1>2. BytesOf(Cached', PerSize') = 0
  BY <1>1, NoBytes
<1> QED
  BY <1>2, GpuCacheAssumption DEF IInv, TotalsExact, EachWithinCap

LEMMA ClearPerInv ==
  ASSUME IInv, NEW w \in Workers, ClearPer(w)
  PROVE  IInv'
<1>1. TypeOK'
  BY DEF IInv, TypeOK, ClearPer, Goto
<1>2. Stages'
  BY DEF IInv, TypeOK, Stages, Uploading, ClearPer, Goto
<1>3. ArcsStayLive'
  BY ArcsAlone DEF ClearPer
<1>4. TotalsExact' /\ EachWithinCap'
  BY EmptyPer DEF ClearPer
<1> QED
  BY <1>1, <1>2, <1>3, <1>4 DEF IInv

LEMMA ClearSabInv ==
  ASSUME IInv, NEW w \in Workers, ClearSab(w)
  PROVE  IInv'
<1>1. TypeOK'
  BY DEF IInv, TypeOK, ClearSab, Goto
<1>2. Stages'
  BY DEF IInv, TypeOK, Stages, Uploading, ClearSab, Goto
<1>3. ArcsStayLive'
  BY ArcsAlone DEF ClearSab
<1>4. TotalsExact' /\ EachWithinCap'
  <2>1. Cached' = Cached /\ PerSize' = PerSize
    BY DEF ClearSab, Cached, PerSize
  <2>2. BytesOf({}, SabBytes) = 0
    BY NoBytes
  <2> QED
    BY <2>1, <2>2, GpuCacheAssumption DEF IInv, TotalsExact, EachWithinCap, ClearSab
<1> QED
  BY <1>1, <1>2, <1>3, <1>4 DEF IInv

LEMMA NoClearInv ==
  ASSUME IInv, NEW w \in Workers, NoClear(w)
  PROVE  IInv'
<1>1. TypeOK'
  BY DEF IInv, TypeOK, NoClear, Goto
<1>2. Stages'
  BY DEF IInv, TypeOK, Stages, Uploading, NoClear, Goto
<1>3. ArcsStayLive' /\ TotalsExact' /\ EachWithinCap'
  BY ArcsAlone, CachesAlone DEF NoClear
<1> QED
  BY <1>1, <1>2, <1>3 DEF IInv

LEMMA ReadPerBudgetInv ==
  ASSUME IInv, NEW w \in Workers, ReadPerBudget(w)
  PROVE  IInv'
<1>1. Less(Cap, sab_total) \in 0..Cap
  BY BudgetRead DEF IInv, TypeOK
<1>2. TypeOK'
  BY <1>1 DEF IInv, TypeOK, ReadPerBudget, Goto
<1>3. Stages'
  BY DEF IInv, TypeOK, Stages, Uploading, ReadPerBudget, Goto
<1>4. ArcsStayLive' /\ TotalsExact' /\ EachWithinCap'
  BY ArcsAlone, CachesAlone DEF ReadPerBudget
<1> QED
  BY <1>2, <1>3, <1>4 DEF IInv

LEMMA LookupHitInv ==
  ASSUME IInv, NEW w \in Workers, NEW n \in Nuclides, LookupHit(w, n)
  PROVE  IInv'
<1>1. arcs[w][n] \in Addrs
  BY DEF IInv, Stages, Uploading, LookupHit
<1>2. per[arcs[w][n]] \in Nuclides
  BY <1>1 DEF IInv, TypeOK, LookupHit
<1>3. TypeOK'
  BY <1>2 DEF IInv, TypeOK, LookupHit
<1>4. Stages'
  BY DEF IInv, Stages, LookupHit
<1>5. ArcsStayLive' /\ TotalsExact' /\ EachWithinCap'
  BY ArcsAlone, CachesAlone DEF LookupHit
<1> QED
  BY <1>3, <1>4, <1>5 DEF IInv

LEMMA LookupMissInv ==
  ASSUME IInv, NEW w \in Workers, NEW n \in Nuclides, LookupMiss(w, n)
  PROVE  IInv'
<1>1. TypeOK'
  BY DEF IInv, TypeOK, LookupMiss, Goto
<1>2. Stages'
  BY DEF IInv, TypeOK, Stages, Uploading, LookupMiss, Goto
<1>3. ArcsStayLive' /\ TotalsExact' /\ EachWithinCap'
  BY ArcsAlone, CachesAlone DEF LookupMiss
<1> QED
  BY <1>1, <1>2, <1>3 DEF IInv

\* What the policy leaves of per_nuclide_cache, for a worker about to upload n.
LEMMA PerSurvivors ==
  ASSUME IInv, NEW w \in Workers, NEW new \in Nat,
         NEW R \in Survivors(Cached, PerSize, per_total, new, budget[w])
  PROVE  /\ R \subseteq Cached
         /\ Less(per_total, BytesOf(Cached \ R, PerSize)) = BytesOf(R, PerSize)
         /\ BytesOf(R, PerSize) \in Nat
         /\ BytesOf(R, PerSize) <= per_total
         /\ R = {} \/ BytesOf(R, PerSize) + new <= Cap
<1>1. budget[w] \in 0..Cap /\ budget[w] \in Nat
  BY GpuCacheAssumption DEF IInv, TypeOK
<1>2. per_total = BytesOf(Cached, PerSize)
  BY DEF IInv, TotalsExact
<1>3. \A a \in Cached : PerSize[a] \in Nat
  BY PerSizes DEF IInv
<1>4. /\ R \subseteq Cached
      /\ Less(per_total, BytesOf(Cached \ R, PerSize)) = BytesOf(R, PerSize)
      /\ BytesOf(R, PerSize) \in Nat
      /\ BytesOf(R, PerSize) <= per_total
      /\ R = {} \/ BytesOf(R, PerSize) + new <= budget[w]
  BY <1>1, <1>2, <1>3, CachedFinite, SurvivorsFit
<1> QED
  BY <1>1, <1>4, GpuCacheAssumption

LEMMA PreEvictInv ==
  ASSUME IInv, NEW w \in Workers, PreEvict(w)
  PROVE  IInv'
<1>1. cur[w] \in Nuclides /\ HostBytes[cur[w]] \in Nat
  BY GpuCacheAssumption DEF IInv, TypeOK, Stages, PreEvict
<1>2. PICK R \in Survivors(Cached, PerSize, per_total, HostBytes[cur[w]], budget[w]) : EvictPer(R)
  BY DEF PreEvict
<1>3. /\ R \subseteq Cached
      /\ Less(per_total, BytesOf(Cached \ R, PerSize)) = BytesOf(R, PerSize)
      /\ BytesOf(R, PerSize) \in Nat
      /\ BytesOf(R, PerSize) <= per_total
  BY <1>1, PerSurvivors
<1>4. Cached' = R /\ per_total' = BytesOf(Cached', PerSize') /\ per_total' = BytesOf(R, PerSize)
  BY <1>2, <1>3, EvictPerBytes DEF IInv, EvictPer
<1>5. TypeOK'
  <2>1. per' \in [Addrs -> Nuclides \cup {None}]
    BY <1>2 DEF IInv, TypeOK, EvictPer
  <2> QED
    BY <1>3, <1>4, <2>1 DEF IInv, TypeOK, PreEvict, Goto
<1>6. Stages'
  BY DEF IInv, TypeOK, Stages, Uploading, PreEvict, Goto
<1>7. ArcsStayLive'
  BY ArcsAlone DEF PreEvict
<1>8. TotalsExact'
  BY <1>4 DEF IInv, TotalsExact, PreEvict
<1>9. EachWithinCap'
  <2>1. per_total' <= Cap \/ Cardinality(Cached') = 1
    <3>1. CASE per_total <= Cap
      BY <1>3, <1>4, <3>1, GpuCacheAssumption DEF IInv, TypeOK
    <3>2. CASE Cardinality(Cached) = 1
      <4>1. PICK a : Cached = {a}
        BY <3>2, CachedFinite, FS_Singleton
      <4>2. R = {} \/ R = Cached
        BY <1>3, <4>1
      <4>3. CASE R = {}
        BY <1>4, <4>3, NoBytes, GpuCacheAssumption
      <4>4. CASE R = Cached
        BY <1>4, <3>2, <4>4
      <4> QED
        BY <4>2, <4>3, <4>4
    <3> QED
      BY <3>1, <3>2 DEF IInv, EachWithinCap
  <2> QED
    BY <2>1 DEF IInv, EachWithinCap, PreEvict
<1> QED
  BY <1>5, <1>6, <1>7, <1>8, <1>9 DEF IInv

\* The entry of another worker is used, or the new one goes in once there is room.
LEMMA InsertInv ==
  ASSUME IInv, NEW w \in Workers, Insert(w)
  PROVE  IInv'
<1> DEFINE n == cur[w]
           a == arcs[w][n]
<1>1. /\ n \in Nuclides /\ n \in want[w] /\ a \in Addrs
      /\ DeviceBytes[n] \in Nat
  BY GpuCacheAssumption DEF IInv, TypeOK, Stages, Uploading, Insert
<1>2. /\ per' \in [Addrs -> Nuclides \cup {None}]
      /\ per_total' \in Nat
      /\ per_total' = BytesOf(Cached', PerSize')
      /\ per_total' <= Cap \/ Cardinality(Cached') = 1
  <2>1. CASE per[a] # None
    <3>1. per' = per /\ per_total' = per_total
      BY <2>1 DEF Insert, perVars
    <3>2. Cached' = Cached /\ PerSize' = PerSize
      BY <3>1 DEF Cached, PerSize
    <3> QED
      BY <3>1, <3>2 DEF IInv, TypeOK, TotalsExact, EachWithinCap
  <2>2. CASE per[a] = None
    <3>1. PICK R \in Survivors(Cached, PerSize, per_total, DeviceBytes[n], budget[w]) :
            /\ per' = [b \in Addrs |-> IF b \in R THEN per[b] ELSE IF b = a THEN n ELSE None]
            /\ per_total' = Less(per_total, BytesOf(Cached \ R, PerSize)) + DeviceBytes[n]
      BY <2>2 DEF Insert
    <3>2. /\ R \subseteq Cached
          /\ Less(per_total, BytesOf(Cached \ R, PerSize)) = BytesOf(R, PerSize)
          /\ BytesOf(R, PerSize) \in Nat
          /\ R = {} \/ BytesOf(R, PerSize) + DeviceBytes[n] <= Cap
      BY <1>1, PerSurvivors
    <3>3. per_total' = BytesOf(R, PerSize) + DeviceBytes[n]
      BY <3>1, <3>2
    <3>4. Cached' = R \cup {a} /\ a \notin R /\ per_total' = BytesOf(Cached', PerSize')
      BY <1>1, <2>2, <3>1, <3>2, <3>3, InsertPerBytes DEF IInv
    <3>5. per' \in [Addrs -> Nuclides \cup {None}]
      BY <1>1, <3>1 DEF IInv, TypeOK
    <3>6. per_total' \in Nat
      BY <1>1, <3>2, <3>3
    <3>7. per_total' <= Cap \/ Cardinality(Cached') = 1
      <4>1. CASE R = {}
        <5>1. Cached' = {a}
          BY <3>4, <4>1
        <5> QED
          BY <5>1, FS_Singleton
      <4>2. CASE R # {}
        BY <3>2, <3>3, <4>2
      <4> QED
        BY <4>1, <4>2
    <3> QED
      BY <3>4, <3>5, <3>6, <3>7
  <2> QED
    BY <2>1, <2>2
<1>3. TypeOK'
  <2>1. bundle' = [bundle EXCEPT ![w][n] = IF per[a] # None THEN per[a] ELSE n]
    BY DEF Insert
  <2>2. (IF per[a] # None THEN per[a] ELSE n) \in Nuclides
    BY <1>1 DEF IInv, TypeOK
  <2>3. bundle' \in [Workers -> [Nuclides -> Nuclides \cup {None}]]
    BY <1>1, <2>1, <2>2 DEF IInv, TypeOK
  <2> QED
    BY <1>2, <2>3 DEF IInv, TypeOK, Insert, Goto
<1>4. Stages'
  BY DEF IInv, TypeOK, Stages, Uploading, Insert, Goto
<1>5. ArcsStayLive'
  BY ArcsAlone DEF Insert
<1>6. TotalsExact' /\ EachWithinCap'
  BY <1>2 DEF IInv, TotalsExact, EachWithinCap, Insert
<1> QED
  BY <1>3, <1>4, <1>5, <1>6 DEF IInv

-----------------------------------------------------------------------------
(***************************************************************************)
(* upload_sab_data_multi_cached.                                           *)
(***************************************************************************)
LEMMA SabHitInv ==
  ASSUME IInv, NEW w \in Workers, NEW s \in SabKeys, SabHit(w, s)
  PROVE  IInv'
<1>1. TypeOK'
  BY DEF IInv, TypeOK, SabHit, Assembled, Goto
<1>2. Stages'
  BY DEF IInv, TypeOK, Stages, Uploading, SabHit, Assembled, Goto
<1>3. ArcsStayLive' /\ TotalsExact' /\ EachWithinCap'
  BY ArcsAlone, CachesAlone DEF SabHit
<1> QED
  BY <1>1, <1>2, <1>3 DEF IInv

LEMMA SabMissInv ==
  ASSUME IInv, NEW w \in Workers, NEW s \in SabKeys, SabMiss(w, s)
  PROVE  IInv'
<1>1. TypeOK'
  BY DEF IInv, TypeOK, SabMiss, Assembled, Goto
<1>2. Stages'
  BY DEF IInv, TypeOK, Stages, Uploading, SabMiss, Assembled, Goto
<1>3. ArcsStayLive' /\ TotalsExact' /\ EachWithinCap'
  BY ArcsAlone, CachesAlone DEF SabMiss
<1> QED
  BY <1>1, <1>2, <1>3 DEF IInv

LEMMA ReadSabBudgetInv ==
  ASSUME IInv, NEW w \in Workers, ReadSabBudget(w)
  PROVE  IInv'
<1>1. Less(Cap, per_total) \in 0..Cap
  BY BudgetRead DEF IInv, TypeOK
<1>2. TypeOK'
  BY <1>1 DEF IInv, TypeOK, ReadSabBudget, Goto
<1>3. Stages'
  BY DEF IInv, TypeOK, Stages, Uploading, ReadSabBudget, Goto
<1>4. ArcsStayLive' /\ TotalsExact' /\ EachWithinCap'
  BY ArcsAlone, CachesAlone DEF ReadSabBudget
<1> QED
  BY <1>2, <1>3, <1>4 DEF IInv

LEMMA SabInsertInv ==
  ASSUME IInv, NEW w \in Workers, SabInsert(w)
  PROVE  IInv'
<1> DEFINE s == cur[w]
<1>1. s \in SabKeys /\ SabBytes[s] \in Nat
  BY GpuCacheAssumption DEF IInv, Stages, SabInsert
<1>2. /\ sab' \subseteq SabKeys
      /\ sab_total' \in Nat
      /\ sab_total' = BytesOf(sab', SabBytes)
      /\ sab_total' <= Cap \/ Cardinality(sab') = 1
  <2>1. CASE s \in sab
    <3>1. sab' = sab /\ sab_total' = sab_total
      BY <2>1 DEF SabInsert, sabVars
    <3> QED
      BY <3>1 DEF IInv, TypeOK, TotalsExact, EachWithinCap
  <2>2. CASE s \notin sab
    <3>1. PICK R \in Survivors(sab, SabBytes, sab_total, SabBytes[s], budget[w]) :
            /\ sab' = R \cup {s}
            /\ sab_total' = Less(sab_total, BytesOf(sab \ R, SabBytes)) + SabBytes[s]
      BY <2>2 DEF SabInsert
    <3>2. budget[w] \in Nat /\ budget[w] <= Cap
      BY GpuCacheAssumption DEF IInv, TypeOK
    <3>3. sab_total = BytesOf(sab, SabBytes)
      BY DEF IInv, TotalsExact
    <3>4. IsFiniteSet(sab) /\ \A t \in sab : SabBytes[t] \in Nat
      BY SabSizes DEF IInv
    <3>5. /\ R \subseteq sab
          /\ Less(sab_total, BytesOf(sab \ R, SabBytes)) = BytesOf(R, SabBytes)
          /\ BytesOf(R, SabBytes) \in Nat
          /\ R = {} \/ BytesOf(R, SabBytes) + SabBytes[s] <= budget[w]
      BY <1>1, <3>1, <3>2, <3>3, <3>4, SurvivorsFit
    <3>6. IsFiniteSet(R) /\ s \notin R
      BY <2>2, <3>4, <3>5, FS_Subset
    <3>7. BytesOf(R \cup {s}, SabBytes) = BytesOf(R, SabBytes) + SabBytes[s]
      BY <1>1, <3>4, <3>5, <3>6, BytesInsert
    <3>8. sab_total' \in Nat /\ sab_total' = BytesOf(sab', SabBytes)
      BY <1>1, <3>1, <3>5, <3>7
    <3>9. sab_total' <= Cap \/ Cardinality(sab') = 1
      <4>1. CASE R = {}
        <5>1. sab' = {s}
          BY <3>1, <4>1
        <5> QED
          BY <5>1, FS_Singleton
      <4>2. CASE R # {}
        BY <1>1, <3>1, <3>2, <3>5, <4>2, GpuCacheAssumption
      <4> QED
        BY <4>1, <4>2
    <3>10. sab' \subseteq SabKeys
      BY <1>1, <3>1, <3>5 DEF IInv, TypeOK
    <3> QED
      BY <3>8, <3>9, <3>10
  <2> QED
    BY <2>1, <2>2
<1>3. TypeOK'
  BY <1>2 DEF IInv, TypeOK, SabInsert, Goto
<1>4. Stages'
  BY DEF IInv, TypeOK, Stages, Uploading, SabInsert, Goto
<1>5. ArcsStayLive'
  BY ArcsAlone DEF SabInsert
<1>6. Cached' = Cached /\ PerSize' = PerSize
  BY DEF SabInsert, Cached, PerSize
<1>7. TotalsExact' /\ EachWithinCap'
  BY <1>2, <1>6 DEF IInv, TotalsExact, EachWithinCap, SabInsert
<1> QED
  BY <1>3, <1>4, <1>5, <1>7 DEF IInv

-----------------------------------------------------------------------------
LEMMA InvStutter == IInv /\ UNCHANGED vars => IInv'
<1> SUFFICES ASSUME IInv, UNCHANGED vars PROVE IInv'
  OBVIOUS
<1>1. ArcsStayLive' /\ TotalsExact' /\ EachWithinCap'
  BY ArcsAlone, CachesAlone DEF vars
<1>2. TypeOK' /\ Stages'
  BY DEF IInv, TypeOK, Stages, vars
<1> QED
  BY <1>1, <1>2 DEF IInv

LEMMA InvStep == IInv /\ [Next]_vars => IInv'
<1> SUFFICES ASSUME IInv, [Next]_vars PROVE IInv'
  OBVIOUS
<1>1. ASSUME NEW w \in Workers, Resolve(w) PROVE IInv'
  BY <1>1, StartCaseInv, ResolveHitInv, ResolveLoadInv, ResolveStoreInv DEF Resolve
<1>2. ASSUME NEW w \in Workers, UploadNuclides(w) PROVE IInv'
  <2>1. CASE TransferFails(w)
    BY <2>1, DropCaseInv DEF TransferFails
  <2>2. CASE ~ TransferFails(w)
    BY <1>2, <2>2, ClearPerInv, ClearSabInv, NoClearInv, ReadPerBudgetInv, LookupHitInv,
       LookupMissInv, PreEvictInv, InsertInv DEF UploadNuclides
  <2> QED
    BY <2>1, <2>2
<1>3. ASSUME NEW w \in Workers, UploadSab(w) PROVE IInv'
  BY <1>3, SabHitInv, SabMissInv, ReadSabBudgetInv, SabInsertInv DEF UploadSab
<1>4. ASSUME NEW w \in Workers, EndCase(w) PROVE IInv'
  BY <1>4, DropCaseInv DEF EndCase
<1>5. ASSUME NEW n \in Nuclides, L1Forget(n) PROVE IInv'
  BY <1>5, L1ForgetInv
<1>6. CASE UNCHANGED vars
  BY <1>6, InvStutter
<1> QED
  BY <1>1, <1>2, <1>3, <1>4, <1>5, <1>6 DEF Next

LEMMA InvAlways == Spec => []IInv
<1> QED
  BY InvInit, InvStep, PTL DEF Spec

\* The variables of the caches keep their types; in particular no budget a worker
\* works with exceeds the cap, however stale it is.
THEOREM TypeCorrect == Spec => []TypeOK
<1>1. IInv => TypeOK
  BY DEF IInv
<1> QED
  BY <1>1, InvAlways, PTL

\* Through racing uploads, evictions and hard clears the running totals are the bytes
\* of the entries.
THEOREM BytesExact == Spec => []TotalsExact
<1>1. IInv => TotalsExact
  BY DEF IInv
<1> QED
  BY <1>1, InvAlways, PTL

\* Each cache keeps the cap unless its only entry exceeds it.
THEOREM CapHolds == Spec => []EachWithinCap
<1>1. IInv => EachWithinCap
  BY DEF IInv
<1> QED
  BY <1>1, InvAlways, PTL
=============================================================================
