------------------------------ MODULE L1Memory ------------------------------
(***************************************************************************)
(* The in-process tier of the nuclide cache (nuclide_cache/l1_memory.rs):  *)
(* a map from keys to loaded kernels behind one mutex, kept within a byte  *)
(* budget by the policy of module Eviction, with warm-start weights that   *)
(* may be given before their key is inserted.                              *)
(*                                                                         *)
(* Any number of rayon workers call it.  Every operation holds the mutex   *)
(* from its first access to its last, so an operation other than `put` is  *)
(* one step.  A `put` is one step per iteration of the eviction loop: its  *)
(* `putting` record stands for the mutex, and no other operation starts    *)
(* while it is set.                                                        *)
(***************************************************************************)
EXTENDS Eviction, FiniteSets

CONSTANTS
  Keys,          \* NuclideKey
  Vals,          \* loaded kernels (Arc<NuclideKernels>)
  Absent,        \* "no entry", "no put in progress", "no value"
  Size,          \* approx_host_bytes of each value
  MaxSize,       \* no value is larger (any number above Budget will do)
  BudgetBytes,   \* the budget_bytes argument of with_budget
  PreloadMaps,   \* the maps a harness may pass to set_preload_weights
  MaxCounter     \* bound of the access counter, for model checking

ASSUME L1Assumption ==
  /\ IsFiniteSet(Keys)
  /\ MaxSize \in Nat
  /\ Size \in [Vals -> 0..MaxSize]
  /\ BudgetBytes \in Nat
  /\ MaxCounter \in Nat
  /\ \A w \in PreloadMaps : DOMAIN w \subseteq Keys /\ \A k \in DOMAIN w : w[k] \in Nat

Entry == [val : Vals, bytes : 0..MaxSize,
          hits : Nat, last_touch : Nat, preload_weight : Nat]

PutRequest == [key : Keys, val : Vals]

ASSUME AbsentAssumption == Absent \notin Vals \cup Entry \cup PutRequest

VARIABLES
  entries,          \* Inner.entries: an Entry, or Absent
  counter,          \* Inner.counter
  total_bytes,      \* Inner.total_bytes
  pending_preload,  \* the process-wide PENDING_PRELOAD stash (0: not stashed)
  putting,          \* the put that holds the mutex inside its loop, or Absent
  got,              \* what the last try_get returned
  evicted           \* history: the entries this put has evicted so far

l1_vars == <<entries, counter, total_bytes, pending_preload, putting, got,
          evicted>>

Budget == IF BudgetBytes < 1 THEN 1 ELSE BudgetBytes

Resident == {k \in Keys : entries[k] # Absent}

MutexFree == putting = Absent

L1Init ==
  /\ entries = [k \in Keys |-> Absent]
  /\ counter = 0
  /\ total_bytes = 0
  /\ pending_preload = [k \in Keys |-> 0]
  /\ putting = Absent
  /\ got \in [key : Keys, val : {Absent}]
  /\ evicted = {}

\* Mutant: a miss leaves the last hit's value in the reply.
TryGetStaleReply(k) ==
  /\ MutexFree
  /\ counter < MaxCounter
  /\ counter' = counter + 1
  /\ IF k \in Resident
       THEN /\ entries' = [entries EXCEPT ![k].hits = @ + 1,
                                          ![k].last_touch = counter + 1]
            /\ got' = [key |-> k, val |-> entries[k].val]
       ELSE /\ got' = [key |-> k, val |-> got.val]
            /\ UNCHANGED entries
  /\ UNCHANGED <<total_bytes, pending_preload, putting, evicted>>

\* try_get: the counter advances on a miss too.
TryGet(k) ==
  /\ MutexFree
  /\ counter < MaxCounter
  /\ counter' = counter + 1
  /\ IF k \in Resident
       THEN /\ entries' = [entries EXCEPT ![k].hits = @ + 1,
                                          ![k].last_touch = counter + 1]
            /\ got' = [key |-> k, val |-> entries[k].val]
       ELSE /\ got' = [key |-> k, val |-> Absent]
            /\ UNCHANGED entries
  /\ UNCHANGED <<total_bytes, pending_preload, putting, evicted>>

\* Mutant: the bytes of the removed entry stay in the total.
RemoveKeepsBytes(k) ==
  /\ entries' = [entries EXCEPT ![k] = Absent]
  /\ UNCHANGED total_bytes

\* Mutant: the bytes go and the entry stays.
RemoveKeepsEntry(k) ==
  /\ total_bytes' = SatSub(total_bytes, entries[k].bytes)
  /\ UNCHANGED entries

\* InnerAdapter::remove, and the removal at the head of put.
Remove(k) ==
  /\ entries' = [entries EXCEPT ![k] = Absent]
  /\ total_bytes' = SatSub(total_bytes, entries[k].bytes)

\* put, up to its eviction loop: an entry under the same key goes first.
PutBegin(k, v) ==
  /\ MutexFree
  /\ counter < MaxCounter
  /\ putting' = [key |-> k, val |-> v]
  /\ \/ k \in Resident /\ Remove(k)
     \/ k \notin Resident /\ UNCHANGED <<entries, total_bytes>>
  /\ UNCHANGED <<counter, pending_preload, got, evicted>>

PutMustEvict == MustEvict(Resident, total_bytes, Size[putting.val], Budget)

\* One round of evict_to_budget: `now` is the counter, which the loop leaves alone.
PutEvict(k) ==
  /\ ~ MutexFree
  /\ PutMustEvict
  /\ k \in Victims(Resident, entries, counter)
  /\ Remove(k)
  /\ evicted' = evicted \cup {entries[k]}
  /\ UNCHANGED <<counter, pending_preload, putting, got>>

NewEntry(k, v) ==
  [val |-> v, bytes |-> Size[v], hits |-> 0, last_touch |-> counter,
   preload_weight |-> pending_preload[k]]

\* The rest of put: the entry takes the counter before it advances.
PutInsert ==
  /\ ~ MutexFree
  /\ ~ PutMustEvict
  /\ entries' = [entries EXCEPT ![putting.key] = NewEntry(putting.key, putting.val)]
  /\ total_bytes' = total_bytes + Size[putting.val]
  /\ counter' = counter + 1
  /\ putting' = Absent
  /\ evicted' = {}
  /\ UNCHANGED <<pending_preload, got>>

\* set_preload_weights: live entries and the stash, for the named keys only.
SetPreloadWeights(w) ==
  /\ MutexFree
  /\ entries' = [k \in Keys |-> IF k \in DOMAIN w \cap Resident
                                  THEN [entries[k] EXCEPT !.preload_weight = w[k]]
                                  ELSE entries[k]]
  /\ pending_preload' = [k \in Keys |-> IF k \in DOMAIN w THEN w[k] ELSE pending_preload[k]]
  /\ UNCHANGED <<counter, total_bytes, putting, got, evicted>>

PutStep == PutInsert \/ \E k \in Keys : PutEvict(k)

L1Next ==
  \/ \E k \in Keys : TryGet(k)
  \/ \E k \in Keys, v \in Vals : PutBegin(k, v)
  \/ PutStep
  \/ \E w \in PreloadMaps : SetPreloadWeights(w)

L1Spec == L1Init /\ [][L1Next]_l1_vars

(***************************************************************************)
(* A thread inside `put` holds the mutex and never waits for anything but  *)
(* PENDING_PRELOAD, which nobody holds while it wants the mutex: it goes   *)
(* on.  Nothing is assumed of the callers.                                 *)
(***************************************************************************)
FairL1Spec == L1Spec /\ WF_l1_vars(PutStep)

-----------------------------------------------------------------------------
L1TypeOK ==
  /\ entries \in [Keys -> Entry \cup {Absent}]
  /\ counter \in Nat
  /\ total_bytes \in Nat
  /\ pending_preload \in [Keys -> Nat]
  /\ putting \in PutRequest \cup {Absent}
  /\ got \in [key : Keys, val : Vals \cup {Absent}]
  /\ evicted \subseteq Entry

(***************************************************************************)
(* The bytes the resident entries really hold, counted byte by byte.       *)
(***************************************************************************)
HeldCells ==
  {c \in Keys \X (1..MaxSize) :
     entries[c[1]] # Absent /\ c[2] <= entries[c[1]].bytes}

HeldBytes == Cardinality(HeldCells)

\* The running total never drifts from the bytes really held, across replaced
\* entries, evictions and the saturating subtraction (l1_memory.rs put, remove).
TotalBytesExact == total_bytes = HeldBytes

\* Outside a put the cache is within its budget, or holds a single entry that
\* alone exceeds it: eviction makes room for everything but an oversized value.
WithinBudget ==
  MutexFree => total_bytes <= Budget \/ Cardinality(Resident) = 1

\* Whatever a put evicts, over all the rounds of its loop, scores no higher than
\* what it leaves: a rarely used nuclide never displaces a hot or preloaded one.
EvictsColdest ==
  \A e \in evicted : \A k \in Resident : ~ ScoreBelow(entries[k], e, counter)

\* A put evicts no more than it must: with the best of its victims back, the new
\* value would not fit.
EvictsNoMoreThanNeeded ==
  evicted # {} =>
    \E e \in evicted :
      /\ \A f \in evicted : ~ ScoreBelow(e, f, counter)
      /\ total_bytes + e.bytes + Size[putting.val] > Budget

\* A put ends: its loop empties the cache at worst (eviction.rs:103).
PutEnds == ~ MutexFree ~> MutexFree

(***************************************************************************)
(* The store a caller sees.  The entry under the key being put is already  *)
(* gone while the loop runs.                                               *)
(***************************************************************************)
Visible == [k \in Keys |-> IF entries[k] = Absent THEN Absent ELSE entries[k].val]

Abstract == INSTANCE LossyStore WITH store <- Visible, NoVal <- Absent

\* L1MemoryStore keeps the promise of the NuclideStore trait: a hit returns the
\* value last put under its key.
ImplementsLossyStore == Abstract!StoreSpec
=============================================================================
