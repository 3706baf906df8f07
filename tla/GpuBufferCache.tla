--------------------------- MODULE GpuBufferCache ---------------------------
(***************************************************************************)
(* The two device-buffer caches of GpuTransportContext (gpu_transport.rs)  *)
(* and the host heap whose addresses they use as keys.                     *)
(*                                                                         *)
(* A case of a sweep resolves its nuclides through the tiered nuclide      *)
(* cache, which answers with a shared Arc; uploads each through            *)
(* per_nuclide_cache, keyed by the ADDRESS of that Arc; uploads its        *)
(* thermal-scattering slots through sab_buffer_cache; runs; and drops its  *)
(* Arcs.  An address whose last Arc is dropped goes back to the allocator. *)
(* The two caches are guarded by a mutex each and share one byte budget,   *)
(* each evicting against what the other left of it when it looked.         *)
(*                                                                         *)
(* Workers are the threads that run cases at the same time.  Each critical *)
(* section is one action; a transfer to the device is outside any lock.    *)
(* Which entries the policy evicts is left open here (module Eviction      *)
(* says which): any set that brings the cache to its budget and of which   *)
(* some member was needed for that.                                        *)
(***************************************************************************)
EXTENDS Integers, FiniteSets

CONSTANTS
  Workers,
  Nuclides,     \* contents: a parsed nuclide at one policy and temperature
  Addrs,        \* heap addresses an Arc<NuclideKernels> can have
  SabKeys,      \* thermal slot lists
  None,
  HostBytes,    \* NuclideKernels::approx_host_bytes
  DeviceBytes,  \* PerNuclideGpu::device_bytes
  SabBytes,     \* GpuSabData::device_bytes
  Cap           \* bundle_cache_budget_bytes, set by its environment variable

ASSUME GpuCacheAssumption ==
  /\ IsFiniteSet(Addrs) /\ IsFiniteSet(SabKeys)
  /\ None \notin Addrs \cup Nuclides \cup SabKeys
  /\ HostBytes \in [Nuclides -> Nat] /\ DeviceBytes \in [Nuclides -> Nat]
  /\ SabBytes \in [SabKeys -> Nat]
  /\ Cap \in Nat \ {0}

VARIABLES
  host,       \* host[a]: the nuclide allocated at a, None when a is free
  l1,         \* l1[n]: the Arc the tiered cache holds for n, or None
  pc,         \* where each worker is
  want,       \* the nuclides of its case
  arcs,       \* arcs[w][n]: the Arc its case holds for n, or None
  cur,        \* the nuclide (or slot list) it is loading or uploading
  budget,     \* the budget it read
  bundle,     \* bundle[w][n]: the content its bundle uses for n, or None
  per,        \* per_nuclide_cache.entries: the content uploaded under a, or None
  per_total,  \* per_nuclide_cache.total_bytes
  sab,        \* sab_buffer_cache.entries
  sab_total   \* sab_buffer_cache.total_bytes

vars == <<host, l1, pc, want, arcs, cur, budget, bundle, per, per_total, sab, sab_total>>

hostVars == <<host, l1, want, arcs>>
perVars == <<per, per_total>>
sabVars == <<sab, sab_total>>

Less(a, b) == IF a >= b THEN a - b ELSE 0

NoArcs == [n \in Nuclides |-> None]

Init ==
  /\ host = [a \in Addrs |-> None]
  /\ l1 = NoArcs
  /\ pc = [w \in Workers |-> "idle"]
  /\ want = [w \in Workers |-> {}]
  /\ arcs = [w \in Workers |-> NoArcs]
  /\ cur = [w \in Workers |-> None]
  /\ budget = [w \in Workers |-> 0]
  /\ bundle = [w \in Workers |-> NoArcs]
  /\ per = [a \in Addrs |-> None]
  /\ per_total = 0
  /\ sab = {}
  /\ sab_total = 0

Goto(w, l) == pc' = [pc EXCEPT ![w] = l]

-----------------------------------------------------------------------------
(***************************************************************************)
(* Host side: get_or_load, and the reference counts of its Arcs.           *)
(***************************************************************************)
Referenced(ar, store) ==
  {ar[w][n] : w \in Workers, n \in Nuclides} \cup {store[n] : n \in Nuclides}

\* The heap once the references are those of ar and store.
HeapAfter(ar, store) ==
  [a \in Addrs |-> IF a \in Referenced(ar, store) THEN host[a] ELSE None]

StartCase(w, S) ==
  /\ pc[w] = "idle"
  /\ want' = [want EXCEPT ![w] = S]
  /\ Goto(w, "resolve")
  /\ UNCHANGED <<host, l1, arcs, cur, budget, bundle, per, per_total, sab, sab_total>>

ResolveHit(w, n) ==
  /\ pc[w] = "resolve" /\ n \in want[w] /\ arcs[w][n] = None
  /\ l1[n] # None
  /\ arcs' = [arcs EXCEPT ![w][n] = l1[n]]
  /\ UNCHANGED <<host, l1, pc, want, cur, budget, bundle, per, per_total, sab, sab_total>>

\* A miss: the allocator places the parsed kernels at any free address.
ResolveLoad(w, n, a) ==
  /\ pc[w] = "resolve" /\ n \in want[w] /\ arcs[w][n] = None
  /\ l1[n] = None
  /\ host[a] = None
  /\ host' = [host EXCEPT ![a] = n]
  /\ arcs' = [arcs EXCEPT ![w][n] = a]
  /\ cur' = [cur EXCEPT ![w] = n]
  /\ Goto(w, "store")
  /\ UNCHANGED <<l1, want, budget, bundle, per, per_total, sab, sab_total>>

\* cache().put: a concurrent insert is replaced in place, its Arc dropped.
ResolveStore(w) ==
  /\ pc[w] = "store"
  /\ l1' = [l1 EXCEPT ![cur[w]] = arcs[w][cur[w]]]
  /\ host' = HeapAfter(arcs, l1')
  /\ cur' = [cur EXCEPT ![w] = None]
  /\ Goto(w, "resolve")
  /\ UNCHANGED <<want, arcs, budget, bundle, per, per_total, sab, sab_total>>

\* L1 evicts n to make room for something else.
L1Forget(n) ==
  /\ l1[n] # None
  /\ l1' = [l1 EXCEPT ![n] = None]
  /\ host' = HeapAfter(arcs, l1')
  /\ UNCHANGED <<pc, want, arcs, cur, budget, bundle, per, per_total, sab, sab_total>>

\* The case ends, or an upload fails: its Arcs and its bundle are dropped.
DropCase(w) ==
  /\ arcs' = [arcs EXCEPT ![w] = NoArcs]
  /\ host' = HeapAfter(arcs', l1)
  /\ want' = [want EXCEPT ![w] = {}]
  /\ bundle' = [bundle EXCEPT ![w] = NoArcs]
  /\ cur' = [cur EXCEPT ![w] = None]
  /\ budget' = [budget EXCEPT ![w] = 0]
  /\ Goto(w, "idle")
  /\ UNCHANGED <<l1, per, per_total, sab, sab_total>>

EndCase(w) == pc[w] = "run" /\ DropCase(w)

-----------------------------------------------------------------------------
(***************************************************************************)
(* upload_nuclide_data.                                                    *)
(***************************************************************************)
\* The bytes of the entries S, counted one by one.
Cells(S, size) == UNION {{k} \X (1..size[k]) : k \in S}
BytesOf(S, size) == Cardinality(Cells(S, size))

\* The sets of entries evict_to_budget may leave of S.
Survivors(S, size, total, new, limit) ==
  {R \in SUBSET S :
     LET gone == S \ R
         left == total - BytesOf(gone, size)
     IN  /\ R = {} \/ left + new <= limit
         /\ gone = {} \/ \E k \in gone : left + size[k] + new > limit}

Cached == {a \in Addrs : per[a] # None}

PerSize == [a \in Cached |-> DeviceBytes[per[a]]]

\* Mutant: evicted entries stay in the total.
EvictPerKeepsBytes(R) ==
  /\ per' = [a \in Addrs |-> IF a \in R THEN per[a] ELSE None]
  /\ UNCHANGED per_total

\* The entries of per_nuclide_cache and their total once only R is left.
EvictPer(R) ==
  /\ per' = [a \in Addrs |-> IF a \in R THEN per[a] ELSE None]
  /\ per_total' = Less(per_total, BytesOf(Cached \ R, PerSize))

\* defensive_clear_if_low_vram found less than a tenth of the device free.
ClearPer(w) ==
  /\ pc[w] = "resolve" /\ \A n \in want[w] : arcs[w][n] # None
  /\ per' = [a \in Addrs |-> None]
  /\ per_total' = 0
  /\ Goto(w, "clearsab")
  /\ UNCHANGED <<host, l1, want, arcs, cur, budget, bundle, sab, sab_total>>

ClearSab(w) ==
  /\ pc[w] = "clearsab"
  /\ sab' = {}
  /\ sab_total' = 0
  /\ Goto(w, "budget")
  /\ UNCHANGED <<host, l1, want, arcs, cur, budget, bundle, per, per_total>>

NoClear(w) ==
  /\ pc[w] = "resolve" /\ \A n \in want[w] : arcs[w][n] # None
  /\ Goto(w, "budget")
  /\ UNCHANGED <<host, l1, want, arcs, cur, budget, bundle, per, per_total, sab, sab_total>>

\* per_nuclide_cache_budget_bytes, read once for the whole upload.
ReadPerBudget(w) ==
  /\ pc[w] = "budget"
  /\ budget' = [budget EXCEPT ![w] = Less(Cap, sab_total)]
  /\ Goto(w, "lookup")
  /\ UNCHANGED <<host, l1, want, arcs, cur, bundle, per, per_total, sab, sab_total>>

LookupHit(w, n) ==
  /\ pc[w] = "lookup" /\ n \in want[w] /\ bundle[w][n] = None
  /\ per[arcs[w][n]] # None
  /\ bundle' = [bundle EXCEPT ![w][n] = per[arcs[w][n]]]
  /\ UNCHANGED <<host, l1, pc, want, arcs, cur, budget, per, per_total, sab, sab_total>>

LookupMiss(w, n) ==
  /\ pc[w] = "lookup" /\ n \in want[w] /\ bundle[w][n] = None
  /\ per[arcs[w][n]] = None
  /\ cur' = [cur EXCEPT ![w] = n]
  /\ Goto(w, "preevict")
  /\ UNCHANGED <<host, l1, want, arcs, budget, bundle, per, per_total, sab, sab_total>>

\* Room for the size the host side predicts.
PreEvict(w) ==
  /\ pc[w] = "preevict"
  /\ \E R \in Survivors(Cached, PerSize, per_total, HostBytes[cur[w]], budget[w]) : EvictPer(R)
  /\ Goto(w, "transfer")
  /\ UNCHANGED <<host, l1, want, arcs, cur, budget, bundle, sab, sab_total>>

\* The device is out of memory: `?` leaves upload_nuclide_data with the error.
TransferFails(w) ==
  /\ pc[w] \in {"transfer", "sabtransfer"}
  /\ DropCase(w)

\* Mutant: no trim with the real size after the transfer.
InsertUntrimmed(w) ==
  LET n == cur[w]
      a == arcs[w][n]
  IN
  /\ pc[w] = "transfer"
  /\ per' = [per EXCEPT ![a] = IF @ # None THEN @ ELSE n]
  /\ per_total' = per_total + IF per[a] # None THEN 0 ELSE DeviceBytes[n]
  /\ bundle' = [bundle EXCEPT ![w][n] = per'[a]]
  /\ cur' = [cur EXCEPT ![w] = None]
  /\ Goto(w, "lookup")
  /\ UNCHANGED <<host, l1, want, arcs, budget, sab, sab_total>>

\* The transfer is over.  Another worker may have inserted the same Arc meanwhile:
\* its entry is used.
Insert(w) ==
  LET n == cur[w]
      a == arcs[w][n]
      content == IF per[a] # None THEN per[a] ELSE n
  IN
  /\ pc[w] = "transfer"
  /\ \/ /\ per[a] # None
        /\ UNCHANGED perVars
     \/ /\ per[a] = None
        /\ \E R \in Survivors(Cached, PerSize, per_total, DeviceBytes[n], budget[w]) :
             /\ per' = [b \in Addrs |-> IF b \in R THEN per[b] ELSE IF b = a THEN n ELSE None]
             /\ per_total' = Less(per_total, BytesOf(Cached \ R, PerSize)) + DeviceBytes[n]
  /\ bundle' = [bundle EXCEPT ![w][n] = content]
  /\ cur' = [cur EXCEPT ![w] = None]
  /\ Goto(w, "lookup")
  /\ UNCHANGED <<host, l1, want, arcs, budget, sab, sab_total>>

-----------------------------------------------------------------------------
(***************************************************************************)
(* upload_sab_data_multi_cached: here the budget is read after the         *)
(* transfer, just before the lock is taken.                                *)
(***************************************************************************)
\* Every nuclide of the case is in its bundle.
Assembled(w) == pc[w] = "lookup" /\ \A n \in want[w] : bundle[w][n] # None

SabHit(w, s) ==
  /\ Assembled(w) /\ s \in sab
  /\ Goto(w, "run")
  /\ UNCHANGED <<host, l1, want, arcs, cur, budget, bundle, per, per_total, sab, sab_total>>

SabMiss(w, s) ==
  /\ Assembled(w) /\ s \notin sab
  /\ cur' = [cur EXCEPT ![w] = s]
  /\ Goto(w, "sabtransfer")
  /\ UNCHANGED <<host, l1, want, arcs, budget, bundle, per, per_total, sab, sab_total>>

ReadSabBudget(w) ==
  /\ pc[w] = "sabtransfer"
  /\ budget' = [budget EXCEPT ![w] = Less(Cap, per_total)]
  /\ Goto(w, "sabinsert")
  /\ UNCHANGED <<host, l1, want, arcs, cur, bundle, per, per_total, sab, sab_total>>

SabInsert(w) ==
  LET s == cur[w] IN
  /\ pc[w] = "sabinsert"
  /\ \/ s \in sab /\ UNCHANGED sabVars
     \/ /\ s \notin sab
        /\ \E R \in Survivors(sab, SabBytes, sab_total, SabBytes[s], budget[w]) :
             /\ sab' = R \cup {s}
             /\ sab_total' = Less(sab_total, BytesOf(sab \ R, SabBytes)) + SabBytes[s]
  /\ cur' = [cur EXCEPT ![w] = None]
  /\ Goto(w, "run")
  /\ UNCHANGED <<host, l1, want, arcs, budget, bundle, per, per_total>>

-----------------------------------------------------------------------------
Resolve(w) ==
  \/ \E S \in SUBSET Nuclides \ {{}} : StartCase(w, S)
  \/ \E n \in Nuclides : ResolveHit(w, n)
  \/ \E n \in Nuclides, a \in Addrs : ResolveLoad(w, n, a)
  \/ ResolveStore(w)

UploadNuclides(w) ==
  \/ ClearPer(w) \/ ClearSab(w) \/ NoClear(w) \/ ReadPerBudget(w)
  \/ \E n \in Nuclides : LookupHit(w, n) \/ LookupMiss(w, n)
  \/ PreEvict(w) \/ TransferFails(w) \/ Insert(w)

UploadSab(w) ==
  \/ \E s \in SabKeys : SabHit(w, s) \/ SabMiss(w, s)
  \/ ReadSabBudget(w) \/ SabInsert(w)

Next ==
  \/ \E w \in Workers : Resolve(w) \/ UploadNuclides(w) \/ UploadSab(w) \/ EndCase(w)
  \/ \E n \in Nuclides : L1Forget(n)

Spec == Init /\ [][Next]_vars

-----------------------------------------------------------------------------
TypeOK ==
  /\ host \in [Addrs -> Nuclides \cup {None}]
  /\ l1 \in [Nuclides -> Addrs \cup {None}]
  /\ arcs \in [Workers -> [Nuclides -> Addrs \cup {None}]]
  /\ bundle \in [Workers -> [Nuclides -> Nuclides \cup {None}]]
  /\ cur \in [Workers -> Nuclides \cup SabKeys \cup {None}]
  /\ want \in [Workers -> SUBSET Nuclides]
  /\ pc \in [Workers -> {"idle", "resolve", "store", "clearsab", "budget", "lookup", "preevict",
                        "transfer", "sabtransfer", "sabinsert", "run"}]
  /\ per \in [Addrs -> Nuclides \cup {None}]
  /\ per_total \in Nat /\ sab_total \in Nat /\ sab \subseteq SabKeys
  /\ budget \in [Workers -> 0..Cap]

\* The running totals of both caches are the bytes their entries hold, through
\* racing uploads, evictions and hard clears.
TotalsExact ==
  /\ per_total = BytesOf(Cached, PerSize)
  /\ sab_total = BytesOf(sab, SabBytes)

\* Each cache alone respects the shared cap however stale the budget it read,
\* unless a single entry exceeds it.
EachWithinCap ==
  /\ per_total <= Cap \/ Cardinality(Cached) = 1
  /\ sab_total <= Cap \/ Cardinality(sab) = 1

\* gpu_transport.rs:69-70: "Arc address therefore implies byte-identical content".
\* The device data a case computes with is that of the nuclide it resolved.
AddressNamesContent ==
  \A w \in Workers, n \in Nuclides : bundle[w][n] # None => bundle[w][n] = n
=============================================================================
