------------------------------ MODULE Eviction ------------------------------
(***************************************************************************)
(* The byte-budgeted LFU-with-recency policy of nuclide_cache/eviction.rs, *)
(* shared by the host-side L1 cache and by the two GPU buffer caches.      *)
(* The policy only sees the bookkeeping of the entries: how many bytes     *)
(* each holds, how often it was hit, when it was last touched and the      *)
(* warm-start weight a sweep harness gave it.                              *)
(***************************************************************************)
EXTENDS Integers

CONSTANT AgeWindow   \* 1 / decay: 100 for DEFAULT_AGE_DECAY = 0.01

ASSUME AgeWindowAssumption == AgeWindow \in Nat \ {0}

EvictionStats ==
  [bytes : Nat, hits : Nat, last_touch : Nat, preload_weight : Nat]

\* usize::saturating_sub
SatSub(a, b) == IF a >= b THEN a - b ELSE 0

Weight(s) == s.hits + s.preload_weight

Age(s, now) == SatSub(now, s.last_touch)

(***************************************************************************)
(* score(s) < score(t), where score = Weight / (1 + Age / AgeWindow):      *)
(* the two fractions are compared by cross multiplication, all the         *)
(* denominators being positive.                                            *)
(***************************************************************************)
ScoreBelow(s, t, now) ==
  Weight(s) * (AgeWindow + Age(t, now)) < Weight(t) * (AgeWindow + Age(s, now))

\* Mutant: the scan keeps the highest score.
HottestVictims(S, stats, now) ==
  {k \in S : \A j \in S : ~ ScoreBelow(stats[k], stats[j], now)}

(***************************************************************************)
(* The keys one round of evict_to_budget may pick among S.  The scan keeps *)
(* the first of the lowest-scored entries in HashMap iteration order,      *)
(* which is unspecified: any of them may go.                               *)
(***************************************************************************)
Victims(S, stats, now) ==
  {k \in S : \A j \in S : ~ ScoreBelow(stats[j], stats[k], now)}

\* Mutant: evicts when the cache would be exactly full.
MustEvictWhenFull(S, total, new, budget) == S # {} /\ total + new >= budget

\* Mutant: makes no room for the entry to come.
MustEvictIgnoringNew(S, total, new, budget) == S # {} /\ total > budget

\* The loop condition of evict_to_budget.
MustEvict(S, total, new, budget) == S # {} /\ total + new > budget
=============================================================================
