----------------------------- MODULE LossyStore -----------------------------
(***************************************************************************)
(* What the NuclideStore trait promises of a tier: `put` may be lossy and  *)
(* an entry may vanish at any time, but a hit returns the value of the     *)
(* last put under that very key, and nothing but a put brings an entry     *)
(* back.                                                                   *)
(***************************************************************************)
CONSTANTS Keys, Vals, NoVal   \* NoVal is no member of Vals

VARIABLES
  store,   \* store[k] is the value held under k, NoVal when none is
  got      \* what the last try_get returned: [key, val]

storeVars == <<store, got>>

Reply == [key : Keys, val : Vals \cup {NoVal}]

StoreInit ==
  /\ store = [k \in Keys |-> NoVal]
  /\ got \in Reply
  /\ got.val = NoVal

\* s2 holds nothing s1 does not: some entries may have been dropped.
Shrinks(s1, s2) == \A k \in Keys : s2[k] \in {s1[k], NoVal}

Put(k, v) ==
  /\ store' \in [Keys -> Vals \cup {NoVal}]
  /\ Shrinks([store EXCEPT ![k] = v], store')
  /\ UNCHANGED got

Get(k) ==
  /\ got' = [key |-> k, val |-> store[k]]
  /\ UNCHANGED store

Forget ==
  /\ store' \in [Keys -> Vals \cup {NoVal}]
  /\ Shrinks(store, store')
  /\ UNCHANGED got

StoreNext ==
  \/ \E k \in Keys, v \in Vals : Put(k, v)
  \/ \E k \in Keys : Get(k)
  \/ Forget

StoreSpec == StoreInit /\ [][StoreNext]_storeVars
=============================================================================
