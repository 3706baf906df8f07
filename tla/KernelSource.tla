---------------------------- MODULE KernelSource ----------------------------
(***************************************************************************)
(* What a caller of get_or_load may rely on, whatever tiers stand behind   *)
(* it: the kernels are those of a content its file had while the call was  *)
(* under way, as if the loader had been called directly.  Key.rs promises  *)
(* it across replaced files: "replacing U235.h5 with the VIII.0 version    *)
(* produces a different blake3, different key, rebuild".                   *)
(***************************************************************************)
CONSTANTS Workers, Paths, Contents, Kernels, None

VARIABLES
  file,    \* the content of each file
  seen,    \* seen[w]: the contents its file has had during the call of w
  got,     \* got[w]: the kernels the last call of w returned, or None
  trusted  \* whether files can be read and stay as they are during a call

sourceVars == <<file, seen, got, trusted>>

SourceInit ==
  /\ file \in [Paths -> Contents]
  /\ seen = [w \in Workers |-> {}]
  /\ got = [w \in Workers |-> None]
  /\ trusted \in BOOLEAN

Idle(w) == seen[w] = {}

Call(w) ==
  /\ Idle(w)
  /\ \E p \in Paths : seen' = [seen EXCEPT ![w] = {file[p]}]
  /\ got' = [got EXCEPT ![w] = None]
  /\ UNCHANGED <<file, trusted>>

Answer(w) ==
  /\ ~ Idle(w)
  /\ \E v \in IF trusted THEN seen[w] ELSE Kernels : got' = [got EXCEPT ![w] = v]
  /\ seen' = [seen EXCEPT ![w] = {}]
  /\ UNCHANGED <<file, trusted>>

\* A call that is over at once.
CallAndAnswer(w) ==
  /\ Idle(w)
  /\ \E v \in IF trusted THEN {file[p] : p \in Paths} ELSE Kernels : got' = [got EXCEPT ![w] = v]
  /\ UNCHANGED <<file, seen, trusted>>

\* Some calls under way are on the replaced file.
Change(p, c) ==
  /\ file' = [file EXCEPT ![p] = c]
  /\ \E S \in SUBSET {w \in Workers : ~ Idle(w)} :
       seen' = [w \in Workers |-> IF w \in S THEN seen[w] \cup {c} ELSE seen[w]]
  /\ UNCHANGED <<got, trusted>>

SourceNext ==
  \/ \E w \in Workers : Call(w) \/ Answer(w) \/ CallAndAnswer(w)
  \/ \E p \in Paths, c \in Contents : Change(p, c)

SourceSpec == SourceInit /\ [][SourceNext]_sourceVars
=============================================================================
