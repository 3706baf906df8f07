-------------------------- MODULE TieredStoreProofs --------------------------
(***************************************************************************)
(* Theorems about the tiered cache, for every set of processes, workers,   *)
(* paths and contents, every number of daemons and every mode.             *)
(***************************************************************************)
EXTENDS TieredStore, FiniteSetTheorems, TLAPS

-----------------------------------------------------------------------------
\* Types.

LEMMA StatsTyped == NoStats \in [DOMAIN NoStats -> Nat]
  BY DEF NoStats

LEMMA TypeInit == Init => TypeOK
<1> SUFFICES ASSUME Init PROVE TypeOK
  OBVIOUS
<1>1. file[DaemonPath] \in Contents
  BY TieredAssumption DEF Init
<1>2. (CHOOSE k \in Keys : TRUE) \in Keys
  <2>1. [path |-> DaemonPath, hash |-> file[DaemonPath]] \in Keys
    BY <1>1, TieredAssumption DEF Keys
  <2> QED
    BY <2>1, Zenon
<1>3. key \in [Workers -> Keys]
  BY <1>2 DEF Init
<1>4. stats \in [Procs -> [DOMAIN NoStats -> Nat]]
  BY StatsTyped DEF Init
<1>5. None \in Slots /\ 1 \in 1..(NPeers + 1) /\ "idle" \in Labels
  BY TieredAssumption DEF Slots, Labels
<1>6. /\ pc \in [Workers -> Labels] /\ at \in [Workers -> 1..(NPeers + 1)]
      /\ val \in [Workers -> Slots] /\ got \in [Workers -> Slots]
  BY <1>5 DEF Init
<1>7. /\ l1 \in [Procs -> [Keys -> Slots]] /\ l2 \in [Contents -> Slots]
      /\ peer \in [Peers -> [Keys -> Slots]] /\ disk \in [Peers -> [Contents -> Slots]]
  BY <1>5 DEF Init
<1>8. /\ mode \in Modes /\ file \in [Paths -> Contents] /\ msgs \subseteq Messages
      /\ calls \in Nat /\ changes \in Nat
      /\ seen \in [Workers -> SUBSET Contents] /\ torn \in SUBSET Contents
  BY DEF Init
<1>9. serving \in [Peers -> BOOLEAN] /\ hashed \in [Peers -> Contents \cup {None}]
  BY <1>8, TieredAssumption DEF Init
<1> QED
  BY <1>3, <1>4, <1>6, <1>7, <1>8, <1>9 DEF TypeOK

LEMMA CountTyped ==
  ASSUME TypeOK, NEW w \in Workers, NEW c \in DOMAIN NoStats, Count(w, c)
  PROVE  stats' \in [Procs -> [DOMAIN NoStats -> Nat]]
  BY TieredAssumption DEF TypeOK, Count

LEMMA ReturnTyped ==
  ASSUME TypeOK, NEW w \in Workers, NEW v \in Slots, Return(w, v)
  PROVE  /\ pc' \in [Workers -> Labels] /\ key' \in [Workers -> Keys]
         /\ at' \in [Workers -> 1..(NPeers + 1)]
         /\ val' \in [Workers -> Slots] /\ got' \in [Workers -> Slots]
         /\ seen' \in [Workers -> SUBSET Contents]
<1>1. None \in Slots /\ "idle" \in Labels /\ 1 \in 1..(NPeers + 1) /\ {} \in SUBSET Contents
  BY TieredAssumption DEF Slots, Labels
<1> QED
  BY <1>1 DEF TypeOK, Return, Goto

LEMMA LoadedTyped ==
  ASSUME TypeOK, NEW p \in Paths PROVE Loaded(p) \subseteq Kernels
  BY DEF TypeOK, Loaded, Kernels

LEMMA TypeStep == TypeOK /\ [Next]_vars => TypeOK'
<1> SUFFICES ASSUME TypeOK, [Next]_vars PROVE TypeOK'
  OBVIOUS
<1> USE TieredAssumption
<1>1. ASSUME NEW w \in Workers, NEW p \in Paths, Begin(w, p) PROVE TypeOK'
  BY <1>1 DEF TypeOK, Begin, KeyOf, Keys, Goto, Labels, Slots, tierVars, daemonVars, startVars
<1>2. ASSUME NEW w \in Workers, NEW p \in Paths, Bypass(w, p) PROVE TypeOK'
  <2>1. got' \in [Workers -> Slots] /\ calls' \in Nat
    BY <1>2, LoadedTyped DEF TypeOK, Bypass, Slots
  <2> QED
    BY <1>2, <2>1 DEF TypeOK, Bypass, tierVars, daemonVars, startVars
<1>3. ASSUME NEW w \in Workers, L1Hit(w) PROVE TypeOK'
  <2>1. InL1(w) \in Slots
    BY DEF TypeOK, InL1
  <2> QED
    BY <1>3, <2>1, ReturnTyped, CountTyped
    DEF TypeOK, L1Hit, tierVars, daemonVars, startVars, boundVars, NoStats
<1>4. ASSUME NEW w \in Workers, L1Miss(w) PROVE TypeOK'
  BY <1>4, CountTyped DEF TypeOK, L1Miss, Goto, Labels, tierVars, daemonVars, startVars, boundVars, NoStats
<1>5. ASSUME NEW w \in Workers, L2Hit(w) PROVE TypeOK'
  <2>1. key[w].hash \in Contents
    BY DEF TypeOK, Keys
  <2> QED
    BY <1>5, <2>1, CountTyped DEF TypeOK, L2Hit, Goto, Labels, tierVars, daemonVars, startVars, boundVars, NoStats
<1>6. ASSUME NEW w \in Workers, L2Miss(w) PROVE TypeOK'
  BY <1>6, CountTyped DEF TypeOK, L2Miss, Goto, Labels, tierVars, daemonVars, startVars, boundVars, NoStats
<1>7. ASSUME NEW w \in Workers, L3Hit(w) PROVE TypeOK'
  <2>1. at[w] \in Peers
    BY <1>7 DEF TypeOK, L3Hit, Peers
  <2>2. PeerAnswer(at[w], key[w]) \in Slots
    BY <2>1 DEF TypeOK, PeerAnswer
  <2> QED
    BY <1>7, <2>2, CountTyped DEF TypeOK, L3Hit, Goto, Labels, tierVars, daemonVars, startVars, boundVars, NoStats
<1>8. ASSUME NEW w \in Workers, L3NextPeer(w) PROVE TypeOK'
  BY <1>8 DEF TypeOK, L3NextPeer, tierVars, daemonVars, startVars, boundVars
<1>9. ASSUME NEW w \in Workers, L3Miss(w) PROVE TypeOK'
  BY <1>9, CountTyped DEF TypeOK, L3Miss, Goto, Labels, tierVars, daemonVars, startVars, boundVars, NoStats
<1>10. ASSUME NEW w \in Workers, Fill2(w) PROVE TypeOK'
  BY <1>10 DEF TypeOK, Fill2, Goto, Labels, daemonVars, startVars, boundVars
<1>11. ASSUME NEW w \in Workers, PutL1AndReturn(w) PROVE TypeOK'
  <2>1. val[w] \in Slots /\ mode.procOf[w] \in Procs /\ key[w] \in Keys
    BY DEF TypeOK
  <2>2. l1' \in [Procs -> [Keys -> Slots]]
    BY <1>11, <2>1 DEF TypeOK, PutL1AndReturn
  <2> QED
    BY <1>11, <2>1, <2>2, ReturnTyped DEF TypeOK, PutL1AndReturn, daemonVars, startVars, boundVars
<1>12. ASSUME NEW w \in Workers, Load(w) PROVE TypeOK'
  <2>1. key[w].path \in Paths
    BY DEF TypeOK, Keys
  <2>2. Loaded(key[w].path) \subseteq Slots
    BY <2>1, LoadedTyped DEF Slots
  <2> QED
    BY <1>12, <2>2 DEF TypeOK, Load, Goto, Labels, tierVars, daemonVars, startVars, boundVars
<1>13. ASSUME NEW w \in Workers, Put2(w) PROVE TypeOK'
  BY <1>13, CountTyped DEF TypeOK, Put2, Goto, Labels, daemonVars, startVars, boundVars, NoStats
<1>14. ASSUME NEW w \in Workers, Put3(w) PROVE TypeOK'
  <2>1. at[w] \in Peers /\ val[w] \in Slots /\ key[w] \in Keys
    BY <1>14 DEF TypeOK, Put3, Peers
  <2>2. msgs' \subseteq Messages
    BY <1>14, <2>1 DEF TypeOK, Put3, Messages, Message
  <2> QED
    BY <1>14, <2>2 DEF TypeOK, Put3, tierVars, startVars, boundVars
<1>15. ASSUME NEW w \in Workers, Put3Fails(w) PROVE TypeOK'
  BY <1>15 DEF TypeOK, Put3Fails, tierVars, daemonVars, startVars, boundVars
<1>16. ASSUME NEW m \in msgs, DaemonPersist(m) PROVE TypeOK'
  <2>1. m \in Messages
    BY DEF TypeOK
  <2>2. [m EXCEPT !.stage = "persisted"] \in Messages
    BY <2>1 DEF Messages
  <2>3. m.to \in Peers /\ m.key.hash \in Contents /\ m.val \in Slots
    BY <2>1 DEF Messages, Keys, Slots
  <2>4. disk' \in [Peers -> [Contents -> Slots]]
    <3>1. disk' = [disk EXCEPT ![m.to][m.key.hash] = m.val] \/ disk' = disk
      BY <1>16 DEF DaemonPersist
    <3>2. disk \in [Peers -> [Contents -> Slots]]
      BY DEF TypeOK
    <3> QED
      BY <2>3, <3>1, <3>2
  <2>5. msgs' \subseteq Messages
    BY <1>16, <2>2 DEF TypeOK, DaemonPersist
  <2>6. UNCHANGED <<file, workerVars, tierVars, peer, startVars, stats, boundVars, seen>>
    BY <1>16 DEF DaemonPersist
  <2> QED
    BY <2>4, <2>5, <2>6 DEF TypeOK, workerVars, tierVars, startVars, boundVars
<1>17. ASSUME NEW m \in msgs, DaemonInsert(m) PROVE TypeOK'
  <2>1. m.to \in Peers /\ m.key \in Keys /\ m.val \in Slots
    BY DEF TypeOK, Messages, Slots
  <2>2. peer' \in [Peers -> [Keys -> Slots]]
    BY <1>17, <2>1 DEF TypeOK, DaemonInsert
  <2> QED
    BY <1>17, <2>2 DEF TypeOK, DaemonInsert, workerVars, tierVars, startVars, boundVars
<1>18. ASSUME NEW n \in Peers, DaemonRestart(n) \/ Preload(n) PROVE TypeOK'
  <2>1. /\ serving' \in [Peers -> BOOLEAN] /\ hashed' \in [Peers -> Contents \cup {None}]
        /\ msgs' \subseteq Messages
    <3>1. file[DaemonPath] \in Contents /\ mode.preloads \in BOOLEAN
      BY DEF TypeOK
    <3>2. CASE DaemonRestart(n)
      BY <3>1, <3>2 DEF TypeOK, DaemonRestart
    <3>3. CASE Preload(n)
      BY <3>1, <3>3 DEF TypeOK, Preload, PreloadHashes, PreloadSkips, PreloadInserts, Listen, KeyOf
    <3> QED
      BY <1>18, <3>2, <3>3
  <2>2. peer' \in [Peers -> [Keys -> Slots]] /\ disk' \in [Peers -> [Contents -> Slots]]
    <3>1. /\ peer \in [Peers -> [Keys -> Slots]] /\ disk \in [Peers -> [Contents -> Slots]]
          /\ None \in Slots
      BY DEF TypeOK, Slots
    <3>2. CASE DaemonRestart(n)
      BY <3>1, <3>2 DEF DaemonRestart
    <3>3. CASE PreloadHashes(n) \/ PreloadSkips(n)
      BY <3>1, <3>3 DEF PreloadHashes, PreloadSkips
    <3>4. CASE PreloadInserts(n)
      <4> DEFINE k == [path |-> DaemonPath, hash |-> hashed[n]]
      <4>1. hashed[n] \in Contents /\ k \in Keys
        BY <3>4 DEF TypeOK, PreloadInserts, Keys
      <4> HIDE DEF k
      <4>2. Preloaded(n) \subseteq Slots
        BY <3>1, <4>1, LoadedTyped DEF Preloaded, Slots
      <4>3. PICK v \in Slots : /\ peer' = [peer EXCEPT ![n][k] = v]
                               /\ disk' = [disk EXCEPT ![n][hashed[n]] = v] \/ disk' = disk
        BY <3>4, <4>2 DEF PreloadInserts, k
      <4>4. peer' \in [Peers -> [Keys -> Slots]]
        BY <3>1, <4>1, <4>3
      <4>5. disk' \in [Peers -> [Contents -> Slots]]
        <5>1. PICK c \in Contents : c = hashed[n]
          BY <4>1
        <5>2. disk' = [disk EXCEPT ![n][c] = v] \/ disk' = disk
          BY <4>3, <5>1
        <5>3. [disk EXCEPT ![n][c] = v] \in [Peers -> [Contents -> Slots]]
          <6>1. n \in Peers /\ v \in Slots /\ disk \in [Peers -> [Contents -> Slots]]
            BY <3>1, <4>3
          <6> QED
            BY <6>1
        <5> QED
          BY <3>1, <5>2, <5>3
      <4> QED
        BY <4>4, <4>5
    <3> QED
      BY <1>18, <3>2, <3>3, <3>4 DEF Preload
  <2>3. UNCHANGED <<file, workerVars, tierVars, stats, boundVars, seen>>
    BY <1>18 DEF DaemonRestart, Preload, PreloadHashes, PreloadSkips, PreloadInserts
  <2> QED
    BY <2>1, <2>2, <2>3 DEF TypeOK, workerVars, tierVars, boundVars
<1>19. ASSUME NEW p \in Paths, NEW c \in Contents, FileChanges(p, c) PROVE TypeOK'
  <2>1. seen' \in [Workers -> SUBSET Contents]
    BY <1>19 DEF TypeOK, FileChanges
  <2>2. torn' \in SUBSET Contents
    <3>1. {key[w].hash : w \in {x \in Workers : pc[x] # "idle" /\ key[x].path = p}} \subseteq Contents
      BY DEF TypeOK, Keys
    <3>2. {hashed[n] : n \in Peers} \ {None} \subseteq Contents
      BY DEF TypeOK
    <3> QED
      BY <1>19, <3>1, <3>2 DEF TypeOK, FileChanges
  <2> QED
    BY <1>19, <2>1, <2>2 DEF TypeOK, FileChanges, workerVars, tierVars, daemonVars, startVars
<1>20. ASSUME NEW q \in Procs, NEW k \in Keys, L1Forgets(q, k) PROVE TypeOK'
  BY <1>20 DEF TypeOK, L1Forgets, Slots, workerVars, daemonVars, startVars, boundVars
<1>21. ASSUME NEW c \in Contents, L2Forgets(c) PROVE TypeOK'
  BY <1>21 DEF TypeOK, L2Forgets, Slots, workerVars, daemonVars, startVars, boundVars
<1>22. CASE UNCHANGED vars
  BY <1>22 DEF TypeOK, vars, workerVars, tierVars, daemonVars, startVars, boundVars
<1> QED
  BY <1>1, <1>2, <1>3, <1>4, <1>5, <1>6, <1>7, <1>8, <1>9, <1>10, <1>11, <1>12, <1>13, <1>14, <1>15,
     <1>16, <1>17, <1>18, <1>19, <1>20, <1>21, <1>22
  DEF Next, WorkerStep, TryGet, LoadAndPut, Fill1, Put1

\* The variables of the cache keep their types.
THEOREM TypeCorrect == Spec => []TypeOK
  BY TypeInit, TypeStep, PTL DEF Spec

-----------------------------------------------------------------------------
(***************************************************************************)
(* Keys and contents.  A worker carries, from the hash to the last put,    *)
(* kernels that may stand under its key: it hashed the file it loads from, *)
(* and a file replaced in between has made the hash a torn one.            *)
(***************************************************************************)
\* What a worker carries may stand under its key, and the file it hashed is unchanged,
\* or its hash is among the torn ones.
CarriesItsOwn(w) ==
  /\ pc[w] # "idle" => file[key[w].path] = key[w].hash \/ key[w].hash \in torn
  /\ pc[w] \in {"fill2", "fill1", "put2", "put3"} => val[w] \in Under(key[w].hash) \ {None}

MessagesTrue == \A m \in msgs : m.val \in Under(m.key.hash)

\* A daemon about to load the file it hashed finds it unchanged, or the hash is torn.
PreloadsTrue ==
  \A n \in Peers : hashed[n] # None => file[DaemonPath] = hashed[n] \/ hashed[n] \in torn

\* A call has seen what its file held at the start and holds now; files that change
\* only between calls leave no torn hash.
SeesItsFile(w) ==
  IF pc[w] = "idle" THEN seen[w] = {}
  ELSE key[w].hash \in seen[w] /\ file[key[w].path] \in seen[w]

\* The inductive invariant behind KeyNamesContent and ImplementsKernelSource.
Inv ==
  /\ TypeOK /\ KeyNamesContent /\ MessagesTrue /\ PreloadsTrue
  /\ \A w \in Workers : CarriesItsOwn(w) /\ SeesItsFile(w)
  /\ mode.quiet => torn = {}


LEMMA InvInit == Init => Inv
<1> SUFFICES ASSUME Init PROVE Inv
  OBVIOUS
<1>1. TypeOK
  BY TypeInit
<1>2. \A c : None \in Under(c)
  BY DEF Under
<1>3. KeyNamesContent
  BY <1>2 DEF Init, KeyNamesContent
<1> QED
  BY <1>1, <1>3 DEF Init, Inv, MessagesTrue, PreloadsTrue, CarriesItsOwn, SeesItsFile

LEMMA LoadedUnder ==
  ASSUME Inv, NEW w \in Workers, pc[w] # "idle"
  PROVE  Loaded(key[w].path) \subseteq Under(key[w].hash) \ {None}
<1>1. key[w].path \in Paths /\ key[w].hash \in Contents
  BY DEF Inv, TypeOK, Keys
<1>2. file[key[w].path] \in Contents
  BY <1>1 DEF Inv, TypeOK
<1>3. file[key[w].path] = key[w].hash \/ key[w].hash \in torn
  BY DEF Inv, CarriesItsOwn
<1> QED
  BY <1>2, <1>3, TieredAssumption DEF Loaded, Under, Kernels

\* The steps of a worker within a call leave files, mode and torn hashes alone.
LEMMA WorkerStepTrue ==
  ASSUME Inv, NEW w \in Workers, WorkerStep(w)
  PROVE  KeyNamesContent' /\ MessagesTrue' /\ \A x \in Workers : CarriesItsOwn(x)'
<1> USE TieredAssumption
<1>1. UNCHANGED <<file, mode, torn>>
  BY DEF WorkerStep, TryGet, LoadAndPut, L1Hit, L1Miss, L2Hit, L2Miss, L3Hit, L3NextPeer, L3Miss,
         Fill2, Fill1, Load, Put2, Put3, Put3Fails, Put1, PutL1AndReturn, boundVars
<1>2. \A c : Under(c)' = Under(c)
  BY <1>1 DEF Under
<1>3. TypeOK /\ KeyNamesContent /\ MessagesTrue /\ \A x \in Workers : CarriesItsOwn(x)
  BY DEF Inv
<1>4. key[w] \in Keys /\ key[w].hash \in Contents /\ mode.procOf[w] \in Procs
  BY <1>3 DEF TypeOK, Keys
<1>5. KeyNamesContent'
  <2>1. CASE UNCHANGED <<l1, l2, peer, disk>>
    BY <1>2, <1>3, <2>1 DEF KeyNamesContent
  <2>2. ASSUME l2' = [l2 EXCEPT ![key[w].hash] = val[w]], UNCHANGED <<l1, peer, disk>>,
               val[w] \in Under(key[w].hash)
        PROVE  KeyNamesContent'
    BY <1>2, <1>3, <1>4, <2>2 DEF KeyNamesContent, TypeOK
  <2>3. ASSUME l1' = [l1 EXCEPT ![mode.procOf[w]][key[w]] = val[w]], UNCHANGED <<l2, peer, disk>>,
               val[w] \in Under(key[w].hash)
        PROVE  KeyNamesContent'
    BY <1>2, <1>3, <1>4, <2>3 DEF KeyNamesContent, TypeOK
  <2>4. pc[w] \in {"fill2", "fill1", "put2", "put3"} => val[w] \in Under(key[w].hash)
    BY <1>3 DEF CarriesItsOwn
  <2>5. CASE TryGet(w)
    BY <2>1, <2>2, <2>3, <2>4, <2>5
    DEF TryGet, L1Hit, L1Miss, L2Hit, L2Miss, L3Hit, L3NextPeer, L3Miss, Fill2, Fill1,
        PutL1AndReturn, tierVars, daemonVars, startVars
  <2>6. CASE LoadAndPut(w)
    BY <2>1, <2>2, <2>3, <2>4, <2>6
    DEF LoadAndPut, Load, Put2, Put3, Put3Fails, Put1, PutL1AndReturn, tierVars, daemonVars, startVars
  <2> QED
    BY <2>5, <2>6 DEF WorkerStep
<1>6. MessagesTrue'
  <2>1. CASE msgs' = msgs
    BY <1>2, <1>3, <2>1 DEF MessagesTrue
  <2>2. ASSUME Put3(w) PROVE MessagesTrue'
    BY <1>2, <1>3, <2>2 DEF MessagesTrue, Put3, CarriesItsOwn, Message
  <2> QED
    BY <2>1, <2>2
    DEF WorkerStep, TryGet, LoadAndPut, L1Hit, L1Miss, L2Hit, L2Miss, L3Hit, L3NextPeer, L3Miss,
        Fill2, Fill1, Load, Put2, Put3Fails, Put1, PutL1AndReturn, daemonVars, startVars
<1>7. ASSUME NEW x \in Workers PROVE CarriesItsOwn(x)'
  <2>1. key' = key
    BY DEF WorkerStep, TryGet, LoadAndPut, L1Hit, L1Miss, L2Hit, L2Miss, L3Hit, L3NextPeer, L3Miss,
           Fill2, Fill1, Load, Put2, Put3, Put3Fails, Put1, PutL1AndReturn, Return
  <2>2. pc[w] # "idle"
    BY DEF WorkerStep, TryGet, LoadAndPut, L1Hit, L1Miss, L2Hit, L2Miss, L3Hit, L3NextPeer, L3Miss,
           Fill2, Fill1, Load, Put2, Put3, Put3Fails, Put1
  <2>3. file'[key'[x].path] = key'[x].hash \/ key'[x].hash \in torn' \/ pc'[x] = "idle"
    <3>1. CASE x = w
      BY <1>1, <1>3, <2>1, <2>2, <3>1 DEF CarriesItsOwn
    <3>2. CASE x # w
      <4>1. pc'[x] = pc[x]
        BY <1>3, <3>2
        DEF TypeOK, WorkerStep, TryGet, LoadAndPut, L1Hit, L1Miss, L2Hit, L2Miss, L3Hit, L3NextPeer,
            L3Miss, Fill2, Fill1, Load, Put2, Put3, Put3Fails, Put1, PutL1AndReturn, Return, Goto
      <4> QED
        BY <1>1, <1>3, <2>1, <4>1 DEF CarriesItsOwn
    <3> QED
      BY <3>1, <3>2
  <2>4. ASSUME pc'[x] \in {"fill2", "fill1", "put2", "put3"}
        PROVE  val'[x] \in Under(key[x].hash) \ {None}
    <3>1. CASE x # w
      <4>1. pc'[x] = pc[x] /\ val'[x] = val[x]
        BY <1>3, <3>1
        DEF TypeOK, WorkerStep, TryGet, LoadAndPut, L1Hit, L1Miss, L2Hit, L2Miss, L3Hit, L3NextPeer,
            L3Miss, Fill2, Fill1, Load, Put2, Put3, Put3Fails, Put1, PutL1AndReturn, Return, Goto
      <4> QED
        BY <1>3, <2>4, <4>1 DEF CarriesItsOwn
    <3>2. CASE x = w /\ TryGet(w)
      <4>1. CASE L2Hit(w)
        <5>1. val'[w] = l2[key[w].hash] /\ l2[key[w].hash] # None
          BY <1>3, <4>1 DEF L2Hit, TypeOK
        <5> QED
          BY <1>3, <1>4, <3>2, <5>1 DEF KeyNamesContent
      <4>2. CASE L3Hit(w)
        <5>1. at[w] \in Peers
          BY <1>3, <4>2 DEF TypeOK, L3Hit, Peers
        <5>2. val'[w] = peer[at[w]][key[w]] /\ peer[at[w]][key[w]] # None
          BY <1>3, <4>2 DEF L3Hit, PeerAnswer, TypeOK
        <5> QED
          BY <1>3, <1>4, <3>2, <5>1, <5>2 DEF KeyNamesContent
      <4>3. CASE Fill2(w)
        BY <1>3, <3>2, <4>3 DEF Fill2, CarriesItsOwn
      <4>4. CASE L1Hit(w) \/ L1Miss(w) \/ L2Miss(w) \/ L3NextPeer(w) \/ L3Miss(w) \/ Fill1(w)
        BY <1>3, <2>4, <3>2, <4>4
        DEF TypeOK, L1Hit, L1Miss, L2Miss, L3NextPeer, L3Miss, Fill1, PutL1AndReturn, Return, Goto
      <4> QED
        BY <3>2, <4>1, <4>2, <4>3, <4>4 DEF TryGet
    <3>3. CASE x = w /\ LoadAndPut(w)
      <4>1. CASE Load(w)
        <5>1. val'[w] \in Loaded(key[w].path)
          BY <1>3, <4>1 DEF Load, TypeOK
        <5> QED
          BY <2>2, <3>3, <5>1, LoadedUnder
      <4>2. CASE Put2(w) \/ Put3(w) \/ Put3Fails(w)
        BY <1>3, <3>3, <4>2 DEF Put2, Put3, Put3Fails, CarriesItsOwn
      <4>3. CASE Put1(w)
        BY <1>3, <2>4, <3>3, <4>3 DEF TypeOK, Put1, PutL1AndReturn, Return, Goto
      <4> QED
        BY <3>3, <4>1, <4>2, <4>3 DEF LoadAndPut
    <3> QED
      BY <3>1, <3>2, <3>3 DEF WorkerStep
  <2> QED
    BY <1>2, <2>1, <2>3, <2>4 DEF CarriesItsOwn
<1> QED
  BY <1>5, <1>6, <1>7

LEMMA CallsTrue ==
  ASSUME Inv, NEW w \in Workers, NEW p \in Paths, Begin(w, p) \/ Bypass(w, p)
  PROVE  KeyNamesContent' /\ MessagesTrue' /\ \A x \in Workers : CarriesItsOwn(x)'
<1>1. UNCHANGED <<file, mode, torn, val, l1, l2, peer, disk, msgs>>
  BY DEF Begin, Bypass, tierVars, daemonVars, startVars
<1>2. \A c : Under(c)' = Under(c)
  BY <1>1 DEF Under
<1>3. TypeOK /\ KeyNamesContent /\ MessagesTrue /\ \A x \in Workers : CarriesItsOwn(x)
  BY DEF Inv
<1>4. KeyNamesContent' /\ MessagesTrue'
  BY <1>1, <1>2, <1>3 DEF KeyNamesContent, MessagesTrue
<1>5. ASSUME NEW x \in Workers PROVE CarriesItsOwn(x)'
  <2>1. CASE pc'[x] = pc[x] /\ key'[x] = key[x]
    BY <1>1, <1>2, <1>3, <2>1 DEF CarriesItsOwn
  <2>2. CASE x = w /\ Begin(w, p)
    BY <1>1, <1>3, <2>2 DEF TypeOK, Begin, Goto, KeyOf, CarriesItsOwn
  <2>3. (x = w /\ Begin(w, p)) \/ (pc'[x] = pc[x] /\ key'[x] = key[x])
    BY <1>3 DEF TypeOK, Begin, Bypass, Goto
  <2> QED
    BY <2>1, <2>2, <2>3
<1> QED
  BY <1>4, <1>5

\* The daemons and evictions.
LEMMA TiersTrue ==
  ASSUME Inv, UNCHANGED <<file, mode, torn, pc, key, val>>,
         \/ \E m \in msgs : DaemonPersist(m) \/ DaemonInsert(m)
         \/ \E n \in Peers : DaemonRestart(n) \/ Preload(n)
         \/ \E q \in Procs, k \in Keys : L1Forgets(q, k)
         \/ \E c \in Contents : L2Forgets(c)
  PROVE  KeyNamesContent' /\ MessagesTrue' /\ \A x \in Workers : CarriesItsOwn(x)'
<1> USE TieredAssumption
<1>1. \A c : Under(c)' = Under(c) /\ None \in Under(c) /\ c \in Under(c)
  BY DEF Under
<1>2. TypeOK /\ KeyNamesContent /\ MessagesTrue /\ \A x \in Workers : CarriesItsOwn(x)
  BY DEF Inv
<1>3. \A x \in Workers : CarriesItsOwn(x)'
  BY <1>1, <1>2 DEF CarriesItsOwn
<1>4. ASSUME NEW m \in msgs, DaemonPersist(m) PROVE KeyNamesContent' /\ MessagesTrue'
  <2>1. m.to \in Peers /\ m.key.hash \in Contents /\ m.val \in Under(m.key.hash)
    BY <1>2 DEF TypeOK, Messages, Keys, MessagesTrue
  <2>2. UNCHANGED <<l1, l2, peer>>
    BY <1>4 DEF DaemonPersist, tierVars
  <2>3. disk' = [disk EXCEPT ![m.to][m.key.hash] = m.val] \/ disk' = disk
    BY <1>4 DEF DaemonPersist
  <2>4. KeyNamesContent'
    <3>1. disk \in [Peers -> [Contents -> Slots]]
      BY <1>2 DEF TypeOK
    <3>2. ASSUME NEW q \in Peers, NEW c \in Contents
          PROVE  disk'[q][c] \in {disk[q][c]} \/ (disk'[q][c] = m.val /\ c = m.key.hash)
      BY <2>1, <2>3, <3>1
    <3> QED
      BY <1>1, <1>2, <2>1, <2>2, <3>2 DEF KeyNamesContent
  <2>5. m \in Messages
    BY <1>2 DEF TypeOK
  <2>6. LET r == [m EXCEPT !.stage = "persisted"] IN r.val = m.val /\ r.key = m.key
    BY <2>5 DEF Messages
  <2>7. MessagesTrue'
    BY <1>1, <1>2, <1>4, <2>1, <2>6 DEF MessagesTrue, DaemonPersist
  <2> QED
    BY <2>4, <2>7
<1>5. ASSUME NEW m \in msgs, DaemonInsert(m) PROVE KeyNamesContent' /\ MessagesTrue'
  <2>1. m.to \in Peers /\ m.key \in Keys /\ m.val \in Under(m.key.hash)
    BY <1>2 DEF TypeOK, Messages, MessagesTrue
  <2>2. peer' = [peer EXCEPT ![m.to][m.key] = m.val] /\ UNCHANGED <<l1, l2, disk>>
    BY <1>5 DEF DaemonInsert, tierVars
  <2>3. KeyNamesContent'
    BY <1>1, <1>2, <2>1, <2>2 DEF KeyNamesContent, TypeOK
  <2> QED
    BY <1>1, <1>2, <1>5, <2>3 DEF MessagesTrue, DaemonInsert
<1>6. ASSUME NEW n \in Peers, DaemonRestart(n) PROVE KeyNamesContent' /\ MessagesTrue'
  BY <1>1, <1>2, <1>6 DEF KeyNamesContent, TypeOK, MessagesTrue, DaemonRestart, tierVars
<1>9. ASSUME NEW n \in Peers, PreloadHashes(n) \/ PreloadSkips(n)
      PROVE  KeyNamesContent' /\ MessagesTrue'
  BY <1>1, <1>2, <1>9 DEF KeyNamesContent, MessagesTrue, PreloadHashes, PreloadSkips, tierVars
<1>10. ASSUME NEW n \in Peers, PreloadInserts(n) PROVE KeyNamesContent' /\ MessagesTrue'
  <2> DEFINE h == hashed[n]
             key0 == [path |-> DaemonPath, hash |-> h]
  <2>1. h \in Contents /\ key0 \in Keys /\ key0.hash = h /\ file[DaemonPath] \in Contents
    BY <1>2, <1>10 DEF TypeOK, PreloadInserts, Keys
  <2>2. file[DaemonPath] = h \/ h \in torn
    BY <1>10 DEF Inv, PreloadsTrue, PreloadInserts
  <2>3. UNCHANGED <<l1, l2, msgs>>
    BY <1>10 DEF PreloadInserts, tierVars
  <2>4. Preloaded(n) \subseteq Under(h)
    <3>1. disk[n][h] \in Under(h)
      BY <1>2, <2>1 DEF KeyNamesContent
    <3>2. Loaded(DaemonPath) \subseteq Under(h)
      BY <2>1, <2>2 DEF Loaded, Under
    <3> QED
      BY <3>1, <3>2 DEF Preloaded
  <2>5. PICK v \in Under(h) : /\ peer' = [peer EXCEPT ![n][key0] = v]
                              /\ disk' = [disk EXCEPT ![n][h] = v] \/ disk' = disk
    BY <1>10, <2>4 DEF PreloadInserts
  <2> HIDE DEF h, key0
  <2>6. \A q \in Peers, k \in Keys : peer'[q][k] = peer[q][k] \/ (peer'[q][k] = v /\ k = key0)
    BY <1>2, <2>1, <2>5 DEF TypeOK
  <2>7. \A q \in Peers, c \in Contents : disk'[q][c] = disk[q][c] \/ (disk'[q][c] = v /\ c = h)
    BY <1>2, <2>1, <2>5 DEF TypeOK
  <2>8. KeyNamesContent'
    BY <1>1, <1>2, <2>1, <2>3, <2>5, <2>6, <2>7 DEF KeyNamesContent
  <2>9. MessagesTrue'
    BY <1>1, <1>2, <2>3 DEF MessagesTrue
  <2> QED
    BY <2>8, <2>9
<1>7. ASSUME NEW q \in Procs, NEW k \in Keys, L1Forgets(q, k) PROVE KeyNamesContent' /\ MessagesTrue'
  BY <1>1, <1>2, <1>7 DEF KeyNamesContent, MessagesTrue, TypeOK, L1Forgets, daemonVars, startVars
<1>8. ASSUME NEW c \in Contents, L2Forgets(c) PROVE KeyNamesContent' /\ MessagesTrue'
  BY <1>1, <1>2, <1>8 DEF KeyNamesContent, MessagesTrue, TypeOK, L2Forgets, daemonVars, startVars
<1> QED
  BY <1>3, <1>4, <1>5, <1>6, <1>7, <1>8, <1>9, <1>10 DEF Preload

\* A replaced file: the calls on it make their hashes torn.
LEMMA ChangeTrue ==
  ASSUME Inv, NEW p \in Paths, NEW c \in Contents, FileChanges(p, c)
  PROVE  KeyNamesContent' /\ MessagesTrue' /\ \A x \in Workers : CarriesItsOwn(x)'
<1>1. TypeOK /\ KeyNamesContent /\ MessagesTrue /\ \A x \in Workers : CarriesItsOwn(x)
  BY DEF Inv
<1>2. UNCHANGED <<mode, pc, key, val, l1, l2, peer, disk, msgs>>
  BY DEF FileChanges, workerVars, tierVars, daemonVars, startVars
<1>3. torn \subseteq torn'
      /\ {key[w].hash : w \in {x \in Workers : pc[x] # "idle" /\ key[x].path = p}} \subseteq torn'
  BY DEF FileChanges
<1>4. \A d : Under(d) \subseteq Under(d)'
  BY <1>2, <1>3 DEF Under
<1>5. KeyNamesContent' /\ MessagesTrue'
  BY <1>1, <1>2, <1>4 DEF KeyNamesContent, MessagesTrue
<1>6. ASSUME NEW x \in Workers PROVE CarriesItsOwn(x)'
  <2>1. CASE pc[x] # "idle" /\ key[x].path = p
    BY <1>1, <1>2, <1>3, <1>4, <2>1 DEF CarriesItsOwn
  <2>2. CASE pc[x] = "idle"
    BY <1>2, <2>2 DEF CarriesItsOwn
  <2>3. CASE key[x].path # p
    <3>1. file' = [file EXCEPT ![p] = c] /\ key[x].path \in Paths
      BY <1>1 DEF FileChanges, TypeOK, Keys
    <3>2. file'[key[x].path] = file[key[x].path]
      BY <1>1, <2>3, <3>1 DEF TypeOK
    <3> QED
      BY <1>1, <1>2, <1>3, <1>4, <3>2 DEF CarriesItsOwn
  <2> QED
    BY <2>1, <2>2, <2>3
<1> QED
  BY <1>5, <1>6

\* A step of a worker stays within its call or returns from it.
LEMMA WorkerShape ==
  ASSUME TypeOK, NEW w \in Workers, WorkerStep(w)
  PROVE  /\ pc[w] # "idle" /\ UNCHANGED <<file, key, mode, torn>>
         /\ \/ \E l \in Labels \ {"idle"} : Goto(w, l) /\ UNCHANGED <<seen, got>>
            \/ pc[w] \in {"fill1", "put3"} /\ Return(w, val[w])
            \/ InL1(w) # None /\ Return(w, InL1(w))
<1>1. CASE L1Hit(w) \/ Fill1(w) \/ Put1(w)
  BY <1>1 DEF L1Hit, Fill1, Put1, PutL1AndReturn, Return, boundVars
<1>2. CASE L1Miss(w) \/ L2Hit(w) \/ L2Miss(w) \/ L3Hit(w) \/ L3Miss(w) \/ Fill2(w)
  BY <1>2 DEF L1Miss, L2Hit, L2Miss, L3Hit, L3Miss, Fill2, Labels, boundVars
<1>3. CASE Load(w) \/ Put2(w)
  BY <1>3 DEF Load, Put2, Labels, boundVars
<1>4. CASE L3NextPeer(w) \/ Put3(w) \/ Put3Fails(w)
  <2>1. pc' = [pc EXCEPT ![w] = pc[w]] /\ pc[w] \in {"l3", "put3"}
    BY <1>4 DEF TypeOK, L3NextPeer, Put3, Put3Fails
  <2> QED
    BY <1>4, <2>1 DEF L3NextPeer, Put3, Put3Fails, Labels, Goto, boundVars
<1> QED
  BY <1>1, <1>2, <1>3, <1>4 DEF WorkerStep, TryGet, LoadAndPut

LEMMA SeesStep ==
  ASSUME Inv, Next
  PROVE  (\A x \in Workers : SeesItsFile(x)') /\ (mode'.quiet => torn' = {})
<1> USE TieredAssumption
<1>1. TypeOK /\ (\A x \in Workers : SeesItsFile(x)) /\ (mode.quiet => torn = {})
  BY DEF Inv
<1>2. ASSUME NEW w \in Workers, WorkerStep(w)
      PROVE  (\A x \in Workers : SeesItsFile(x)') /\ (mode'.quiet => torn' = {})
  <2>1. ASSUME NEW x \in Workers PROVE SeesItsFile(x)'
    <3>1. CASE pc'[x] = pc[x] /\ seen'[x] = seen[x]
      BY <1>1, <1>2, <3>1, WorkerShape DEF SeesItsFile
    <3>2. CASE x = w /\ pc'[w] = "idle" /\ seen'[w] = {}
      BY <3>2 DEF SeesItsFile
    <3>3. CASE x = w /\ pc'[w] # "idle" /\ seen'[w] = seen[w]
      BY <1>1, <1>2, <3>3, WorkerShape DEF SeesItsFile
    <3> QED
      BY <1>1, <1>2, <3>1, <3>2, <3>3, WorkerShape DEF TypeOK, Goto, Return
  <2> QED
    BY <1>1, <1>2, <2>1, WorkerShape
<1>3. ASSUME NEW w \in Workers, NEW p \in Paths, Begin(w, p)
      PROVE  (\A x \in Workers : SeesItsFile(x)') /\ (mode'.quiet => torn' = {})
  BY <1>1, <1>3 DEF TypeOK, Begin, Goto, KeyOf, SeesItsFile
<1>4. ASSUME UNCHANGED <<file, mode, torn, pc, key, seen>>
      PROVE  (\A x \in Workers : SeesItsFile(x)') /\ (mode'.quiet => torn' = {})
  BY <1>1, <1>4 DEF SeesItsFile
<1>5. ASSUME NEW p \in Paths, NEW c \in Contents, FileChanges(p, c)
      PROVE  (\A x \in Workers : SeesItsFile(x)') /\ (mode'.quiet => torn' = {})
  <2>1. UNCHANGED <<mode, pc, key>>
    BY <1>5 DEF FileChanges, workerVars
  <2>2. ASSUME mode.quiet PROVE torn' = {}
    <3>1. p = DaemonPath => {hashed[n] : n \in Peers} \ {None} = {}
      BY <1>5, <2>2 DEF FileChanges
    <3>2. {x \in Workers : pc[x] # "idle" /\ key[x].path = p} = {}
      BY <1>5, <2>2 DEF FileChanges
    <3> QED
      BY <1>1, <1>5, <2>2, <3>1, <3>2 DEF FileChanges
  <2>3. ASSUME NEW x \in Workers PROVE SeesItsFile(x)'
    <3>1. key[x].path \in Paths /\ file' = [file EXCEPT ![p] = c]
      BY <1>1, <1>5 DEF FileChanges, TypeOK, Keys
    <3>2. seen'[x] = IF pc[x] # "idle" /\ key[x].path = p THEN seen[x] \cup {c} ELSE seen[x]
      BY <1>5 DEF FileChanges
    <3> QED
      BY <1>1, <2>1, <3>1, <3>2 DEF TypeOK, SeesItsFile
  <2> QED
    BY <2>1, <2>2, <2>3
<1>6. (\E m \in msgs : DaemonPersist(m) \/ DaemonInsert(m)) \/ (\E n \in Peers : DaemonRestart(n) \/ Preload(n))
      \/ (\E q \in Procs, k \in Keys : L1Forgets(q, k)) \/ (\E c \in Contents : L2Forgets(c))
      \/ (\E w \in Workers, p \in Paths : Bypass(w, p))
        => UNCHANGED <<file, mode, torn, pc, key, seen>>
  BY DEF DaemonPersist, DaemonInsert, DaemonRestart, Preload, PreloadHashes,
         PreloadSkips, PreloadInserts, L1Forgets, L2Forgets, Bypass, workerVars, boundVars
<1> QED
  BY <1>2, <1>3, <1>4, <1>5, <1>6 DEF Next

\* The key a daemon made of its file: made anew, used, or torn with the file.
LEMMA PreloadsStep ==
  ASSUME Inv, Next
  PROVE  PreloadsTrue'
<1>1. TypeOK /\ PreloadsTrue
  BY DEF Inv
<1>2. CASE UNCHANGED <<file, torn, hashed>>
  BY <1>1, <1>2 DEF PreloadsTrue
<1>3. ASSUME NEW n \in Peers, DaemonRestart(n) \/ Preload(n) PROVE PreloadsTrue'
  <2>1. UNCHANGED <<file, torn>>
    BY <1>3 DEF DaemonRestart, Preload, PreloadHashes, PreloadSkips, PreloadInserts, boundVars
  <2>2. hashed' = [hashed EXCEPT ![n] = None] \/ hashed' = [hashed EXCEPT ![n] = file[DaemonPath]]
    BY <1>3 DEF DaemonRestart, Preload, PreloadHashes, PreloadSkips, PreloadInserts, Listen, KeyOf
  <2> QED
    BY <1>1, <2>1, <2>2 DEF TypeOK, PreloadsTrue
<1>4. ASSUME NEW p \in Paths, NEW c \in Contents, FileChanges(p, c) PROVE PreloadsTrue'
  <2>1. hashed' = hashed /\ torn \subseteq torn' /\ file' = [file EXCEPT ![p] = c]
    BY <1>4 DEF FileChanges, daemonVars, startVars
  <2>2. CASE p = DaemonPath
    <3>1. {hashed[n] : n \in Peers} \ {None} \subseteq torn'
      BY <1>4, <2>2 DEF FileChanges
    <3> QED
      BY <2>1, <3>1 DEF PreloadsTrue
  <2>3. CASE p # DaemonPath
    <3>1. file'[DaemonPath] = file[DaemonPath]
      BY <1>1, <2>1, <2>3, TieredAssumption DEF TypeOK
    <3> QED
      BY <1>1, <2>1, <3>1 DEF PreloadsTrue
  <2> QED
    BY <2>2, <2>3
<1>5. ASSUME NEW w \in Workers, WorkerStep(w) \/ \E p \in Paths : Begin(w, p) \/ Bypass(w, p)
      PROVE  UNCHANGED <<file, torn, hashed>>
  BY <1>5
  DEF WorkerStep, TryGet, LoadAndPut, L1Hit, L1Miss, L2Hit, L2Miss, L3Hit, L3NextPeer, L3Miss, Fill2,
      Fill1, Load, Put2, Put3, Put3Fails, Put1, PutL1AndReturn, Begin, Bypass, daemonVars, startVars,
      boundVars
<1>6. ASSUME (\E m \in msgs : DaemonPersist(m) \/ DaemonInsert(m))
             \/ (\E q \in Procs, k \in Keys : L1Forgets(q, k)) \/ (\E c \in Contents : L2Forgets(c))
      PROVE  UNCHANGED <<file, torn, hashed>>
  BY <1>6 DEF DaemonPersist, DaemonInsert, L1Forgets, L2Forgets, daemonVars, startVars, boundVars
<1> QED
  BY <1>2, <1>3, <1>4, <1>5, <1>6 DEF Next

LEMMA InvStep == Inv /\ [Next]_vars => Inv'
<1> SUFFICES ASSUME Inv, [Next]_vars PROVE Inv'
  OBVIOUS
<1>1. TypeOK'
  BY TypeStep DEF Inv
<1>2. CASE UNCHANGED vars
  BY <1>1, <1>2
  DEF Inv, vars, workerVars, tierVars, daemonVars, startVars, boundVars, KeyNamesContent, MessagesTrue,
      PreloadsTrue, CarriesItsOwn, SeesItsFile, Under
<1>3. CASE Next
  <2>1. KeyNamesContent' /\ MessagesTrue' /\ \A x \in Workers : CarriesItsOwn(x)'
    <3>1. (\E m \in msgs : DaemonPersist(m) \/ DaemonInsert(m)) \/ (\E n \in Peers : DaemonRestart(n) \/ Preload(n))
          \/ (\E q \in Procs, k \in Keys : L1Forgets(q, k)) \/ (\E c \in Contents : L2Forgets(c))
            => UNCHANGED <<file, mode, torn, pc, key, val>>
      BY DEF DaemonPersist, DaemonInsert, DaemonRestart, Preload, PreloadHashes,
         PreloadSkips, PreloadInserts, L1Forgets, L2Forgets, workerVars, boundVars
    <3> QED
      BY <1>3, <3>1, WorkerStepTrue, CallsTrue, TiersTrue, ChangeTrue DEF Next
  <2>2. (\A x \in Workers : SeesItsFile(x)') /\ (mode'.quiet => torn' = {})
    BY <1>3, SeesStep
  <2>3. PreloadsTrue'
    BY <1>3, PreloadsStep
  <2> QED
    BY <1>1, <2>1, <2>2, <2>3 DEF Inv
<1> QED
  BY <1>2, <1>3

\* Every tier holds under a key the kernels of the content that key hashes, but for
\* hashes whose file was replaced before a call or a preload had loaded it, with any
\* number of daemons that restart and messages that are lost or late.
THEOREM KeysTrue == Spec => []KeyNamesContent
<1>1. Inv => KeyNamesContent
  BY DEF Inv
<1> QED
  BY <1>1, InvInit, InvStep, PTL DEF Spec

-----------------------------------------------------------------------------
(***************************************************************************)
(* The cache implements its specification: a call begins when its file is  *)
(* hashed and is answered when it returns; all that the tiers, the daemons *)
(* and the evictions do in between are stuttering steps.                   *)
(***************************************************************************)
LEMMA SourceStep == Inv /\ [Next]_vars => [Source!SourceNext]_(Source!sourceVars)
<1> SUFFICES ASSUME Inv, [Next]_vars PROVE Source!SourceNext \/ UNCHANGED Source!sourceVars
  OBVIOUS
<1> USE TieredAssumption
<1>1. TypeOK /\ KeyNamesContent /\ \A x \in Workers : CarriesItsOwn(x) /\ SeesItsFile(x)
  BY DEF Inv
<1>2. ASSUME NEW w \in Workers, WorkerStep(w)
      PROVE  Source!Answer(w) \/ UNCHANGED Source!sourceVars
  <2>1. trusted' = trusted
    BY <1>1, <1>2, WorkerShape DEF trusted
  <2>2. CASE UNCHANGED <<seen, got>>
    BY <1>1, <1>2, <2>1, <2>2, WorkerShape DEF Source!sourceVars
  <2>3. ASSUME NEW v \in Under(key[w].hash) \ {None}, Return(w, v)
        PROVE  Source!Answer(w)
    <3>1. key[w].hash \in seen[w] /\ key[w].hash \in Contents /\ seen[w] # {}
      BY <1>1, <1>2, WorkerShape DEF SeesItsFile, TypeOK, Keys
    <3>2. trusted => v \in seen[w]
      BY <2>3, <3>1 DEF trusted, Inv, Under
    <3>3. v \in Kernels
      BY <2>3, <3>1 DEF Under, Kernels
    <3> QED
      BY <1>1, <1>2, <2>1, <2>3, <3>1, <3>2, <3>3, WorkerShape
      DEF Source!Answer, Source!Idle, Return, Kernels
  <2>4. pc[w] \in {"fill1", "put3"} => val[w] \in Under(key[w].hash) \ {None}
    BY <1>1 DEF CarriesItsOwn
  <2>5. InL1(w) \in Under(key[w].hash)
    BY <1>1 DEF InL1, KeyNamesContent, TypeOK
  <2> QED
    BY <1>1, <1>2, <2>2, <2>3, <2>4, <2>5, WorkerShape
<1>3. ASSUME NEW w \in Workers, NEW p \in Paths, Begin(w, p) PROVE Source!Call(w)
  BY <1>1, <1>3 DEF Begin, Source!Call, Source!Idle, SeesItsFile, trusted, tierVars
<1>4. ASSUME NEW w \in Workers, NEW p \in Paths, Bypass(w, p) PROVE Source!CallAndAnswer(w)
  <2>1. seen[w] = {}
    BY <1>1, <1>4 DEF Bypass, SeesItsFile
  <2>2. ~ trusted /\ UNCHANGED <<file, seen, trusted>>
    BY <1>4 DEF Bypass, trusted
  <2>3. \E v \in Kernels : got' = [got EXCEPT ![w] = v]
    BY <1>1, <1>4, LoadedTyped DEF Bypass
  <2> QED
    BY <2>1, <2>2, <2>3 DEF Source!CallAndAnswer, Source!Idle
<1>5. ASSUME NEW p \in Paths, NEW c \in Contents, FileChanges(p, c) PROVE Source!Change(p, c)
  <2> DEFINE S == {x \in Workers : pc[x] # "idle" /\ key[x].path = p}
  <2>1. S \in SUBSET {x \in Workers : ~ Source!Idle(x)}
    BY <1>1 DEF Source!Idle, SeesItsFile
  <2>2. seen' = [x \in Workers |-> IF x \in S THEN seen[x] \cup {c} ELSE seen[x]]
    BY <1>5 DEF FileChanges
  <2>3. trusted' = trusted /\ got' = got /\ file' = [file EXCEPT ![p] = c]
    BY <1>5 DEF FileChanges, trusted, workerVars
  <2> QED
    BY <2>1, <2>2, <2>3 DEF Source!Change
<1>6. (\E m \in msgs : DaemonPersist(m) \/ DaemonInsert(m)) \/ (\E n \in Peers : DaemonRestart(n) \/ Preload(n))
      \/ (\E q \in Procs, k \in Keys : L1Forgets(q, k)) \/ (\E c \in Contents : L2Forgets(c))
        => UNCHANGED Source!sourceVars
  BY DEF DaemonPersist, DaemonInsert, DaemonRestart, Preload, PreloadHashes,
         PreloadSkips, PreloadInserts, L1Forgets, L2Forgets, workerVars, boundVars,
         Source!sourceVars, trusted
<1>7. CASE UNCHANGED vars
  BY <1>7 DEF vars, workerVars, boundVars, Source!sourceVars, trusted
<1> QED
  BY <1>2, <1>3, <1>4, <1>5, <1>6, <1>7 DEF Next, Source!SourceNext

LEMMA SourceStart == Init => Source!SourceInit
  BY TieredAssumption DEF Init, Source!SourceInit, trusted

\* get_or_load, over all its tiers, answers as the loader would have during the call
\* as long as files can be read and are replaced only while neither a call nor a preload
\* reads them.
THEOREM TiersImplementSource == Spec => ImplementsKernelSource
  BY InvInit, InvStep, SourceStart, SourceStep, PTL DEF Spec, ImplementsKernelSource, Source!SourceSpec

-----------------------------------------------------------------------------
(***************************************************************************)
(* The counters.  A step of a worker moves it from one label to another,   *)
(* so that the number of workers at a set of labels changes by one at most.*)
(***************************************************************************)
AtSet(q, labels) == {w \in Workers : mode.procOf[w] = q /\ pc[w] \in labels}

Here(q, w, l, labels) == IF mode.procOf[w] = q /\ l \in labels THEN 1 ELSE 0

LEMMA AtStep ==
  ASSUME TypeOK, mode' = mode, NEW w \in Workers, NEW l, Goto(w, l), NEW q, NEW labels
  PROVE  /\ At(q, labels) \in Nat /\ At(q, labels)' \in Nat
         /\ At(q, labels)' = At(q, labels) - Here(q, w, pc[w], labels) + Here(q, w, l, labels)
<1> DEFINE S == AtSet(q, labels)
           T == {x \in Workers : mode.procOf[x] = q /\ pc'[x] \in labels}
<1>1. IsFiniteSet(Workers)
  BY TieredAssumption
<1>2. At(q, labels) = Cardinality(S) /\ At(q, labels)' = Cardinality(T)
  BY DEF At, AtSet
<1>3. IsFiniteSet(S) /\ IsFiniteSet(T)
  BY <1>1, FS_Subset DEF AtSet
<1>4. Cardinality(S) \in Nat /\ Cardinality(T) \in Nat
  BY <1>3, FS_CardinalityType
<1>5. pc' = [pc EXCEPT ![w] = l] /\ pc \in [Workers -> Labels]
  BY DEF TypeOK, Goto
<1>6. S \ {w} = T \ {w}
  BY <1>5 DEF AtSet
<1>7. /\ Cardinality(S \ {w}) = Cardinality(S) - Here(q, w, pc[w], labels)
      /\ Cardinality(T \ {w}) = Cardinality(T) - Here(q, w, l, labels)
  <2>1. (w \in S <=> mode.procOf[w] = q /\ pc[w] \in labels) /\ (w \in T <=> mode.procOf[w] = q /\ l \in labels)
    BY <1>5 DEF AtSet
  <2>2. /\ Cardinality(S \ {w}) = IF w \in S THEN Cardinality(S) - 1 ELSE Cardinality(S)
        /\ Cardinality(T \ {w}) = IF w \in T THEN Cardinality(T) - 1 ELSE Cardinality(T)
    BY <1>3, FS_RemoveElement
  <2> QED
    BY <1>4, <2>1, <2>2 DEF Here
<1>8. Cardinality(S \ {w}) = Cardinality(T \ {w})
  BY <1>6
<1>9. Here(q, w, pc[w], labels) \in {0, 1} /\ Here(q, w, l, labels) \in {0, 1}
  BY DEF Here
<1> HIDE DEF S, T
<1> QED
  BY <1>2, <1>4, <1>7, <1>8, <1>9

LEMMA CountStep ==
  ASSUME TypeOK, NEW w \in Workers, NEW c \in DOMAIN NoStats, Count(w, c), NEW q \in Procs
  PROVE  /\ stats[q] \in [DOMAIN NoStats -> Nat]
         /\ \A d \in DOMAIN NoStats :
              stats'[q][d] = stats[q][d] + IF q = mode.procOf[w] /\ d = c THEN 1 ELSE 0
  BY TieredAssumption DEF TypeOK, Count

LEMMA CountersNamed ==
  DOMAIN NoStats = {"l1_hits", "l1_misses", "l2_hits", "l2_misses", "l3_hits", "l3_misses", "puts"}
  BY DEF NoStats

Balanced(q) ==
  LET s == stats[q] IN
  /\ s.l1_misses = s.l2_hits + s.l2_misses + At(q, {"l2"})
  /\ s.l2_misses = s.l3_hits + s.l3_misses + At(q, {"l3"})
  /\ s.l3_misses = s.puts + At(q, {"load", "put2"})

LEMMA BalanceStep ==
  ASSUME TypeOK, NEW w \in Workers, WorkerStep(w), NEW q \in Procs, Balanced(q)
  PROVE  Balanced(q)'
<1> DEFINE moved(l) ==
      /\ At(q, {"l2"})' = At(q, {"l2"}) - Here(q, w, pc[w], {"l2"}) + Here(q, w, l, {"l2"})
      /\ At(q, {"l3"})' = At(q, {"l3"}) - Here(q, w, pc[w], {"l3"}) + Here(q, w, l, {"l3"})
      /\ At(q, {"load", "put2"})' = At(q, {"load", "put2"}) - Here(q, w, pc[w], {"load", "put2"})
                                     + Here(q, w, l, {"load", "put2"})
      /\ At(q, {"l2"}) \in Nat /\ At(q, {"l3"}) \in Nat /\ At(q, {"load", "put2"}) \in Nat
      counted(c) ==
      /\ stats[q] \in [DOMAIN NoStats -> Nat]
      /\ \A d \in DOMAIN NoStats :
           stats'[q][d] = stats[q][d] + IF q = mode.procOf[w] /\ d = c THEN 1 ELSE 0
<1>1. mode' = mode
  BY WorkerShape
<1>2. ASSUME NEW l, Goto(w, l) PROVE moved(l)
  BY <1>1, <1>2, AtStep
<1>3. ASSUME NEW c \in DOMAIN NoStats, Count(w, c) PROVE counted(c)
  BY <1>3, CountStep
<1> USE CountersNamed DEF Balanced, Here
<1> HIDE DEF moved, counted
<1>4. CASE L1Hit(w)
  <2>1. moved("idle") /\ counted("l1_hits") /\ pc[w] = "l1"
    BY <1>2, <1>3, <1>4 DEF L1Hit, Return
  <2> QED
    BY <2>1 DEF moved, counted
<1>5. CASE L1Miss(w)
  <2>1. moved("l2") /\ counted("l1_misses") /\ pc[w] = "l1"
    BY <1>2, <1>3, <1>5 DEF L1Miss
  <2> QED
    BY <2>1 DEF moved, counted
<1>6. CASE L2Hit(w)
  <2>1. moved("fill1") /\ counted("l2_hits") /\ pc[w] = "l2"
    BY <1>2, <1>3, <1>6 DEF L2Hit
  <2> QED
    BY <2>1 DEF moved, counted
<1>7. CASE L2Miss(w)
  <2>1. moved("l3") /\ counted("l2_misses") /\ pc[w] = "l2"
    BY <1>2, <1>3, <1>7 DEF L2Miss
  <2> QED
    BY <2>1 DEF moved, counted
<1>8. CASE L3Hit(w)
  <2>1. moved("fill2") /\ counted("l3_hits") /\ pc[w] = "l3"
    BY <1>2, <1>3, <1>8 DEF L3Hit
  <2> QED
    BY <2>1 DEF moved, counted
<1>9. CASE L3Miss(w)
  <2>1. moved("load") /\ counted("l3_misses") /\ pc[w] = "l3"
    BY <1>2, <1>3, <1>9 DEF L3Miss
  <2> QED
    BY <2>1 DEF moved, counted
<1>10. CASE Put2(w)
  <2>1. moved("put3") /\ counted("puts") /\ pc[w] = "put2"
    BY <1>2, <1>3, <1>10 DEF Put2
  <2>2. CASE q = mode.procOf[w]
    <3>1. /\ At(q, {"l2"})' = At(q, {"l2"}) /\ At(q, {"l3"})' = At(q, {"l3"})
          /\ At(q, {"load", "put2"})' = At(q, {"load", "put2"}) - 1
      BY <2>1, <2>2 DEF moved
    <3>2. /\ stats'[q].puts = stats[q].puts + 1
          /\ \A d \in DOMAIN NoStats \ {"puts"} : stats'[q][d] = stats[q][d]
      BY <2>1, <2>2 DEF counted
    <3>3. /\ At(q, {"load", "put2"}) \in Nat /\ stats[q] \in [DOMAIN NoStats -> Nat]
      BY <2>1 DEF moved, counted
    <3> QED
      BY <3>1, <3>2, <3>3
  <2>3. CASE q # mode.procOf[w]
    BY <2>1, <2>3 DEF moved, counted
  <2> QED
    BY <2>2, <2>3
<1>11. CASE Load(w)
  <2>1. moved("put2") /\ stats' = stats /\ pc[w] = "load"
    BY <1>2, <1>11 DEF Load
  <2> QED
    BY <2>1 DEF moved
<1>12. CASE L3NextPeer(w) \/ Put3(w) \/ Put3Fails(w)
  <2>1. stats' = stats /\ pc' = pc
    BY <1>12 DEF L3NextPeer, Put3, Put3Fails
  <2> QED
    BY <1>1, <2>1 DEF At
<1>13. CASE Fill2(w)
  <2>1. moved("fill1") /\ stats' = stats /\ pc[w] = "fill2"
    BY <1>2, <1>13 DEF Fill2
  <2> QED
    BY <2>1 DEF moved
<1>14. CASE Fill1(w) \/ Put1(w)
  <2>1. moved("idle") /\ stats' = stats /\ pc[w] \in {"fill1", "put3"}
    BY <1>2, <1>14 DEF Fill1, Put1, PutL1AndReturn, Return
  <2> QED
    BY <2>1 DEF moved
<1> QED
  BY <1>4, <1>5, <1>6, <1>7, <1>8, <1>9, <1>10, <1>11, <1>12, <1>13, <1>14
  DEF WorkerStep, TryGet, LoadAndPut

\* The counters of every process balance, however many threads it has.
THEOREM StatisticsBalance == Spec => []StatsBalance
<1>1. Init => StatsBalance
  <2> SUFFICES ASSUME Init, NEW q \in Procs PROVE Balanced(q)
    BY DEF StatsBalance, Balanced
  <2>1. At(q, {"l2"}) = 0 /\ At(q, {"l3"}) = 0 /\ At(q, {"load", "put2"}) = 0
    <3>1. AtSet(q, {"l2"}) = {} /\ AtSet(q, {"l3"}) = {} /\ AtSet(q, {"load", "put2"}) = {}
      BY DEF Init, AtSet
    <3> QED
      BY <3>1, FS_EmptySet DEF At, AtSet
  <2> QED
    BY <2>1 DEF Init, NoStats, Balanced
<1>2. TypeOK /\ StatsBalance /\ [Next]_vars => StatsBalance'
  <2> SUFFICES ASSUME TypeOK, StatsBalance, [Next]_vars, NEW q \in Procs PROVE Balanced(q)'
    BY DEF StatsBalance, Balanced
  <2>1. Balanced(q)
    BY DEF StatsBalance, Balanced
  <2>2. CASE \E w \in Workers : WorkerStep(w)
    BY <2>1, <2>2, BalanceStep
  <2>3. ASSUME NEW w \in Workers, NEW p \in Paths, Begin(w, p) PROVE Balanced(q)'
    <3>1. mode' = mode /\ Goto(w, "l1") /\ stats' = stats /\ pc[w] = "idle"
      BY <2>3 DEF Begin
    <3>2. /\ At(q, {"l2"})' = At(q, {"l2"}) - Here(q, w, "idle", {"l2"}) + Here(q, w, "l1", {"l2"})
          /\ At(q, {"l3"})' = At(q, {"l3"}) - Here(q, w, "idle", {"l3"}) + Here(q, w, "l1", {"l3"})
          /\ At(q, {"load", "put2"})' = At(q, {"load", "put2"}) - Here(q, w, "idle", {"load", "put2"})
                                         + Here(q, w, "l1", {"load", "put2"})
          /\ At(q, {"l2"}) \in Nat /\ At(q, {"l3"}) \in Nat /\ At(q, {"load", "put2"}) \in Nat
      BY <3>1, AtStep
    <3> QED
      BY <2>1, <3>1, <3>2 DEF Balanced, Here
  <2>4. CASE UNCHANGED <<mode, pc, stats>>
    BY <2>1, <2>4 DEF Balanced, At
  <2> QED
    BY <2>2, <2>3, <2>4
    DEF Next, Bypass, DaemonPersist, DaemonInsert, DaemonRestart, Preload, PreloadHashes, PreloadSkips,
        PreloadInserts, FileChanges, L1Forgets, L2Forgets,
        vars, workerVars, boundVars
<1> QED
  BY <1>1, <1>2, TypeInit, TypeStep, PTL DEF Spec
=============================================================================
