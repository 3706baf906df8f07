---------------------------- MODULE TieredStore ----------------------------
(***************************************************************************)
(* get_or_load over the three tiers of the nuclide cache                   *)
(* (nuclide_cache/mod.rs), the clients of the cache daemons (l3_remote.rs) *)
(* and the daemons (bin/nuclide_cache_server.rs).                          *)
(*                                                                         *)
(* Worker threads of several processes ask for the kernels of a file.  The *)
(* key is made of the file's path and the hash of its content; the kernels *)
(* are loaded, later, from whatever the file then holds.  L1 is a map of   *)
(* each process, L2 a directory all of them share, indexed by the hash     *)
(* alone, and each daemon a map indexed by the whole key with a directory  *)
(* of its own.  No lock is held from one tier to the next.                 *)
(*                                                                         *)
(* A tier keeps the promise of module LossyStore (see L1Memory for L1 and  *)
(* DiskStore for the files): here it is a map some of whose entries        *)
(* disappear.  The policy and the temperature of a request are those of    *)
(* one run: a content stands for a file content parsed under them.         *)
(***************************************************************************)
EXTENDS Integers, FiniteSets

CONSTANTS
  Procs, Workers,
  NPeers,                  \* daemons, asked in this order
  Paths, Contents,
  DaemonPath,              \* where the daemons see the file they preload
  Failed,                  \* the kernels load_fn makes of a file it cannot open
  None,
  Modes,                   \* the configurations to check
  MaxChanges               \* bound of the model: how often files are replaced

Kernels == Contents \cup {Failed}
Keys == [path : Paths, hash : Contents]
Peers == 1..NPeers

(***************************************************************************)
(* A mode gives the process of each worker (procOf) and says whether the   *)
(* daemons are started with --data (preloads), whether files change only while     *)
(* no call is under way on them and no daemon preloads them (quiet),       *)
(* whether opening a file that exists may fail (faulty), and how many      *)
(* calls the model makes (calls).                                          *)
(***************************************************************************)
ASSUME TieredAssumption ==
  /\ NPeers \in Nat /\ MaxChanges \in Nat
  /\ DaemonPath \in Paths
  /\ Failed \notin Contents /\ None \notin Kernels
  /\ IsFiniteSet(Workers)
  /\ \A m \in Modes : /\ m.procOf \in [Workers -> Procs]
                      /\ m.calls \in Nat
                      /\ {m.preloads, m.quiet, m.faulty} \subseteq BOOLEAN

VARIABLES
  mode,     \* the configuration, fixed at the start
  file,     \* what each path holds
  pc,       \* where each worker is in get_or_load
  key,      \* the NuclideKey of its request
  at,       \* the peer it turns to next
  val,      \* the kernels it carries
  got,      \* the kernels its last call returned, or None
  l1, l2,   \* the tiers
  peer,     \* the map of each daemon
  disk,     \* the cache_dir of each daemon
  serving,  \* each daemon has preloaded and listens
  hashed,   \* the hash of the file a daemon is preloading, or None
  msgs,     \* PUTs on their way, or persisted and not yet in the map
  stats,    \* CacheStats of each process
  calls, changes,  \* calls made and files changed, for the bounds
  seen,     \* history: the contents the file has had during the call
  torn      \* history: the hashes whose file changed before the call or the preload
            \* that had computed them was over

workerVars == <<pc, key, at, val, got>>
tierVars == <<l1, l2>>
startVars == <<serving, hashed>>
daemonVars == <<peer, disk, msgs, startVars>>
boundVars == <<mode, torn, calls, changes>>
vars == <<file, workerVars, tierVars, daemonVars, stats, boundVars, seen>>

NoStats == [l1_hits |-> 0, l1_misses |-> 0, l2_hits |-> 0, l2_misses |-> 0,
            l3_hits |-> 0, l3_misses |-> 0, puts |-> 0]

Init ==
  /\ mode \in Modes
  /\ file \in [Paths -> Contents]
  /\ pc = [w \in Workers |-> "idle"]
  /\ key \in [Workers -> {CHOOSE k \in Keys : TRUE}]
  /\ at = [w \in Workers |-> 1]
  /\ val = [w \in Workers |-> None] /\ got = [w \in Workers |-> None]
  /\ l1 = [q \in Procs |-> [k \in Keys |-> None]]
  /\ l2 = [c \in Contents |-> None]
  /\ peer = [n \in Peers |-> [k \in Keys |-> None]]
  /\ disk = [n \in Peers |-> [c \in Contents |-> None]]
  /\ msgs = {}
  /\ serving = [n \in Peers |-> ~ mode.preloads] /\ hashed = [n \in Peers |-> None]
  /\ stats = [q \in Procs |-> NoStats]
  /\ calls = 0 /\ changes = 0
  /\ seen = [w \in Workers |-> {}]
  /\ torn = {}

Goto(w, l) == pc' = [pc EXCEPT ![w] = l]

\* Relaxed atomics: the counters of a process, each advanced in one step.
Count(w, c) == stats' = [stats EXCEPT ![mode.procOf[w]][c] = @ + 1]

\* The call of w returns v.
Return(w, v) ==
  /\ Goto(w, "idle")
  /\ got' = [got EXCEPT ![w] = v]
  /\ val' = [val EXCEPT ![w] = None]
  /\ at' = [at EXCEPT ![w] = 1]
  /\ seen' = [seen EXCEPT ![w] = {}]
  /\ UNCHANGED key

\* What load_fn makes of path p now.
Loaded(p) == {file[p]} \cup IF mode.faulty THEN {Failed} ELSE {}

-----------------------------------------------------------------------------
\* Mutant: the key is the path alone.
KeyWithoutHash(p) == [path |-> p, hash |-> CHOOSE c \in Contents : TRUE]

\* NuclideKey::from_inputs
KeyOf(p) == [path |-> p, hash |-> file[p]]

Begin(w, p) ==
  /\ pc[w] = "idle" /\ calls < mode.calls
  /\ calls' = calls + 1
  /\ key' = [key EXCEPT ![w] = KeyOf(p)]
  /\ got' = [got EXCEPT ![w] = None]
  /\ seen' = [seen EXCEPT ![w] = {file[p]}]
  /\ Goto(w, "l1")
  /\ UNCHANGED <<file, at, val, mode, torn, tierVars, daemonVars, stats, changes>>

\* The file cannot be hashed: the loader is called and nothing is cached.
Bypass(w, p) ==
  /\ mode.faulty
  /\ pc[w] = "idle" /\ calls < mode.calls
  /\ calls' = calls + 1
  /\ \E v \in Loaded(p) : got' = [got EXCEPT ![w] = v]
  /\ UNCHANGED <<file, pc, key, at, val, mode, torn, tierVars, daemonVars, stats, changes, seen>>

-----------------------------------------------------------------------------
(***************************************************************************)
(* TieredStore::try_get                                                    *)
(***************************************************************************)
InL1(w) == l1[mode.procOf[w]][key[w]]

L1Hit(w) ==
  /\ pc[w] = "l1" /\ InL1(w) # None
  /\ Count(w, "l1_hits")
  /\ Return(w, InL1(w))
  /\ UNCHANGED <<file, tierVars, daemonVars, boundVars>>

L1Miss(w) ==
  /\ pc[w] = "l1" /\ InL1(w) = None
  /\ Count(w, "l1_misses")
  /\ Goto(w, "l2")
  /\ UNCHANGED <<file, key, at, val, got, tierVars, daemonVars, boundVars, seen>>

\* L2 is asked by file name, which leaves the path out.
L2Hit(w) ==
  /\ pc[w] = "l2" /\ l2[key[w].hash] # None
  /\ Count(w, "l2_hits")
  /\ val' = [val EXCEPT ![w] = l2[key[w].hash]]
  /\ Goto(w, "fill1")
  /\ UNCHANGED <<file, key, at, got, tierVars, daemonVars, boundVars, seen>>

\* Mutant: a miss of L2 is not counted.
L2MissUncounted(w) ==
  /\ pc[w] = "l2" /\ l2[key[w].hash] = None
  /\ Goto(w, "l3")
  /\ UNCHANGED <<file, key, at, val, got, tierVars, daemonVars, stats, boundVars, seen>>

L2Miss(w) ==
  /\ pc[w] = "l2" /\ l2[key[w].hash] = None
  /\ Count(w, "l2_misses")
  /\ Goto(w, "l3")
  /\ UNCHANGED <<file, key, at, val, got, tierVars, daemonVars, boundVars, seen>>

\* What a daemon's map answers to a GET.
PeerAnswer(n, k) == peer[n][k]

L3Hit(w) ==
  /\ pc[w] = "l3" /\ at[w] <= NPeers
  /\ PeerAnswer(at[w], key[w]) # None
  /\ Count(w, "l3_hits")
  /\ val' = [val EXCEPT ![w] = PeerAnswer(at[w], key[w])]
  /\ at' = [at EXCEPT ![w] = 1]
  /\ Goto(w, "fill2")
  /\ UNCHANGED <<file, key, got, tierVars, daemonVars, boundVars, seen>>

\* Mutant: a peer that does not answer is asked again.
L3SamePeer(w) ==
  /\ pc[w] = "l3" /\ at[w] <= NPeers
  /\ UNCHANGED vars

\* The peer has no entry, is down, or does not answer in time: the next one.
L3NextPeer(w) ==
  /\ pc[w] = "l3" /\ at[w] <= NPeers
  /\ at' = [at EXCEPT ![w] = @ + 1]
  /\ UNCHANGED <<file, pc, key, val, got, tierVars, daemonVars, stats, boundVars, seen>>

L3Miss(w) ==
  /\ pc[w] = "l3" /\ at[w] > NPeers
  /\ Count(w, "l3_misses")
  /\ at' = [at EXCEPT ![w] = 1]
  /\ Goto(w, "load")
  /\ UNCHANGED <<file, key, val, got, tierVars, daemonVars, boundVars, seen>>

Fill2(w) ==
  /\ pc[w] = "fill2"
  /\ l2' = [l2 EXCEPT ![key[w].hash] = val[w]]
  /\ Goto(w, "fill1")
  /\ UNCHANGED <<file, key, at, val, got, l1, daemonVars, stats, boundVars, seen>>

\* l1.put, then the value is returned: after a hit below, and at the end of put.
PutL1AndReturn(w) ==
  /\ l1' = [l1 EXCEPT ![mode.procOf[w]][key[w]] = val[w]]
  /\ Return(w, val[w])
  /\ UNCHANGED <<file, l2, daemonVars, stats, boundVars>>

Fill1(w) == pc[w] = "fill1" /\ PutL1AndReturn(w)

-----------------------------------------------------------------------------
(***************************************************************************)
(* load_fn, then TieredStore::put                                          *)
(***************************************************************************)
Load(w) ==
  /\ pc[w] = "load"
  /\ \E v \in Loaded(key[w].path) : val' = [val EXCEPT ![w] = v]
  /\ Goto(w, "put2")
  /\ UNCHANGED <<file, key, at, got, tierVars, daemonVars, stats, boundVars, seen>>

Put2(w) ==
  /\ pc[w] = "put2"
  /\ Count(w, "puts")
  /\ l2' = [l2 EXCEPT ![key[w].hash] = val[w]]
  /\ Goto(w, "put3")
  /\ UNCHANGED <<file, key, at, val, got, l1, daemonVars, boundVars, seen>>

Message(n, k, v, stage) == [to |-> n, key |-> k, val |-> v, stage |-> stage]

\* The client waits for the reply no longer than its timeout: the daemon may take
\* the message before or after it has gone on.
Put3(w) ==
  /\ pc[w] = "put3" /\ at[w] <= NPeers /\ serving[at[w]]
  /\ msgs' = msgs \cup {Message(at[w], key[w], val[w], "sent")}
  /\ at' = [at EXCEPT ![w] = @ + 1]
  /\ UNCHANGED <<file, pc, key, val, got, tierVars, peer, disk, startVars, stats, boundVars, seen>>

\* The peer cannot be reached.
Put3Fails(w) ==
  /\ pc[w] = "put3" /\ at[w] <= NPeers
  /\ at' = [at EXCEPT ![w] = @ + 1]
  /\ UNCHANGED <<file, pc, key, val, got, tierVars, daemonVars, stats, boundVars, seen>>

Put1(w) == pc[w] = "put3" /\ at[w] > NPeers /\ PutL1AndReturn(w)

-----------------------------------------------------------------------------
(***************************************************************************)
(* The daemons.  Each connection has a thread of its own.                  *)
(***************************************************************************)
\* OP_PUT: persist_put, outside the lock; a failure to write is ignored.
DaemonPersist(m) ==
  /\ m \in msgs /\ m.stage = "sent"
  /\ \/ disk' = [disk EXCEPT ![m.to][m.key.hash] = m.val]
     \/ UNCHANGED disk
  /\ msgs' = (msgs \ {m}) \cup {[m EXCEPT !.stage = "persisted"]}
  /\ UNCHANGED <<file, workerVars, tierVars, peer, startVars, stats, boundVars, seen>>

DaemonInsert(m) ==
  /\ m \in msgs /\ m.stage = "persisted"
  /\ peer' = [peer EXCEPT ![m.to][m.key] = m.val]
  /\ msgs' = msgs \ {m}
  /\ UNCHANGED <<file, workerVars, tierVars, disk, startVars, stats, boundVars, seen>>

\* The daemon stops and starts: its map is lost and its connections are cut.  With
\* --data it preloads before it listens.
DaemonRestart(n) ==
  /\ peer' = [peer EXCEPT ![n] = [k \in Keys |-> None]]
  /\ msgs' = {m \in msgs : m.to # n}
  /\ serving' = [serving EXCEPT ![n] = ~ mode.preloads]
  /\ hashed' = [hashed EXCEPT ![n] = None]
  /\ UNCHANGED <<file, workerVars, tierVars, disk, stats, boundVars, seen>>

\* eager_preload makes the key of the file it finds.
PreloadHashes(n) ==
  /\ ~ serving[n] /\ hashed[n] = None
  /\ hashed' = [hashed EXCEPT ![n] = KeyOf(DaemonPath).hash]
  /\ UNCHANGED <<file, workerVars, tierVars, peer, disk, msgs, serving, stats, boundVars, seen>>

Listen(n) ==
  /\ serving' = [serving EXCEPT ![n] = TRUE]
  /\ hashed' = [hashed EXCEPT ![n] = None]

\* The file cannot be hashed, or its kernels not encoded: it is skipped.
PreloadSkips(n) ==
  /\ mode.faulty /\ ~ serving[n]
  /\ Listen(n)
  /\ UNCHANGED <<file, workerVars, tierVars, peer, disk, msgs, stats, boundVars, seen>>

\* What stands under that key in the directory; if nothing does, or it is corrupt, the
\* kernels of what the file holds by now.
Preloaded(n) == ({disk[n][hashed[n]]} \ {None}) \cup Loaded(DaemonPath)

\* They are persisted, if that succeeds, and inserted.  Nobody can ask the daemon before
\* it listens, so a stop between the two is a stop after both or before.
PreloadInserts(n) ==
  /\ ~ serving[n] /\ hashed[n] # None
  /\ \E v \in Preloaded(n) :
       /\ peer' = [peer EXCEPT ![n][[path |-> DaemonPath, hash |-> hashed[n]]] = v]
       /\ \/ disk' = [disk EXCEPT ![n][hashed[n]] = v]
          \/ UNCHANGED disk
  /\ Listen(n)
  /\ UNCHANGED <<file, workerVars, tierVars, msgs, stats, boundVars, seen>>

-----------------------------------------------------------------------------
(***************************************************************************)
(* The world around.                                                       *)
(***************************************************************************)
\* A user replaces a data file.
FileChanges(p, c) ==
  /\ changes < MaxChanges /\ c # file[p]
  /\ mode.quiet => /\ \A w \in Workers : pc[w] = "idle" \/ key[w].path # p
                   /\ p = DaemonPath => \A n \in Peers : hashed[n] = None
  /\ file' = [file EXCEPT ![p] = c]
  /\ changes' = changes + 1
  /\ seen' = [w \in Workers |-> IF pc[w] # "idle" /\ key[w].path = p
                                  THEN seen[w] \cup {c} ELSE seen[w]]
  /\ torn' = torn \cup {key[w].hash : w \in {x \in Workers : pc[x] # "idle" /\ key[x].path = p}}
                  \cup (IF p = DaemonPath THEN {hashed[n] : n \in Peers} \ {None} ELSE {})
  /\ UNCHANGED <<mode, workerVars, tierVars, daemonVars, stats, calls>>

\* L1 evicts an entry.
L1Forgets(q, k) ==
  /\ l1[q][k] # None
  /\ l1' = [l1 EXCEPT ![q][k] = None]
  /\ UNCHANGED <<file, workerVars, l2, daemonVars, stats, boundVars, seen>>

\* A cache file is removed, wiped with /tmp, or found torn.
L2Forgets(c) ==
  /\ l2[c] # None
  /\ l2' = [l2 EXCEPT ![c] = None]
  /\ UNCHANGED <<file, workerVars, l1, daemonVars, stats, boundVars, seen>>

TryGet(w) ==
  \/ L1Hit(w) \/ L1Miss(w) \/ L2Hit(w) \/ L2Miss(w)
  \/ L3Hit(w) \/ L3NextPeer(w) \/ L3Miss(w) \/ Fill2(w) \/ Fill1(w)

LoadAndPut(w) == Load(w) \/ Put2(w) \/ Put3(w) \/ Put3Fails(w) \/ Put1(w)

WorkerStep(w) == TryGet(w) \/ LoadAndPut(w)

Preload(n) == PreloadHashes(n) \/ PreloadSkips(n) \/ PreloadInserts(n)

Next ==
  \/ \E w \in Workers : WorkerStep(w) \/ \E p \in Paths : Begin(w, p) \/ Bypass(w, p)
  \/ \E m \in msgs : DaemonPersist(m) \/ DaemonInsert(m)
  \/ \E n \in Peers : DaemonRestart(n) \/ Preload(n)
  \/ \E p \in Paths, c \in Contents : FileChanges(p, c)
  \/ \E q \in Procs, k \in Keys : L1Forgets(q, k)
  \/ \E c \in Contents : L2Forgets(c)

Spec == Init /\ [][Next]_vars

(***************************************************************************)
(* A worker inside a call is a running thread: connecting and each socket  *)
(* operation time out, so every step of it comes to an end.  Nothing is    *)
(* assumed of the daemons.                                                 *)
(***************************************************************************)
FairSpec == Spec /\ \A w \in Workers : WF_vars(WorkerStep(w))

-----------------------------------------------------------------------------
Labels == {"idle", "l1", "l2", "l3", "fill2", "fill1", "load", "put2", "put3"}
Slots == Kernels \cup {None}
Messages == [to : Peers, key : Keys, val : Slots, stage : {"sent", "persisted"}]

TypeOK ==
  /\ mode \in Modes
  /\ file \in [Paths -> Contents]
  /\ pc \in [Workers -> Labels]
  /\ key \in [Workers -> Keys]
  /\ at \in [Workers -> 1..(NPeers + 1)]
  /\ val \in [Workers -> Slots] /\ got \in [Workers -> Slots]
  /\ l1 \in [Procs -> [Keys -> Slots]] /\ l2 \in [Contents -> Slots]
  /\ peer \in [Peers -> [Keys -> Slots]] /\ disk \in [Peers -> [Contents -> Slots]]
  /\ msgs \subseteq Messages
  /\ serving \in [Peers -> BOOLEAN] /\ hashed \in [Peers -> Contents \cup {None}]
  /\ stats \in [Procs -> [DOMAIN NoStats -> Nat]]
  /\ calls \in Nat /\ changes \in Nat
  /\ seen \in [Workers -> SUBSET Contents]
  /\ torn \in SUBSET Contents

\* What may stand under the hash of content c: besides its own kernels those of a failed
\* load, and those of any content once a file changed between that hash and its load.
Under(c) ==
  {None, c} \cup (IF mode.faulty THEN {Failed} ELSE {}) \cup (IF c \in torn THEN Contents ELSE {})

\* Every tier, wherever the entry came from, holds under a key the kernels of the
\* content that key hashes: what key.rs:2-4 promises across library swaps.  A file
\* replaced between the hash and the load, of a call or of a daemon's preload, is the
\* one way to break it.
KeyNamesContent ==
  /\ \A q \in Procs, k \in Keys : l1[q][k] \in Under(k.hash)
  /\ \A c \in Contents : l2[c] \in Under(c)
  /\ \A n \in Peers, k \in Keys : peer[n][k] \in Under(k.hash)
  /\ \A n \in Peers, c \in Contents : disk[n][c] \in Under(c)

At(q, labels) == Cardinality({w \in Workers : mode.procOf[w] = q /\ pc[w] \in labels})

\* The counters account for every request: what a tier missed, the next one has
\* been asked or is being asked, and what all missed is loaded and put once.
StatsBalance ==
  \A q \in Procs :
    LET s == stats[q] IN
    /\ s.l1_misses = s.l2_hits + s.l2_misses + At(q, {"l2"})
    /\ s.l2_misses = s.l3_hits + s.l3_misses + At(q, {"l3"})
    /\ s.l3_misses = s.puts + At(q, {"load", "put2"})

\* Every call of get_or_load returns, whichever peers answer.
CallsEnd == \A w \in Workers : pc[w] # "idle" ~> pc[w] = "idle"

trusted == mode.quiet /\ ~ mode.faulty

Source == INSTANCE KernelSource

\* As long as files can be read and are replaced only while neither a call nor a preload
\* reads them, get_or_load answers as the loader would have during the call.
ImplementsKernelSource == Source!SourceSpec
=============================================================================
