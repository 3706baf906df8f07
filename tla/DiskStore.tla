----------------------------- MODULE DiskStore -----------------------------
(***************************************************************************)
(* The disk tier of the nuclide cache (nuclide_cache/l2_disk.rs) and the   *)
(* persistence of the cache daemon (bin/nuclide_cache_server.rs), which    *)
(* use the same scheme: create <name>.tmp, write it, rename it to          *)
(* <name>.nuc; read <name>.nuc whole and believe it only if its header     *)
(* (length and hash) matches.  Names of different keys never meet, so the  *)
(* module follows one name.                                                *)
(*                                                                         *)
(* Processes and threads share nothing but the directory.  Files have      *)
(* POSIX semantics: a name links an inode, a descriptor keeps its inode    *)
(* and its own offset, creating truncates the inode the name links, and    *)
(* a write beyond the end leaves a hole.  An encoded kernel is a sequence  *)
(* of blocks, and one write or read call moves one block.                  *)
(***************************************************************************)
EXTENDS Integers, Sequences, SequencesExt

CONSTANTS
  Procs,       \* threads of the clients (L2DiskStore) and of the daemon
  Daemons,     \* those of the daemon
  Writers,     \* the ones that put under this name
  Puts,        \* the puts they make, each at most once
  Kernels,     \* what is put: encoded kernels
  Kernel,      \* Kernel[u]: what put u writes
  Blocks,      \* blocks of each encoded kernel
  Inodes,
  None

ASSUME DiskAssumption ==
  /\ Daemons \subseteq Procs /\ Writers \subseteq Procs
  /\ Kernel \in [Puts -> Kernels]
  /\ Blocks \in [Kernels -> Nat \ {0}]
  /\ None \notin Inodes \cup Puts \cup Kernels

VARIABLES
  final,   \* the inode <name>.nuc links, or None
  tmp,     \* the inode <name>.tmp links, or None
  data,    \* data[i]: the blocks of inode i
  pc,      \* where each process is
  fd,      \* the inode of its open descriptor, or None
  buf,     \* the blocks it has moved through it: their number is the offset
  job,     \* the put it makes, or None
  hit,     \* the blocks its last try_get decoded, or None
  begun,   \* history: the puts begun
  over,    \* history: the puts that returned or died
  before,  \* history: before[u], the puts that were over when u began
  stale,   \* history: the puts another put, begun after their end, has replaced
  fresh,   \* history: fresh[p], the puts a try_get of p may answer with
  powered  \* history: the host has not lost power

nameVars == <<final, tmp>>
procVars == <<pc, fd, buf, job>>
histVars == <<begun, over, before, stale, fresh, powered>>
vars == <<final, tmp, data, pc, fd, buf, job, hit, histVars>>

Block(k, n) == <<k, n>>
Hole == <<None, 0>>

\* encode_nuclide_kernels: header and payload as one stream.
Encoded(k) == [n \in 1..Blocks[k] |-> Block(k, n)]

\* Mutant: magic and version are looked at, the hash of the payload is not.
DecodesUnhashed(bytes, k) ==
  Len(bytes) >= Blocks[k] /\ bytes[1] = Block(k, 1)

\* read_header_and_payload accepts: the length and the hash in the header are those
\* of the payload.  Bytes after the payload are not looked at.
Decodes(bytes, k) == IsPrefix(Encoded(k), bytes)

Readable(bytes) == \E k \in Kernels : Decodes(bytes, k)

Whole(i) == Readable(data[i])

Init ==
  /\ final = None /\ tmp = None
  /\ data = [i \in Inodes |-> <<>>]
  /\ pc = [p \in Procs |-> "idle"]
  /\ fd = [p \in Procs |-> None]
  /\ buf = [p \in Procs |-> <<>>]
  /\ job = [p \in Procs |-> None]
  /\ hit = [p \in Procs |-> None]
  /\ begun = {} /\ over = {} /\ stale = {}
  /\ before = [u \in Puts |-> {}]
  /\ fresh = [p \in Procs |-> {}]
  /\ powered = TRUE

Linked == {final, tmp} \cup {fd[p] : p \in Procs}

\* Process p leaves its call and the names link fi and tm: its descriptor is closed,
\* and an inode without a name or a descriptor is gone.
Return(p, fi, tm) ==
  /\ pc' = [pc EXCEPT ![p] = "idle"]
  /\ fd' = [fd EXCEPT ![p] = None]
  /\ buf' = [buf EXCEPT ![p] = <<>>]
  /\ job' = [job EXCEPT ![p] = None]
  /\ final' = fi /\ tmp' = tm
  /\ data' = [i \in Inodes |-> IF i \in Linked' THEN data[i] ELSE <<>>]

\* History: the put of p is over, and replaced those it knew to be over if it took.
EndPut(p, took) ==
  /\ over' = over \cup ({job[p]} \ {None})
  /\ stale' = IF took THEN stale \cup before[job[p]] ELSE stale
  /\ UNCHANGED <<begun, before, fresh, powered>>

-----------------------------------------------------------------------------
(***************************************************************************)
(* put, and the daemon's persist_put.                                      *)
(***************************************************************************)
BeginPut(p, u) ==
  /\ pc[p] = "idle" /\ p \in Writers /\ u \notin begun
  /\ job' = [job EXCEPT ![p] = u]
  /\ pc' = [pc EXCEPT ![p] = "write"]
  /\ begun' = begun \cup {u}
  /\ before' = [before EXCEPT ![u] = over]
  /\ fresh' = [q \in Procs |-> IF pc[q] = "read" THEN fresh[q] \cup {u} ELSE fresh[q]]
  /\ UNCHANGED <<buf, hit, over, stale, powered>>

\* Mutant: the entry is created under its final name.
PutCreateInPlace(p, u) ==
  /\ BeginPut(p, u)
  /\ \E i \in IF final # None THEN {final} ELSE Inodes \ Linked :
       /\ final' = i /\ tmp' = i
       /\ data' = [data EXCEPT ![i] = <<>>]
       /\ fd' = [fd EXCEPT ![p] = i]

\* File::create: a new inode, or the one the name already links, truncated.
PutCreate(p, u) ==
  /\ BeginPut(p, u)
  /\ \E i \in IF tmp # None THEN {tmp} ELSE Inodes \ Linked :
       /\ tmp' = i
       /\ data' = [data EXCEPT ![i] = <<>>]
       /\ fd' = [fd EXCEPT ![p] = i]
  /\ UNCHANGED final

\* The bytes d once block b is written at offset n.
WriteAt(d, n, b) ==
  [m \in 1..(IF n > Len(d) THEN n ELSE Len(d)) |->
     IF m = n THEN b ELSE IF m <= Len(d) THEN d[m] ELSE Hole]

PutWrite(p) ==
  LET n == Len(buf[p]) + 1
      b == Block(Kernel[job[p]], n)
  IN
  /\ pc[p] = "write" /\ n <= Blocks[Kernel[job[p]]]
  /\ data' = [data EXCEPT ![fd[p]] = WriteAt(@, n, b)]
  /\ buf' = [buf EXCEPT ![p] = Append(@, b)]
  /\ UNCHANGED <<nameVars, pc, fd, job, hit, histVars>>

\* The disk is full, say: the client leaves its .tmp, the daemon removes it.
PutWriteFails(p) ==
  /\ pc[p] = "write"
  /\ IF p \in Daemons
       THEN /\ pc' = [pc EXCEPT ![p] = "cleanup"]
            /\ UNCHANGED <<nameVars, data, fd, buf, job, histVars>>
       ELSE Return(p, final, tmp) /\ EndPut(p, FALSE)
  /\ UNCHANGED hit

\* drop(f), then rename.
PutRename(p) ==
  /\ pc[p] = "write" /\ Len(buf[p]) = Blocks[Kernel[job[p]]]
  /\ tmp # None
  /\ Return(p, tmp, None)
  /\ EndPut(p, TRUE)
  /\ UNCHANGED hit

\* Another writer has renamed the file, or the rename fails: only the client cleans up.
PutRenameFails(p) ==
  /\ pc[p] = "write" /\ Len(buf[p]) = Blocks[Kernel[job[p]]]
  /\ IF p \in Daemons
       THEN Return(p, final, tmp) /\ EndPut(p, FALSE)
       ELSE /\ pc' = [pc EXCEPT ![p] = "cleanup"]
            /\ UNCHANGED <<nameVars, data, fd, buf, job, histVars>>
  /\ UNCHANGED hit

\* remove_file(&tmp_path): whatever inode the name links by now.
PutCleanup(p) ==
  /\ pc[p] = "cleanup"
  /\ Return(p, final, None)
  /\ EndPut(p, FALSE)
  /\ UNCHANGED hit

-----------------------------------------------------------------------------
(***************************************************************************)
(* try_get, and the daemon's read of a .nuc file at startup.               *)
(***************************************************************************)
GetOpen(p) ==
  /\ pc[p] = "idle" /\ final # None
  /\ pc' = [pc EXCEPT ![p] = "read"]
  /\ fd' = [fd EXCEPT ![p] = final]
  /\ hit' = [hit EXCEPT ![p] = None]
  /\ fresh' = [fresh EXCEPT ![p] = begun \ stale]
  /\ UNCHANGED <<nameVars, data, buf, job, begun, over, before, stale, powered>>

GetRead(p) ==
  LET n == Len(buf[p]) + 1 IN
  /\ pc[p] = "read" /\ n <= Len(data[fd[p]])
  /\ buf' = [buf EXCEPT ![p] = Append(@, data[fd[p]][n])]
  /\ UNCHANGED <<nameVars, data, pc, fd, job, hit, histVars>>

\* End of file: a hit, or a torn or corrupt entry, which the client removes.
GetDecode(p) ==
  /\ pc[p] = "read" /\ Len(buf[p]) >= Len(data[fd[p]])
  /\ \/ /\ Readable(buf[p])
        /\ \E k \in Kernels :
             /\ Decodes(buf[p], k)
             /\ hit' = [hit EXCEPT ![p] = SubSeq(buf[p], 1, Blocks[k])]
        /\ Return(p, final, tmp)
     \/ /\ ~ Readable(buf[p]) /\ p \in Daemons
        /\ Return(p, final, tmp)
        /\ UNCHANGED hit
     \/ /\ ~ Readable(buf[p]) /\ p \notin Daemons
        /\ pc' = [pc EXCEPT ![p] = "remove"]
        /\ UNCHANGED <<nameVars, data, fd, buf, job, hit>>
  /\ UNCHANGED histVars

\* remove_file(&path): whatever inode the name links by now.
GetRemove(p) ==
  /\ pc[p] = "remove"
  /\ Return(p, None, tmp)
  /\ UNCHANGED <<hit, histVars>>

-----------------------------------------------------------------------------
\* A process dies inside a call: its descriptor is closed, its .tmp stays.
Crash(p) ==
  /\ pc[p] # "idle"
  /\ Return(p, final, tmp)
  /\ EndPut(p, FALSE)
  /\ UNCHANGED hit

\* The first n blocks of d.
Prefix(d, n) == SubSeq(d, 1, IF n < Len(d) THEN n ELSE Len(d))

\* The host loses power: all die, and of each file only a prefix had reached the
\* disk.  (Losing a rename as well is the same as losing power before it.)
PowerLoss ==
  /\ pc' = [p \in Procs |-> "idle"]
  /\ fd' = [p \in Procs |-> None]
  /\ buf' = [p \in Procs |-> <<>>]
  /\ job' = [p \in Procs |-> None]
  /\ \E f, t \in UNION {0..Blocks[k] : k \in Kernels} :
       data' = [i \in Inodes |-> IF i = final THEN Prefix(data[i], f)
                                 ELSE IF i = tmp THEN Prefix(data[i], t) ELSE <<>>]
  /\ over' = begun
  /\ powered' = FALSE
  /\ UNCHANGED <<nameVars, hit, begun, before, stale, fresh>>

PutStep(p) ==
  \/ \E u \in Puts : PutCreate(p, u)
  \/ PutWrite(p) \/ PutWriteFails(p) \/ PutRename(p) \/ PutRenameFails(p) \/ PutCleanup(p)

GetStep(p) == GetOpen(p) \/ GetRead(p) \/ GetDecode(p) \/ GetRemove(p)

Next == (\E p \in Procs : PutStep(p) \/ GetStep(p) \/ Crash(p)) \/ PowerLoss

Spec == Init /\ [][Next]_vars

-----------------------------------------------------------------------------
BlockSet == (Kernels \X (Nat \ {0})) \cup {Hole}

TypeOK ==
  /\ final \in Inodes \cup {None} /\ tmp \in Inodes \cup {None}
  /\ data \in [Inodes -> Seq(BlockSet)]
  /\ pc \in [Procs -> {"idle", "write", "cleanup", "read", "remove"}]
  /\ fd \in [Procs -> Inodes \cup {None}]
  /\ buf \in [Procs -> Seq(BlockSet)]
  /\ job \in [Procs -> Puts \cup {None}]
  /\ hit \in [Procs -> Seq(BlockSet) \cup {None}]
  /\ \A p \in Procs : pc[p] = "idle" <=> fd[p] = None

\* What try_get returns is one kernel, whole, of a put that no later one had replaced
\* when it opened the file: through racing writers that share the .tmp, readers of
\* half-written or truncated files, crashes and power loss, a kernel put together
\* from two writes or an outdated one is never believed (l2_disk.rs try_get).
HitIsFresh ==
  \A p \in Procs : hit[p] # None => \E u \in fresh[p] : hit[p] = Encoded(Kernel[u])

\* No two puts have overlapped: each began after the other's end.
OneAtATime == \A u, v \in begun : u = v \/ u \in before[v] \/ v \in before[u]

\* What "Atomic writes via .tmp + rename" (l2_disk.rs:3) amounts to: through failed
\* writes, failed renames and writers that died half-way, the published name links
\* nothing or a whole entry, as long as no two puts overlap and the power stays on.
PublishedWhole == OneAtATime /\ powered /\ final # None => Whole(final)
=============================================================================
