-------------------------- MODULE DiskStoreProofs ---------------------------
(***************************************************************************)
(* Theorems about the files of the disk tier, for every number of clients  *)
(* and daemons, of puts and of kernels of any length.                      *)
(*                                                                         *)
(* A block names the kernel it is of, and so the puts it may come from.    *)
(* That a hit is fresh is shown by following which puts the blocks of an   *)
(* inode may come from: those under the temporary name from puts that no   *)
(* put has seen end before it began, those under the published name from   *)
(* puts that are not stale, those a reader meets from the puts its answer  *)
(* may come from.                                                          *)
(***************************************************************************)
EXTENDS DiskStore, SequenceTheorems, TLAPS

-----------------------------------------------------------------------------
\* Bytes.

\* Every block of b is a hole or comes, at its offset, from a put of X.
From(b, X) ==
  \A m \in 1..Len(b) : b[m] = Hole \/ \E u \in X : b[m] = Block(Kernel[u], m)

LEMMA FromEmpty == ASSUME NEW X PROVE From(<<>>, X)
  BY DEF From

LEMMA FromMore ==
  ASSUME NEW b, NEW X, NEW Y, From(b, X), X \subseteq Y
  PROVE  From(b, Y)
  BY DEF From

LEMMA KernelOf ==
  ASSUME NEW u \in Puts
  PROVE  Kernel[u] \in Kernels /\ Blocks[Kernel[u]] \in Nat \ {0}
  BY DiskAssumption

LEMMA BlockTyped ==
  ASSUME NEW u \in Puts, NEW n \in Nat \ {0}
  PROVE  Block(Kernel[u], n) \in BlockSet
  BY KernelOf DEF Block, BlockSet

LEMMA WriteTyped ==
  ASSUME NEW d \in Seq(BlockSet), NEW n \in Nat \ {0}, NEW b \in BlockSet
  PROVE  /\ WriteAt(d, n, b) \in Seq(BlockSet)
         /\ Len(WriteAt(d, n, b)) = IF n > Len(d) THEN n ELSE Len(d)
         /\ \A m \in 1..Len(WriteAt(d, n, b)) :
              WriteAt(d, n, b)[m] = IF m = n THEN b ELSE IF m <= Len(d) THEN d[m] ELSE Hole
<1> DEFINE l == IF n > Len(d) THEN n ELSE Len(d)
           e(m) == IF m = n THEN b ELSE IF m <= Len(d) THEN d[m] ELSE Hole
<1>1. l \in Nat
  OBVIOUS
<1>2. Hole \in BlockSet
  BY DEF BlockSet
<1>3. \A m \in 1..l : e(m) \in BlockSet
  BY <1>2
<1>4. WriteAt(d, n, b) = [m \in 1..l |-> e(m)]
  BY DEF WriteAt
<1> HIDE DEF l, e
<1>5. [m \in 1..l |-> e(m)] \in Seq(BlockSet)
  BY <1>1, <1>3, IsASeq
<1>6. Len([m \in 1..l |-> e(m)]) = l
  BY <1>1
<1> QED
  BY <1>4, <1>5, <1>6 DEF l, e

LEMMA WriteFrom ==
  ASSUME NEW d \in Seq(BlockSet), NEW n \in Nat \ {0}, NEW X \in SUBSET Puts, NEW u \in X, From(d, X)
  PROVE  From(WriteAt(d, n, Block(Kernel[u], n)), X)
<1> DEFINE w == WriteAt(d, n, Block(Kernel[u], n))
<1>1. \A m \in 1..Len(w) :
        w[m] = IF m = n THEN Block(Kernel[u], n) ELSE IF m <= Len(d) THEN d[m] ELSE Hole
  BY BlockTyped, WriteTyped
<1> HIDE DEF w
<1>2. \A m \in 1..Len(w) : w[m] = Hole \/ \E v \in X : w[m] = Block(Kernel[v], m)
  <2> SUFFICES ASSUME NEW m \in 1..Len(w)
               PROVE  w[m] = Hole \/ \E v \in X : w[m] = Block(Kernel[v], m)
    OBVIOUS
  <2>1. CASE m = n
    BY <1>1, <2>1
  <2>2. CASE m # n /\ m <= Len(d)
    <3>1. w[m] = d[m] /\ m \in 1..Len(d)
      BY <1>1, <2>2
    <3> QED
      BY <3>1 DEF From
  <2>3. CASE m # n /\ ~ (m <= Len(d))
    BY <1>1, <2>3
  <2> QED
    BY <2>1, <2>2, <2>3
<1> QED
  BY <1>2 DEF From, w

LEMMA AppendFrom ==
  ASSUME NEW b \in Seq(BlockSet), NEW d \in Seq(BlockSet), NEW X,
         From(b, X), From(d, X), Len(b) + 1 <= Len(d)
  PROVE  From(Append(b, d[Len(b) + 1]), X)
<1> DEFINE n == Len(b) + 1
           a == Append(b, d[n])
<1>1. n \in 1..Len(d) /\ Len(b) \in Nat
  OBVIOUS
<1>2. d[n] \in BlockSet
  BY <1>1
<1>3. Len(a) = n /\ a[n] = d[n] /\ \A m \in 1..Len(b) : a[m] = b[m]
  BY <1>2, AppendProperties
<1>4. \A m \in 1..n : m = n \/ m \in 1..Len(b)
  BY <1>1
<1> HIDE DEF a
<1> QED
  BY <1>1, <1>3, <1>4 DEF From, a

LEMMA PrefixFrom ==
  ASSUME NEW b \in Seq(BlockSet), NEW n \in Nat, NEW X, From(b, X)
  PROVE  Prefix(b, n) \in Seq(BlockSet) /\ From(Prefix(b, n), X)
<1> DEFINE l == IF n < Len(b) THEN n ELSE Len(b)
           s == SubSeq(b, 1, l)
<1>1. l \in Nat /\ l <= Len(b)
  OBVIOUS
<1>2. Prefix(b, n) = s
  BY DEF Prefix
<1> HIDE DEF l
<1>3. \A i \in 1..l : b[i] \in BlockSet
  BY <1>1
<1>4. s \in Seq(BlockSet) /\ Len(s) = l /\ \A i \in 1..l : s[i] = b[i]
  BY <1>1, <1>3
<1> HIDE DEF s
<1> QED
  BY <1>1, <1>2, <1>4 DEF From

-----------------------------------------------------------------------------
\* Entries.

LEMMA EncodedBlocks ==
  ASSUME NEW k \in Kernels
  PROVE  /\ Encoded(k) \in Seq(BlockSet)
         /\ Len(Encoded(k)) = Blocks[k] /\ Blocks[k] \in Nat \ {0}
         /\ \A n \in 1..Blocks[k] : Encoded(k)[n] = Block(k, n)
<1>1. Blocks[k] \in Nat \ {0}
  BY DiskAssumption
<1>2. \A n \in 1..Blocks[k] : Block(k, n) \in BlockSet
  BY DEF Block, BlockSet
<1> QED
  BY <1>1, <1>2, IsASeq DEF Encoded

LEMMA DecodedBlocks ==
  ASSUME NEW b \in Seq(BlockSet), NEW k \in Kernels, Decodes(b, k)
  PROVE  /\ Blocks[k] <= Len(b)
         /\ \A n \in 1..Blocks[k] : b[n] = Block(k, n)
         /\ SubSeq(b, 1, Blocks[k]) = Encoded(k)
<1> DEFINE e == Encoded(k)
           l == Blocks[k]
<1>1. e \in Seq(BlockSet) /\ Len(e) = l /\ l \in Nat \ {0} /\ \A n \in 1..l : e[n] = Block(k, n)
  BY EncodedBlocks
<1>2. Len(e) <= Len(b) /\ SubSeq(e, 1, Len(e)) = SubSeq(b, 1, Len(e))
  BY DEF Decodes, IsPrefix
<1> HIDE DEF e, l
<1>3. SubSeq(e, 1, l) = e
  BY <1>1, SubSeqFull
<1>4. SubSeq(b, 1, l) = e
  BY <1>1, <1>2, <1>3
<1>5. \A n \in 1..l : SubSeq(b, 1, l)[n] = b[n]
  BY <1>1, <1>2
<1> QED
  BY <1>1, <1>2, <1>4, <1>5 DEF e, l

LEMMA EncodedDecodes ==
  ASSUME NEW b \in Seq(BlockSet), NEW k \in Kernels, Len(b) = Blocks[k],
         \A n \in 1..Blocks[k] : b[n] = Block(k, n)
  PROVE  b = Encoded(k) /\ Readable(b)
<1>1. /\ Encoded(k) \in Seq(BlockSet)
      /\ Len(Encoded(k)) = Blocks[k] /\ Blocks[k] \in Nat \ {0}
      /\ \A n \in 1..Blocks[k] : Encoded(k)[n] = Block(k, n)
  BY EncodedBlocks
<1>2. b = Encoded(k)
  BY <1>1, SeqEqual
<1>3. IsPrefix(Encoded(k), Encoded(k))
  BY <1>1 DEF IsPrefix
<1> QED
  BY <1>2, <1>3 DEF Readable, Decodes

-----------------------------------------------------------------------------
(***************************************************************************)
(* The invariant.                                                          *)
(***************************************************************************)
HistTypes ==
  /\ begun \subseteq Puts /\ over \subseteq begun /\ stale \subseteq over
  /\ before \in [Puts -> SUBSET Puts]
  /\ fresh \in [Procs -> SUBSET Puts]
  /\ powered \in BOOLEAN

\* What a put saw end is over; a stale put was seen to end by a later one.
Past ==
  /\ \A u \in Puts : before[u] \subseteq over
  /\ \A v \in stale : \E u \in begun : v \in before[u]

Putting(p) == pc[p] \in {"write", "cleanup"}

\* A process that puts has a put of its own, begun and not over; one outside a call has
\* read and written nothing.
Jobs ==
  /\ \A p \in Procs : pc[p] = "idle" => buf[p] = <<>>
  /\ \A p \in Procs : IF Putting(p) THEN job[p] \in begun /\ job[p] \notin over
                                    ELSE job[p] = None
  /\ \A p, q \in Procs : Putting(p) /\ Putting(q) /\ job[p] = job[q] => p = q

\* The puts no put saw end before it began.
Unsuperseded == {v \in begun : \A u \in begun : v \notin before[u]}

NamesSound ==
  /\ tmp # None => From(data[tmp], Unsuperseded)
  /\ final # None => From(data[final], begun \ stale)

ReadersSound ==
  \A p \in Procs : pc[p] = "read" =>
    /\ From(data[fd[p]], fresh[p]) /\ From(buf[p], fresh[p])
    /\ begun \ over \subseteq fresh[p]

\* What a put has written so far is what the temporary name links, and nothing else.
Undisturbed(p) ==
  /\ tmp # None /\ fd[p] = tmp /\ data[tmp] = buf[p]
  /\ Len(buf[p]) <= Blocks[Kernel[job[p]]]
  /\ \A m \in 1..Len(buf[p]) : buf[p][m] = Block(Kernel[job[p]], m)

Quiet == OneAtATime /\ powered

Published ==
  Quiet => /\ final # None => Whole(final) /\ final # tmp
           /\ \A p \in Procs : pc[p] = "write" => Undisturbed(p)

IInv ==
  /\ TypeOK /\ HistTypes /\ Past /\ Jobs
  /\ NamesSound /\ ReadersSound /\ HitIsFresh /\ Published

-----------------------------------------------------------------------------
LEMMA InvInit == Init => IInv
<1> SUFFICES ASSUME Init PROVE IInv
  OBVIOUS
<1>1. <<>> \in Seq(BlockSet)
  OBVIOUS
<1>2. TypeOK
  BY <1>1 DEF Init, TypeOK
<1>3. HistTypes /\ Past /\ Jobs
  BY DEF Init, HistTypes, Past, Jobs, Putting
<1>4. NamesSound /\ ReadersSound /\ HitIsFresh /\ Published
  BY DEF Init, NamesSound, ReadersSound, HitIsFresh, Published
<1> QED
  BY <1>2, <1>3, <1>4 DEF IInv

LEMMA InvStutter == IInv /\ UNCHANGED vars => IInv'
<1> SUFFICES ASSUME IInv, UNCHANGED vars PROVE IInv'
  OBVIOUS
<1>1. TypeOK' /\ HistTypes' /\ Past' /\ Jobs'
  BY DEF IInv, TypeOK, HistTypes, Past, Jobs, Putting, vars, histVars
<1>2. NamesSound' /\ ReadersSound' /\ HitIsFresh'
  BY DEF IInv, NamesSound, ReadersSound, HitIsFresh, Unsuperseded, vars, histVars
<1>3. Published'
  BY DEF IInv, Published, Quiet, OneAtATime, Whole, Undisturbed, vars, histVars
<1> QED
  BY <1>1, <1>2, <1>3 DEF IInv

\* With one put at a time, two processes that put are the same.
LEMMA OneWriter ==
  ASSUME IInv, OneAtATime, NEW p \in Procs, NEW q \in Procs, Putting(p), Putting(q)
  PROVE  p = q
<1>1. /\ job[p] \in begun /\ job[p] \notin over /\ job[p] \in Puts
      /\ job[q] \in begun /\ job[q] \notin over /\ job[q] \in Puts
  BY DEF IInv, Jobs, HistTypes
<1>2. job[p] \notin before[job[q]] /\ job[q] \notin before[job[p]]
  BY <1>1 DEF IInv, Past
<1>3. job[p] = job[q]
  BY <1>1, <1>2 DEF OneAtATime
<1> QED
  BY <1>3 DEF IInv, Jobs

-----------------------------------------------------------------------------
(***************************************************************************)
(* A process leaves its call: the names may have changed, the descriptor   *)
(* is closed, and inodes nobody links are gone.                            *)
(***************************************************************************)
LEMMA ReturnData ==
  ASSUME IInv, NEW p \in Procs, NEW fi, NEW tm, Return(p, fi, tm)
  PROVE  \A i \in Inodes : /\ data'[i] = data[i] \/ data'[i] = <<>>
                           /\ i \in {fi, tm} => data'[i] = data[i]
                           /\ \A q \in Procs : q # p /\ fd[q] = i => data'[i] = data[i]
<1>1. fi = final' /\ tm = tmp' /\ fd' = [fd EXCEPT ![p] = None]
  BY DEF Return
<1>2. \A i \in Inodes : i \in {fi, tm} => i \in Linked'
  BY <1>1 DEF Linked
<1>3. \A i \in Inodes, q \in Procs : q # p /\ fd[q] = i => i \in Linked'
  BY <1>1 DEF IInv, TypeOK, Linked
<1>4. \A i \in Inodes : data'[i] = IF i \in Linked' THEN data[i] ELSE <<>>
  BY DEF Return
<1> QED
  BY <1>2, <1>3, <1>4

LEMMA ReturnType ==
  ASSUME IInv, NEW p \in Procs,
         NEW fi \in Inodes \cup {None}, NEW tm \in Inodes \cup {None}, Return(p, fi, tm),
         hit' \in [Procs -> Seq(BlockSet) \cup {None}]
  PROVE  TypeOK'
<1>1. <<>> \in Seq(BlockSet)
  OBVIOUS
<1>2. data' \in [Inodes -> Seq(BlockSet)]
  BY <1>1 DEF IInv, TypeOK, Return
<1>3. /\ pc' = [pc EXCEPT ![p] = "idle"] /\ fd' = [fd EXCEPT ![p] = None]
      /\ buf' = [buf EXCEPT ![p] = <<>>] /\ job' = [job EXCEPT ![p] = None]
      /\ final' = fi /\ tmp' = tm
  BY DEF Return
<1>4. buf' \in [Procs -> Seq(BlockSet)]
  BY <1>1, <1>3 DEF IInv, TypeOK
<1> QED
  BY <1>2, <1>3, <1>4 DEF IInv, TypeOK

\* The history after a return: the put of p, if any, is over.
PutOver(p, took) ==
  \/ EndPut(p, took)
  \/ job[p] = None /\ ~ took /\ UNCHANGED histVars

LEMMA ReturnHist ==
  ASSUME IInv, NEW p \in Procs, NEW fi, NEW tm, Return(p, fi, tm),
         NEW took \in BOOLEAN, PutOver(p, took), took => Putting(p)
  PROVE  /\ HistTypes' /\ Past' /\ Jobs'
         /\ begun' = begun /\ before' = before /\ fresh' = fresh /\ powered' = powered
         /\ over' = over \cup ({job[p]} \ {None})
         /\ stale' = IF took THEN stale \cup before[job[p]] ELSE stale
<1>1. /\ begun' = begun /\ before' = before /\ fresh' = fresh /\ powered' = powered
      /\ over' = over \cup ({job[p]} \ {None})
      /\ stale' = IF took THEN stale \cup before[job[p]] ELSE stale
  BY DEF PutOver, EndPut, histVars
<1>2. took => job[p] \in begun /\ job[p] \in Puts
  BY DEF IInv, Jobs, HistTypes
<1>3. job[p] # None => job[p] \in begun
  BY DEF IInv, Jobs
<1>4. HistTypes'
  <2>1. over' \subseteq begun'
    BY <1>1, <1>3 DEF IInv, HistTypes
  <2>2. stale' \subseteq over'
    BY <1>1, <1>2 DEF IInv, HistTypes, Past
  <2> QED
    BY <1>1, <2>1, <2>2 DEF IInv, HistTypes
<1>5. Past'
  BY <1>1, <1>2 DEF IInv, Past
<1>6. Jobs'
  <2>1. /\ pc' = [pc EXCEPT ![p] = "idle"] /\ job' = [job EXCEPT ![p] = None]
        /\ buf' = [buf EXCEPT ![p] = <<>>]
    BY DEF Return
  <2>2. ASSUME NEW q \in Procs, q # p
        PROVE  pc'[q] = pc[q] /\ job'[q] = job[q] /\ buf'[q] = buf[q]
               /\ (Putting(q) => job[q] # job[p])
    <3>1. pc'[q] = pc[q] /\ job'[q] = job[q] /\ buf'[q] = buf[q]
      BY <2>1, <2>2 DEF IInv, TypeOK
    <3>2. CASE Putting(p)
      BY <2>2, <3>1, <3>2 DEF IInv, Jobs
    <3>3. CASE ~ Putting(p)
      <4>1. job[p] = None
        BY <3>3 DEF IInv, Jobs
      <4>2. Putting(q) => job[q] \in Puts
        BY DEF IInv, Jobs, HistTypes
      <4> QED
        BY <3>1, <4>1, <4>2, DiskAssumption
    <3> QED
      BY <3>2, <3>3
  <2>3. pc'[p] = "idle" /\ job'[p] = None /\ buf'[p] = <<>>
    BY <2>1 DEF IInv, TypeOK
  <2> QED
    BY <1>1, <2>2, <2>3 DEF IInv, Jobs, Putting
<1> QED
  BY <1>1, <1>4, <1>5, <1>6

LEMMA UnsupersededNotStale ==
  ASSUME IInv, NEW u \in begun
  PROVE  Unsuperseded \subseteq begun \ (stale \cup before[u])
  BY DEF IInv, Past, Unsuperseded

\* What a process may do to the names when it leaves: take its file to the published
\* name, remove one of the names, or nothing.
Leaves(p, fi, tm, took) ==
  /\ tm \in {tmp, None}
  /\ IF took THEN fi = tmp /\ tm = None ELSE fi \in {final, None}
  /\ tm # tmp => Putting(p)
  /\ took => /\ pc[p] = "write" /\ tmp # None
             /\ Len(buf[p]) = Blocks[Kernel[job[p]]]

LEMMA ReturnSound ==
  ASSUME IInv, NEW p \in Procs, NEW fi, NEW tm, Return(p, fi, tm),
         NEW took \in BOOLEAN, PutOver(p, took), Leaves(p, fi, tm, took)
  PROVE  NamesSound' /\ ReadersSound'
<1>1. took => Putting(p)
  BY DEF Leaves, Putting
<1>2. /\ begun' = begun /\ before' = before /\ fresh' = fresh
      /\ over' = over \cup ({job[p]} \ {None})
      /\ stale' = IF took THEN stale \cup before[job[p]] ELSE stale
  BY <1>1, ReturnHist
<1>3. final' = fi /\ tmp' = tm /\ pc' = [pc EXCEPT ![p] = "idle"]
      /\ fd' = [fd EXCEPT ![p] = None] /\ buf' = [buf EXCEPT ![p] = <<>>]
  BY DEF Return
<1>4. tmp \in Inodes \cup {None} /\ final \in Inodes \cup {None}
  BY DEF IInv, TypeOK
<1>5. \A i \in Inodes : /\ i \in {fi, tm} => data'[i] = data[i]
                        /\ \A q \in Procs : q # p /\ fd[q] = i => data'[i] = data[i]
  BY ReturnData
<1>6. tmp' # None => From(data'[tmp'], Unsuperseded')
  <2> SUFFICES ASSUME tmp' # None PROVE From(data'[tmp'], Unsuperseded')
    OBVIOUS
  <2>1. tmp' = tmp /\ tmp \in Inodes /\ tm = tmp
    BY <1>3, <1>4 DEF Leaves
  <2>2. data'[tmp'] = data[tmp]
    BY <1>5, <2>1
  <2>3. Unsuperseded' = Unsuperseded
    BY <1>2 DEF Unsuperseded
  <2> QED
    BY <2>1, <2>2, <2>3 DEF IInv, NamesSound
<1>7. final' # None => From(data'[final'], begun' \ stale')
  <2> SUFFICES ASSUME final' # None PROVE From(data'[final'], begun \ stale')
    BY <1>2
  <2>1. CASE took
    <3>1. fi = tmp /\ tmp \in Inodes /\ job[p] \in begun
      BY <1>1, <1>4, <2>1 DEF Leaves, IInv, Jobs
    <3>2. data'[final'] = data[tmp]
      BY <1>3, <1>5, <3>1
    <3>3. From(data[tmp], Unsuperseded)
      BY <1>3, <3>1 DEF IInv, NamesSound
    <3>4. Unsuperseded \subseteq begun \ stale'
      BY <1>2, <2>1, <3>1, UnsupersededNotStale
    <3> QED
      BY <3>2, <3>3, <3>4, FromMore
  <2>2. CASE ~ took
    <3>1. fi = final /\ final \in Inodes
      BY <1>3, <1>4, <2>2 DEF Leaves
    <3>2. data'[final'] = data[final]
      BY <1>3, <1>5, <3>1
    <3> QED
      BY <1>2, <1>3, <2>2, <3>1, <3>2 DEF IInv, NamesSound
  <2> QED
    BY <2>1, <2>2
<1>8. ReadersSound'
  <2> SUFFICES ASSUME NEW q \in Procs, pc'[q] = "read"
               PROVE  /\ From(data'[fd'[q]], fresh'[q]) /\ From(buf'[q], fresh'[q])
                      /\ begun' \ over' \subseteq fresh'[q]
    BY DEF ReadersSound
  <2>1. q # p /\ pc[q] = "read" /\ fd'[q] = fd[q] /\ buf'[q] = buf[q]
    BY <1>3 DEF IInv, TypeOK
  <2>2. fd[q] \in Inodes
    BY <2>1 DEF IInv, TypeOK
  <2>3. data'[fd'[q]] = data[fd[q]]
    BY <1>5, <2>1, <2>2
  <2>4. /\ From(data[fd[q]], fresh[q]) /\ From(buf[q], fresh[q])
        /\ begun \ over \subseteq fresh[q]
    BY <2>1 DEF IInv, ReadersSound
  <2>5. begun' \ over' \subseteq begun \ over
    BY <1>2
  <2> QED
    BY <1>2, <2>1, <2>3, <2>4, <2>5
<1> QED
  BY <1>6, <1>7, <1>8 DEF NamesSound

LEMMA ReturnPublished ==
  ASSUME IInv, NEW p \in Procs, NEW fi, NEW tm, Return(p, fi, tm),
         NEW took \in BOOLEAN, PutOver(p, took), Leaves(p, fi, tm, took)
  PROVE  Published'
<1>1. took => Putting(p)
  BY DEF Leaves, Putting
<1>2. begun' = begun /\ before' = before /\ powered' = powered
  BY <1>1, ReturnHist
<1>3. final' = fi /\ tmp' = tm /\ pc' = [pc EXCEPT ![p] = "idle"]
      /\ fd' = [fd EXCEPT ![p] = None] /\ buf' = [buf EXCEPT ![p] = <<>>]
      /\ job' = [job EXCEPT ![p] = None]
  BY DEF Return
<1>4. tmp \in Inodes \cup {None} /\ final \in Inodes \cup {None}
  BY DEF IInv, TypeOK
<1>5. \A i \in Inodes : i \in {fi, tm} => data'[i] = data[i]
  BY ReturnData
<1> SUFFICES ASSUME Quiet'
             PROVE  /\ final' # None => Whole(final)' /\ final' # tmp'
                    /\ \A q \in Procs : pc'[q] = "write" => Undisturbed(q)'
  BY DEF Published
<1>6. Quiet /\ OneAtATime
  BY <1>2 DEF Quiet, OneAtATime
<1>7. final # None => Whole(final) /\ final # tmp
  BY <1>6 DEF IInv, Published
<1>8. final' # None => Whole(final)' /\ final' # tmp'
  <2> SUFFICES ASSUME final' # None PROVE Readable(data'[final']) /\ final' # tmp'
    BY DEF Whole
  <2>1. CASE took
    <3>1. /\ fi = tmp /\ tm = None /\ tmp \in Inodes /\ pc[p] = "write"
          /\ Len(buf[p]) = Blocks[Kernel[job[p]]]
      BY <1>4, <2>1 DEF Leaves
    <3>2. data'[final'] = data[tmp]
      BY <1>3, <1>5, <3>1
    <3>3. Undisturbed(p)
      BY <1>6, <3>1 DEF IInv, Published
    <3>4. job[p] \in Puts
      BY <1>1, <2>1 DEF IInv, Jobs, HistTypes
    <3>5. buf[p] \in Seq(BlockSet)
      BY DEF IInv, TypeOK
    <3>6. Readable(buf[p])
      BY <3>1, <3>3, <3>4, <3>5, KernelOf, EncodedDecodes DEF Undisturbed
    <3>7. data[tmp] = buf[p]
      BY <3>3 DEF Undisturbed
    <3> QED
      BY <1>3, <3>1, <3>2, <3>6, <3>7, DiskAssumption
  <2>2. CASE ~ took
    <3>1. fi = final /\ final \in Inodes
      BY <1>3, <1>4, <2>2 DEF Leaves
    <3>2. data'[final'] = data[final]
      BY <1>3, <1>5, <3>1
    <3>3. final' # tmp'
      BY <1>3, <1>7, <3>1, DiskAssumption DEF Leaves
    <3> QED
      BY <1>7, <3>1, <3>2, <3>3, DiskAssumption DEF Whole
  <2> QED
    BY <2>1, <2>2
<1>9. ASSUME NEW q \in Procs, pc'[q] = "write" PROVE Undisturbed(q)'
  <2>1. q # p /\ pc[q] = "write" /\ fd'[q] = fd[q] /\ buf'[q] = buf[q] /\ job'[q] = job[q]
    BY <1>3, <1>9 DEF IInv, TypeOK
  <2>2. Putting(q)
    BY <2>1 DEF Putting
  <2>3. ~ Putting(p)
    BY <1>6, <2>1, <2>2, OneWriter
  <2>4. tm = tmp
    BY <2>3 DEF Leaves
  <2>5. Undisturbed(q)
    BY <1>6, <2>1 DEF IInv, Published
  <2>6. data'[tmp'] = data[tmp]
    BY <1>3, <1>4, <1>5, <2>4, <2>5 DEF Undisturbed
  <2> QED
    BY <1>3, <2>1, <2>4, <2>5, <2>6 DEF Undisturbed
<1> QED
  BY <1>8, <1>9

LEMMA ReturnInv ==
  ASSUME IInv, NEW p \in Procs,
         NEW fi \in Inodes \cup {None}, NEW tm \in Inodes \cup {None}, Return(p, fi, tm),
         NEW took \in BOOLEAN, PutOver(p, took), Leaves(p, fi, tm, took),
         hit' \in [Procs -> Seq(BlockSet) \cup {None}], HitIsFresh'
  PROVE  IInv'
<1>1. took => Putting(p)
  BY DEF Leaves, Putting
<1> QED
  BY <1>1, ReturnType, ReturnHist, ReturnSound, ReturnPublished DEF IInv

\* The same when the call answers nothing.
LEMMA ReturnSilent ==
  ASSUME IInv, NEW p \in Procs,
         NEW fi \in Inodes \cup {None}, NEW tm \in Inodes \cup {None}, Return(p, fi, tm),
         NEW took \in BOOLEAN, PutOver(p, took), Leaves(p, fi, tm, took), hit' = hit
  PROVE  IInv'
<1>1. took => Putting(p)
  BY DEF Leaves, Putting
<1>2. fresh' = fresh
  BY <1>1, ReturnHist
<1>3. hit' \in [Procs -> Seq(BlockSet) \cup {None}] /\ HitIsFresh'
  BY <1>2 DEF IInv, TypeOK, HitIsFresh
<1> QED
  BY <1>3, ReturnInv

-----------------------------------------------------------------------------
(***************************************************************************)
(* put.                                                                    *)
(***************************************************************************)
\* A put not yet over is superseded by none and not stale, and a reader may meet it.
LEMMA RunningPut ==
  ASSUME IInv, NEW u \in begun, u \notin over
  PROVE  /\ u \in Puts /\ u \in Unsuperseded /\ u \in begun \ stale
         /\ \A q \in Procs : pc[q] = "read" => u \in fresh[q]
<1>1. u \in Puts /\ u \notin stale
  BY DEF IInv, HistTypes
<1>2. \A v \in begun : u \notin before[v]
  BY DEF IInv, HistTypes, Past
<1> QED
  BY <1>1, <1>2 DEF IInv, Unsuperseded, ReadersSound

LEMMA PutCreateInv ==
  ASSUME IInv, NEW p \in Procs, NEW u \in Puts, PutCreate(p, u)
  PROVE  IInv'
<1>1. PICK i \in IF tmp # None THEN {tmp} ELSE Inodes \ Linked :
        /\ tmp' = i
        /\ data' = [data EXCEPT ![i] = <<>>]
        /\ fd' = [fd EXCEPT ![p] = i]
  BY DEF PutCreate
<1>2. /\ pc[p] = "idle" /\ u \notin begun
      /\ job' = [job EXCEPT ![p] = u] /\ pc' = [pc EXCEPT ![p] = "write"]
      /\ begun' = begun \cup {u} /\ before' = [before EXCEPT ![u] = over]
      /\ fresh' = [q \in Procs |-> IF pc[q] = "read" THEN fresh[q] \cup {u} ELSE fresh[q]]
      /\ buf' = buf /\ hit' = hit /\ over' = over /\ stale' = stale /\ powered' = powered
      /\ final' = final
  BY DEF PutCreate, BeginPut
<1>3. i \in Inodes /\ (i = tmp \/ i \notin Linked)
  BY <1>1 DEF IInv, TypeOK
<1>4. <<>> \in Seq(BlockSet) /\ u # None /\ buf[p] = <<>>
  BY <1>2, DiskAssumption DEF IInv, Jobs
<1>5. \A j \in Inodes : data'[j] = IF j = i THEN <<>> ELSE data[j]
  BY <1>1, <1>3 DEF IInv, TypeOK
<1>6. \A q \in Procs : /\ pc'[q] = IF q = p THEN "write" ELSE pc[q]
                       /\ job'[q] = IF q = p THEN u ELSE job[q]
                       /\ fd'[q] = IF q = p THEN i ELSE fd[q]
  BY <1>1, <1>2 DEF IInv, TypeOK
<1>7. \A v \in Puts : before'[v] = IF v = u THEN over ELSE before[v]
  BY <1>2 DEF IInv, HistTypes
<1>8. TypeOK'
  <2>1. data' \in [Inodes -> Seq(BlockSet)]
    BY <1>1, <1>3, <1>4 DEF IInv, TypeOK
  <2>2. fd' \in [Procs -> Inodes \cup {None}] /\ job' \in [Procs -> Puts \cup {None}]
    BY <1>1, <1>2, <1>3 DEF IInv, TypeOK
  <2>3. pc' \in [Procs -> {"idle", "write", "cleanup", "read", "remove"}]
    BY <1>2 DEF IInv, TypeOK
  <2>4. \A q \in Procs : pc'[q] = "idle" <=> fd'[q] = None
    BY <1>3, <1>6, DiskAssumption DEF IInv, TypeOK
  <2> QED
    BY <1>1, <1>2, <1>3, <2>1, <2>2, <2>3, <2>4 DEF IInv, TypeOK
<1>9. HistTypes'
  BY <1>2 DEF IInv, HistTypes
<1>10. Past'
  <2>1. \A v \in Puts : before'[v] \subseteq over'
    BY <1>2, <1>7 DEF IInv, Past
  <2>2. \A v \in begun : before'[v] = before[v]
    BY <1>2, <1>7 DEF IInv, HistTypes
  <2> QED
    BY <1>2, <2>1, <2>2 DEF IInv, Past
<1>11. Jobs'
  <2>1. u \notin over
    BY <1>2 DEF IInv, HistTypes
  <2>2. \A q \in Procs : q # p /\ Putting(q) => job[q] # u
    BY <1>2 DEF IInv, Jobs
  <2>3. \A q \in Procs : Putting(q)' <=> (q = p \/ Putting(q))
    BY <1>6 DEF Putting
  <2> QED
    BY <1>2, <1>6, <2>1, <2>2, <2>3 DEF IInv, Jobs
<1>12. NamesSound'
  <2>1. From(data'[tmp'], Unsuperseded')
    BY <1>1, <1>3, <1>5, FromEmpty
  <2>2. final' # None => From(data'[final'], begun' \ stale')
    <3> SUFFICES ASSUME final # None PROVE From(data'[final], begun' \ stale)
      BY <1>2
    <3>1. final \in Inodes /\ From(data[final], begun \ stale)
      BY DEF IInv, TypeOK, NamesSound
    <3>2. begun \ stale \subseteq begun' \ stale
      BY <1>2
    <3>3. From(data[final], begun' \ stale)
      BY <3>1, <3>2, FromMore
    <3> QED
      BY <1>5, <3>1, <3>3, FromEmpty
  <2> QED
    BY <2>1, <2>2 DEF NamesSound
<1>13. ReadersSound'
  <2> SUFFICES ASSUME NEW q \in Procs, pc'[q] = "read"
               PROVE  /\ From(data'[fd'[q]], fresh'[q]) /\ From(buf'[q], fresh'[q])
                      /\ begun' \ over' \subseteq fresh'[q]
    BY DEF ReadersSound
  <2>1. q # p /\ pc[q] = "read" /\ fd'[q] = fd[q] /\ fresh'[q] = fresh[q] \cup {u}
    BY <1>2, <1>6
  <2>2. fd[q] \in Inodes
    BY <2>1 DEF IInv, TypeOK
  <2>3. /\ From(data[fd[q]], fresh[q]) /\ From(buf[q], fresh[q])
        /\ begun \ over \subseteq fresh[q]
    BY <2>1 DEF IInv, ReadersSound
  <2>4. From(data[fd[q]], fresh'[q]) /\ From(buf[q], fresh'[q])
    BY <2>1, <2>3, FromMore
  <2>5. From(data'[fd[q]], fresh'[q])
    BY <1>5, <2>2, <2>4, FromEmpty
  <2> QED
    BY <1>2, <2>1, <2>3, <2>4, <2>5
<1>14. HitIsFresh'
  BY <1>2 DEF IInv, HitIsFresh
<1>15. Published'
  <2> SUFFICES ASSUME Quiet'
               PROVE  /\ final' # None => Whole(final)' /\ final' # tmp'
                      /\ \A q \in Procs : pc'[q] = "write" => Undisturbed(q)'
    BY DEF Published
  <2>1. \A v \in begun : before'[v] = before[v] /\ v # u
    BY <1>2, <1>7 DEF IInv, HistTypes
  <2>2. Quiet
    BY <1>2, <2>1 DEF Quiet, OneAtATime
  <2>3. \A q \in Procs : ~ Putting(q)
    <3> SUFFICES ASSUME NEW q \in Procs, Putting(q) PROVE FALSE
      OBVIOUS
    <3>1. job[q] \in begun /\ job[q] \notin over
      BY DEF IInv, Jobs
    <3>2. job[q] \in before'[u] \/ u \in before'[job[q]]
      BY <1>2, <2>1, <3>1 DEF Quiet, OneAtATime
    <3>3. before[job[q]] \subseteq begun
      BY <3>1 DEF IInv, Past, HistTypes
    <3> QED
      BY <1>2, <1>7, <2>1, <3>1, <3>2, <3>3
  <2>4. final' # None => Whole(final)' /\ final' # tmp'
    <3> SUFFICES ASSUME final # None PROVE Readable(data'[final]) /\ final # i
      BY <1>1, <1>2 DEF Whole
    <3>1. Whole(final) /\ final # tmp
      BY <2>2 DEF IInv, Published
    <3>2. final \in Inodes /\ final # i
      BY <1>3, <3>1 DEF IInv, TypeOK, Linked
    <3> QED
      BY <1>5, <3>1, <3>2 DEF Whole
  <2>5. \A q \in Procs : pc'[q] = "write" => q = p
    BY <1>6, <2>3 DEF Putting
  <2>6. Undisturbed(p)'
    <3>1. Kernel[job'[p]] \in Kernels /\ Blocks[Kernel[job'[p]]] \in Nat
      BY <1>6, KernelOf
    <3>2. tmp' = i /\ i # None /\ fd'[p] = i /\ data'[i] = <<>> /\ buf'[p] = <<>>
      BY <1>1, <1>2, <1>3, <1>4, <1>5, <1>6, DiskAssumption
    <3>3. Len(<<>>) = 0
      OBVIOUS
    <3> QED
      BY <3>1, <3>2, <3>3 DEF Undisturbed
  <2> QED
    BY <2>4, <2>5, <2>6
<1> QED
  BY <1>8, <1>9, <1>10, <1>11, <1>12, <1>13, <1>14, <1>15 DEF IInv

\* One more block: of a put nobody has superseded, so whoever links the inode may hold it.
LEMMA PutWriteInv ==
  ASSUME IInv, NEW p \in Procs, PutWrite(p)
  PROVE  IInv'
<1> DEFINE u == job[p]
           n == Len(buf[p]) + 1
           b == Block(Kernel[u], n)
           i == fd[p]
           d == WriteAt(data[i], n, b)
<1>1. /\ pc[p] = "write" /\ n <= Blocks[Kernel[u]]
      /\ data' = [data EXCEPT ![i] = d]
      /\ buf' = [buf EXCEPT ![p] = Append(@, b)]
      /\ final' = final /\ tmp' = tmp /\ pc' = pc /\ fd' = fd /\ job' = job /\ hit' = hit
      /\ begun' = begun /\ over' = over /\ before' = before /\ stale' = stale
      /\ fresh' = fresh /\ powered' = powered
  BY DEF PutWrite, nameVars, histVars
<1>2. Putting(p) /\ u \in begun /\ u \notin over /\ u \in Puts
  BY <1>1 DEF Putting, IInv, Jobs, HistTypes
<1>3. i \in Inodes /\ buf[p] \in Seq(BlockSet) /\ n \in Nat \ {0}
  BY <1>1 DEF IInv, TypeOK
<1>4. data[i] \in Seq(BlockSet) /\ b \in BlockSet
  BY <1>2, <1>3, BlockTyped DEF IInv, TypeOK
<1> HIDE DEF n, b
<1>5. /\ d \in Seq(BlockSet)
      /\ Len(d) = IF n > Len(data[i]) THEN n ELSE Len(data[i])
      /\ \A m \in 1..Len(d) :
           d[m] = IF m = n THEN b ELSE IF m <= Len(data[i]) THEN data[i][m] ELSE Hole
  <2> DEFINE old == data[i]
  <2>1. old \in Seq(BlockSet)
    BY <1>4
  <2> HIDE DEF old
  <2>2. /\ WriteAt(old, n, b) \in Seq(BlockSet)
        /\ Len(WriteAt(old, n, b)) = IF n > Len(old) THEN n ELSE Len(old)
        /\ \A m \in 1..Len(WriteAt(old, n, b)) :
             WriteAt(old, n, b)[m] = IF m = n THEN b ELSE IF m <= Len(old) THEN old[m] ELSE Hole
    BY <1>3, <1>4, <2>1, WriteTyped
  <2> QED
    BY <2>2 DEF old
<1>6. Append(buf[p], b) \in Seq(BlockSet) /\ Len(Append(buf[p], b)) = n
      /\ Append(buf[p], b)[n] = b /\ \A m \in 1..Len(buf[p]) : Append(buf[p], b)[m] = buf[p][m]
  BY <1>3, <1>4, AppendProperties DEF n
<1>7. /\ u \in Unsuperseded /\ u \in begun \ stale
      /\ \A q \in Procs : pc[q] = "read" => u \in fresh[q]
  BY <1>2, RunningPut
<1>8. \A X \in SUBSET Puts, j \in Inodes : u \in X /\ From(data[j], X) => From(data'[j], X)
  <2> SUFFICES ASSUME NEW X \in SUBSET Puts, NEW j \in Inodes, u \in X, From(data[j], X)
               PROVE  From(data'[j], X)
    OBVIOUS
  <2>1. CASE j = i
    <3>1. data'[j] = d
      BY <1>1, <1>3, <2>1 DEF IInv, TypeOK
    <3>2. From(d, X)
      BY <1>2, <1>3, <1>4, <2>1, WriteFrom DEF b
    <3> QED
      BY <3>1, <3>2
  <2>2. CASE j # i
    BY <1>1, <2>2 DEF IInv, TypeOK
  <2> QED
    BY <2>1, <2>2
<1> HIDE DEF d
<1>9. \A q \in Procs : buf'[q] = IF q = p THEN Append(buf[p], b) ELSE buf[q]
  BY <1>1 DEF IInv, TypeOK
<1>10. TypeOK'
  <2>1. data' \in [Inodes -> Seq(BlockSet)] /\ buf' \in [Procs -> Seq(BlockSet)]
    BY <1>1, <1>5, <1>6 DEF IInv, TypeOK
  <2> QED
    BY <1>1, <2>1 DEF IInv, TypeOK
<1>11. HistTypes' /\ Past' /\ Jobs'
  BY <1>1, <1>9 DEF IInv, HistTypes, Past, Jobs, Putting
<1>12. NamesSound'
  <2>1. Unsuperseded' = Unsuperseded /\ Unsuperseded \in SUBSET Puts /\ begun \ stale \in SUBSET Puts
    BY <1>1 DEF Unsuperseded, IInv, HistTypes
  <2>2. tmp # None => tmp \in Inodes /\ From(data[tmp], Unsuperseded)
    BY DEF IInv, TypeOK, NamesSound
  <2>3. final # None => final \in Inodes /\ From(data[final], begun \ stale)
    BY DEF IInv, TypeOK, NamesSound
  <2>4. tmp # None => From(data'[tmp], Unsuperseded)
    BY <1>7, <1>8, <2>1, <2>2
  <2>5. final # None => From(data'[final], begun \ stale)
    BY <1>7, <1>8, <2>1, <2>3
  <2> QED
    BY <1>1, <2>1, <2>4, <2>5 DEF NamesSound
<1>13. ReadersSound'
  <2> SUFFICES ASSUME NEW q \in Procs, pc[q] = "read"
               PROVE  /\ From(data'[fd[q]], fresh[q]) /\ From(buf'[q], fresh[q])
                      /\ begun \ over \subseteq fresh[q]
    BY <1>1 DEF ReadersSound
  <2>1. /\ fd[q] \in Inodes /\ fresh[q] \in SUBSET Puts /\ q # p
    BY <1>1 DEF IInv, TypeOK, HistTypes
  <2>2. /\ From(data[fd[q]], fresh[q]) /\ From(buf[q], fresh[q])
        /\ begun \ over \subseteq fresh[q]
    BY DEF IInv, ReadersSound
  <2>3. From(data'[fd[q]], fresh[q])
    BY <1>7, <1>8, <2>1, <2>2
  <2> QED
    BY <1>9, <2>1, <2>2, <2>3
<1>14. HitIsFresh'
  BY <1>1 DEF IInv, HitIsFresh
<1>15. Published'
  <2> SUFFICES ASSUME Quiet'
               PROVE  /\ final' # None => Whole(final)' /\ final' # tmp'
                      /\ \A q \in Procs : pc'[q] = "write" => Undisturbed(q)'
    BY DEF Published
  <2>1. Quiet /\ OneAtATime
    BY <1>1 DEF Quiet, OneAtATime
  <2>2. Undisturbed(p) /\ (final # None => Whole(final) /\ final # tmp)
    BY <1>1, <2>1 DEF IInv, Published
  <2>3. i = tmp /\ tmp # None /\ data[i] = buf[p]
    BY <2>2 DEF Undisturbed
  <2>4. final # None => data'[final] = data[final]
    BY <1>1, <2>2, <2>3 DEF IInv, TypeOK
  <2>5. \A q \in Procs : pc'[q] = "write" => q = p
    BY <1>1, <1>2, <2>1, OneWriter DEF Putting
  <2>6. d = Append(buf[p], b)
    <3>1. /\ d \in Seq(BlockSet) /\ Len(d) = n
          /\ \A m \in 1..Len(d) :
               d[m] = IF m = n THEN b ELSE IF m <= Len(data[i]) THEN data[i][m] ELSE Hole
      <4>1. n > Len(data[i])
        BY <1>3, <2>3 DEF n
      <4> QED
        BY <1>5, <4>1
    <3>2. \A m \in 1..n : d[m] = Append(buf[p], b)[m]
      <4> SUFFICES ASSUME NEW m \in 1..n PROVE d[m] = Append(buf[p], b)[m]
        OBVIOUS
      <4>1. CASE m = n
        BY <1>3, <1>6, <3>1, <4>1
      <4>2. CASE m # n
        <5>1. m \in 1..Len(buf[p])
          BY <1>3, <4>2 DEF n
        <5> QED
          BY <1>6, <2>3, <3>1, <4>2, <5>1
      <4> QED
        BY <4>1, <4>2
    <3> QED
      BY <1>3, <1>6, <3>1, <3>2, SeqEqual
  <2>7. Undisturbed(p)'
    <3>1. data'[tmp] = Append(buf[p], b)
      BY <1>1, <1>3, <2>3, <2>6 DEF IInv, TypeOK
    <3>2. \A m \in 1..n : Append(buf[p], b)[m] = Block(Kernel[u], m)
      <4>1. \A m \in 1..n : m = n \/ m \in 1..Len(buf[p])
        BY <1>3 DEF n
      <4> QED
        BY <1>6, <2>2, <4>1 DEF Undisturbed, b
    <3> QED
      BY <1>1, <1>6, <1>9, <2>3, <3>1, <3>2 DEF Undisturbed
  <2> QED
    BY <1>1, <2>2, <2>4, <2>5, <2>7 DEF Whole
<1> QED
  BY <1>10, <1>11, <1>12, <1>13, <1>14, <1>15 DEF IInv

\* The process stays in its call, about to remove a name.
LEMMA AboutToRemove ==
  ASSUME IInv, NEW p \in Procs,
         \/ pc[p] = "write" /\ pc' = [pc EXCEPT ![p] = "cleanup"]
         \/ pc[p] = "read" /\ pc' = [pc EXCEPT ![p] = "remove"],
         UNCHANGED <<final, tmp, data, fd, buf, job, hit>>, UNCHANGED histVars
  PROVE  IInv'
<1>1. /\ \A q \in Procs : pc'[q] = pc[q] \/ (q = p /\ pc'[q] \in {"cleanup", "remove"})
      /\ \A q \in Procs : Putting(q)' <=> Putting(q)
      /\ \A q \in Procs : pc'[q] = "idle" <=> pc[q] = "idle"
  BY DEF IInv, TypeOK, Putting
<1>2. begun' = begun /\ over' = over /\ before' = before /\ stale' = stale
      /\ fresh' = fresh /\ powered' = powered
  BY DEF histVars
<1>3. TypeOK'
  BY <1>1 DEF IInv, TypeOK
<1>4. HistTypes' /\ Past' /\ Jobs'
  BY <1>1, <1>2 DEF IInv, HistTypes, Past, Jobs
<1>5. NamesSound' /\ HitIsFresh'
  BY <1>2 DEF IInv, NamesSound, HitIsFresh, Unsuperseded
<1>6. ReadersSound'
  BY <1>1, <1>2 DEF IInv, ReadersSound
<1>7. Published'
  BY <1>1, <1>2 DEF IInv, Published, Quiet, OneAtATime, Whole, Undisturbed
<1> QED
  BY <1>3, <1>4, <1>5, <1>6, <1>7 DEF IInv

LEMMA PutWriteFailsInv ==
  ASSUME IInv, NEW p \in Procs, PutWriteFails(p)
  PROVE  IInv'
<1>1. CASE p \in Daemons
  BY <1>1, AboutToRemove DEF PutWriteFails, nameVars
<1>2. CASE p \notin Daemons
  <2>1. Return(p, final, tmp) /\ EndPut(p, FALSE) /\ hit' = hit
    BY <1>2 DEF PutWriteFails
  <2> QED
    BY <2>1, ReturnSilent DEF PutOver, Leaves, IInv, TypeOK
<1> QED
  BY <1>1, <1>2

LEMMA PutRenameInv ==
  ASSUME IInv, NEW p \in Procs, PutRename(p)
  PROVE  IInv'
<1>1. /\ Return(p, tmp, None) /\ EndPut(p, TRUE) /\ hit' = hit
      /\ Leaves(p, tmp, None, TRUE)
  BY DEF PutRename, Leaves, Putting
<1>2. tmp \in Inodes \cup {None}
  BY DEF IInv, TypeOK
<1> QED
  BY <1>1, <1>2, ReturnSilent DEF PutOver

LEMMA PutRenameFailsInv ==
  ASSUME IInv, NEW p \in Procs, PutRenameFails(p)
  PROVE  IInv'
<1>1. CASE p \notin Daemons
  BY <1>1, AboutToRemove DEF PutRenameFails, nameVars
<1>2. CASE p \in Daemons
  <2>1. Return(p, final, tmp) /\ EndPut(p, FALSE) /\ hit' = hit
    BY <1>2 DEF PutRenameFails
  <2> QED
    BY <2>1, ReturnSilent DEF PutOver, Leaves, IInv, TypeOK
<1> QED
  BY <1>1, <1>2

LEMMA PutCleanupInv ==
  ASSUME IInv, NEW p \in Procs, PutCleanup(p)
  PROVE  IInv'
<1>1. /\ Return(p, final, None) /\ EndPut(p, FALSE) /\ hit' = hit
      /\ Leaves(p, final, None, FALSE)
  BY DEF PutCleanup, Leaves, Putting
<1>2. final \in Inodes \cup {None}
  BY DEF IInv, TypeOK
<1> QED
  BY <1>1, <1>2, ReturnSilent DEF PutOver

-----------------------------------------------------------------------------
(***************************************************************************)
(* try_get.                                                                *)
(***************************************************************************)
LEMMA GetOpenInv ==
  ASSUME IInv, NEW p \in Procs, GetOpen(p)
  PROVE  IInv'
<1>1. /\ pc[p] = "idle" /\ final # None
      /\ pc' = [pc EXCEPT ![p] = "read"] /\ fd' = [fd EXCEPT ![p] = final]
      /\ hit' = [hit EXCEPT ![p] = None] /\ fresh' = [fresh EXCEPT ![p] = begun \ stale]
      /\ final' = final /\ tmp' = tmp /\ data' = data /\ buf' = buf /\ job' = job
      /\ begun' = begun /\ over' = over /\ before' = before /\ stale' = stale /\ powered' = powered
  BY DEF GetOpen, nameVars
<1>2. final \in Inodes /\ buf[p] = <<>>
  BY <1>1 DEF IInv, TypeOK, Jobs
<1>3. /\ \A q \in Procs : pc'[q] = IF q = p THEN "read" ELSE pc[q]
      /\ \A q \in Procs : fd'[q] = IF q = p THEN final ELSE fd[q]
      /\ \A q \in Procs : hit'[q] = IF q = p THEN None ELSE hit[q]
      /\ \A q \in Procs : fresh'[q] = IF q = p THEN begun \ stale ELSE fresh[q]
  BY <1>1 DEF IInv, TypeOK, HistTypes
<1>4. \A q \in Procs : Putting(q)' <=> Putting(q)
  BY <1>1, <1>3 DEF Putting
<1>5. TypeOK'
  <2>1. pc' \in [Procs -> {"idle", "write", "cleanup", "read", "remove"}]
    BY <1>1 DEF IInv, TypeOK
  <2>2. fd' \in [Procs -> Inodes \cup {None}] /\ hit' \in [Procs -> Seq(BlockSet) \cup {None}]
    BY <1>1, <1>2 DEF IInv, TypeOK
  <2>3. \A q \in Procs : pc'[q] = "idle" <=> fd'[q] = None
    BY <1>1, <1>3 DEF IInv, TypeOK
  <2> QED
    BY <1>1, <2>1, <2>2, <2>3 DEF IInv, TypeOK
<1>6. HistTypes' /\ Past'
  BY <1>1 DEF IInv, HistTypes, Past
<1>7. Jobs'
  BY <1>1, <1>3, <1>4 DEF IInv, Jobs
<1>8. NamesSound'
  BY <1>1 DEF IInv, NamesSound, Unsuperseded
<1>9. ReadersSound'
  <2> SUFFICES ASSUME NEW q \in Procs, pc'[q] = "read"
               PROVE  /\ From(data[fd'[q]], fresh'[q]) /\ From(buf[q], fresh'[q])
                      /\ begun \ over \subseteq fresh'[q]
    BY <1>1 DEF ReadersSound
  <2>1. CASE q = p
    BY <1>1, <1>2, <1>3, <2>1, FromEmpty DEF IInv, NamesSound, HistTypes
  <2>2. CASE q # p
    BY <1>3, <2>2 DEF IInv, ReadersSound
  <2> QED
    BY <2>1, <2>2
<1>10. HitIsFresh'
  BY <1>3 DEF IInv, HitIsFresh
<1>11. Published'
  BY <1>1, <1>3 DEF IInv, Published, Quiet, OneAtATime, Whole, Undisturbed
<1> QED
  BY <1>5, <1>6, <1>7, <1>8, <1>9, <1>10, <1>11 DEF IInv

LEMMA GetReadInv ==
  ASSUME IInv, NEW p \in Procs, GetRead(p)
  PROVE  IInv'
<1> DEFINE n == Len(buf[p]) + 1
           d == data[fd[p]]
<1>1. /\ pc[p] = "read" /\ n <= Len(d)
      /\ buf' = [buf EXCEPT ![p] = Append(@, d[n])]
      /\ final' = final /\ tmp' = tmp /\ data' = data /\ pc' = pc /\ fd' = fd /\ job' = job
      /\ hit' = hit /\ begun' = begun /\ over' = over /\ before' = before /\ stale' = stale
      /\ fresh' = fresh /\ powered' = powered
  BY DEF GetRead, nameVars, histVars
<1>2. d \in Seq(BlockSet) /\ buf[p] \in Seq(BlockSet)
  BY <1>1 DEF IInv, TypeOK
<1>3. n \in 1..Len(d) /\ d[n] \in BlockSet
  BY <1>1, <1>2
<1>4. Append(buf[p], d[n]) \in Seq(BlockSet)
  BY <1>2, <1>3
<1>5. \A q \in Procs : buf'[q] = IF q = p THEN Append(buf[p], d[n]) ELSE buf[q]
  BY <1>1 DEF IInv, TypeOK
<1>6. TypeOK'
  <2>1. buf' \in [Procs -> Seq(BlockSet)]
    BY <1>1, <1>4 DEF IInv, TypeOK
  <2> QED
    BY <1>1, <2>1 DEF IInv, TypeOK
<1>7. HistTypes' /\ Past' /\ Jobs'
  BY <1>1, <1>5 DEF IInv, HistTypes, Past, Jobs, Putting
<1>8. NamesSound' /\ HitIsFresh'
  BY <1>1 DEF IInv, NamesSound, HitIsFresh, Unsuperseded
<1>9. ReadersSound'
  <2>1. From(Append(buf[p], d[n]), fresh[p])
    BY <1>1, <1>2, AppendFrom DEF IInv, ReadersSound
  <2> QED
    BY <1>1, <1>5, <2>1 DEF IInv, ReadersSound
<1>10. Published'
  <2>1. \A q \in Procs : pc[q] = "write" => buf'[q] = buf[q]
    BY <1>1, <1>5
  <2> QED
    BY <1>1, <2>1 DEF IInv, Published, Quiet, OneAtATime, Whole, Undisturbed
<1> QED
  BY <1>6, <1>7, <1>8, <1>9, <1>10 DEF IInv

\* What decodes is one kernel from beginning to end; its first block tells of a put the
\* answer may come from.
LEMMA GetDecodeInv ==
  ASSUME IInv, NEW p \in Procs, GetDecode(p)
  PROVE  IInv'
<1>1. pc[p] = "read" /\ job[p] = None /\ ~ Putting(p)
  BY DEF GetDecode, IInv, Jobs, Putting
<1>2. UNCHANGED histVars /\ PutOver(p, FALSE)
  BY <1>1 DEF GetDecode, PutOver
<1>3. Leaves(p, final, tmp, FALSE) /\ final \in Inodes \cup {None} /\ tmp \in Inodes \cup {None}
  BY DEF Leaves, IInv, TypeOK
<1>4. CASE /\ \E k \in Kernels : /\ Decodes(buf[p], k)
                                 /\ hit' = [hit EXCEPT ![p] = SubSeq(buf[p], 1, Blocks[k])]
           /\ Return(p, final, tmp)
  <2>1. PICK k \in Kernels : /\ Decodes(buf[p], k)
                             /\ hit' = [hit EXCEPT ![p] = SubSeq(buf[p], 1, Blocks[k])]
    BY <1>4
  <2>2. buf[p] \in Seq(BlockSet)
    BY DEF IInv, TypeOK
  <2>3. /\ Blocks[k] <= Len(buf[p])
        /\ \A n \in 1..Blocks[k] : buf[p][n] = Block(k, n)
        /\ SubSeq(buf[p], 1, Blocks[k]) = Encoded(k)
    BY <2>1, <2>2, DecodedBlocks
  <2>4. Blocks[k] \in Nat \ {0} /\ Encoded(k) \in Seq(BlockSet)
    BY EncodedBlocks
  <2>5. 1 \in 1..Blocks[k] /\ 1 \in 1..Len(buf[p])
    BY <2>2, <2>3, <2>4
  <2>6. buf[p][1] = Block(k, 1)
    BY <2>3, <2>5
  <2>7. Block(k, 1) # Hole
    BY DEF Block, Hole
  <2>8. PICK u \in fresh[p] : buf[p][1] = Block(Kernel[u], 1)
    BY <1>1, <2>5, <2>6, <2>7 DEF IInv, ReadersSound, From
  <2>9. Kernel[u] = k
    BY <2>6, <2>8 DEF Block
  <2>10. \A q \in Procs : hit'[q] = IF q = p THEN Encoded(k) ELSE hit[q]
    BY <2>1, <2>3 DEF IInv, TypeOK
  <2>11. hit' \in [Procs -> Seq(BlockSet) \cup {None}]
    BY <2>1, <2>3, <2>4 DEF IInv, TypeOK
  <2>12. fresh' = fresh
    BY <1>2 DEF histVars
  <2>13. HitIsFresh'
    BY <2>9, <2>10, <2>12 DEF IInv, HitIsFresh
  <2> QED
    BY <1>2, <1>3, <1>4, <2>11, <2>13, ReturnInv
<1>5. CASE Return(p, final, tmp) /\ hit' = hit
  BY <1>2, <1>3, <1>5, ReturnSilent
<1>6. CASE pc' = [pc EXCEPT ![p] = "remove"] /\ UNCHANGED <<nameVars, data, fd, buf, job, hit>>
  BY <1>1, <1>2, <1>6, AboutToRemove DEF nameVars
<1> QED
  BY <1>4, <1>5, <1>6 DEF GetDecode

LEMMA GetRemoveInv ==
  ASSUME IInv, NEW p \in Procs, GetRemove(p)
  PROVE  IInv'
<1>1. job[p] = None
  BY DEF GetRemove, IInv, Jobs, Putting
<1>2. Return(p, None, tmp) /\ hit' = hit /\ PutOver(p, FALSE)
  BY <1>1 DEF GetRemove, PutOver
<1>3. Leaves(p, None, tmp, FALSE) /\ tmp \in Inodes \cup {None}
  BY DEF Leaves, IInv, TypeOK
<1> QED
  BY <1>2, <1>3, ReturnSilent

-----------------------------------------------------------------------------
(***************************************************************************)
(* The faults.                                                             *)
(***************************************************************************)
LEMMA CrashInv ==
  ASSUME IInv, NEW p \in Procs, Crash(p)
  PROVE  IInv'
<1>1. /\ Return(p, final, tmp) /\ hit' = hit /\ PutOver(p, FALSE)
      /\ Leaves(p, final, tmp, FALSE)
  BY DEF Crash, PutOver, Leaves
<1>2. final \in Inodes \cup {None} /\ tmp \in Inodes \cup {None}
  BY DEF IInv, TypeOK
<1> QED
  BY <1>1, <1>2, ReturnSilent

\* A file that lost its tail still holds only blocks of the puts it held blocks of.
LEMMA PowerLossInv ==
  ASSUME IInv, PowerLoss
  PROVE  IInv'
<1>1. /\ pc' = [q \in Procs |-> "idle"] /\ fd' = [q \in Procs |-> None]
      /\ buf' = [q \in Procs |-> <<>>] /\ job' = [q \in Procs |-> None]
      /\ over' = begun /\ powered' = FALSE /\ final' = final /\ tmp' = tmp /\ hit' = hit
      /\ begun' = begun /\ before' = before /\ stale' = stale /\ fresh' = fresh
  BY DEF PowerLoss, nameVars
<1>2. PICK f \in UNION {0..Blocks[k] : k \in Kernels},
           t \in UNION {0..Blocks[k] : k \in Kernels} :
        data' = [i \in Inodes |-> IF i = final THEN Prefix(data[i], f)
                                  ELSE IF i = tmp THEN Prefix(data[i], t) ELSE <<>>]
  BY DEF PowerLoss
<1>3. f \in Nat /\ t \in Nat
  BY DiskAssumption
<1>4. \A i \in Inodes : data'[i] \in Seq(BlockSet)
  <2> SUFFICES ASSUME NEW i \in Inodes PROVE data'[i] \in Seq(BlockSet)
    OBVIOUS
  <2>1. data[i] \in Seq(BlockSet) /\ <<>> \in Seq(BlockSet) /\ From(data[i], {}) \in BOOLEAN
    BY DEF IInv, TypeOK, From
  <2>2. \A n \in Nat : Prefix(data[i], n) \in Seq(BlockSet)
    BY <2>1 DEF Prefix
  <2> QED
    BY <1>2, <1>3, <2>1, <2>2
<1>5. \A i \in Inodes, X \in SUBSET Puts :
        From(data[i], X) => From(data'[i], X)
  <2> SUFFICES ASSUME NEW i \in Inodes, NEW X \in SUBSET Puts, From(data[i], X)
               PROVE  From(data'[i], X)
    OBVIOUS
  <2>1. data[i] \in Seq(BlockSet)
    BY DEF IInv, TypeOK
  <2>2. From(Prefix(data[i], f), X) /\ From(Prefix(data[i], t), X) /\ From(<<>>, X)
    BY <1>3, <2>1, PrefixFrom, FromEmpty
  <2> QED
    BY <1>2, <2>2
<1>6. TypeOK'
  <2>1. data' \in [Inodes -> Seq(BlockSet)]
    BY <1>2, <1>4
  <2>2. <<>> \in Seq(BlockSet)
    OBVIOUS
  <2>3. buf' \in [Procs -> Seq(BlockSet)]
    BY <1>1, <2>2
  <2> QED
    BY <1>1, <2>1, <2>3 DEF IInv, TypeOK
<1>7. HistTypes' /\ Past'
  BY <1>1 DEF IInv, HistTypes, Past
<1>8. Jobs' /\ ReadersSound' /\ HitIsFresh' /\ Published'
  BY <1>1 DEF IInv, Jobs, Putting, ReadersSound, HitIsFresh, Published, Quiet
<1>9. NamesSound'
  <2>1. Unsuperseded' = Unsuperseded /\ Unsuperseded \in SUBSET Puts
    BY <1>1 DEF Unsuperseded, IInv, HistTypes
  <2>2. begun' \ stale' = begun \ stale /\ begun \ stale \in SUBSET Puts
    BY <1>1 DEF IInv, HistTypes
  <2>3. tmp # None => tmp \in Inodes /\ From(data[tmp], Unsuperseded)
    BY DEF IInv, TypeOK, NamesSound
  <2>4. final # None => final \in Inodes /\ From(data[final], begun \ stale)
    BY DEF IInv, TypeOK, NamesSound
  <2>5. tmp # None => From(data'[tmp], Unsuperseded)
    BY <1>5, <2>1, <2>3
  <2>6. final # None => From(data'[final], begun \ stale)
    BY <1>5, <2>2, <2>4
  <2> QED
    BY <1>1, <2>1, <2>2, <2>5, <2>6 DEF NamesSound
<1> QED
  BY <1>6, <1>7, <1>8, <1>9 DEF IInv

-----------------------------------------------------------------------------
LEMMA InvStep == IInv /\ [Next]_vars => IInv'
<1> SUFFICES ASSUME IInv, [Next]_vars PROVE IInv'
  OBVIOUS
<1>1. ASSUME NEW p \in Procs, PutStep(p) PROVE IInv'
  BY <1>1, PutCreateInv, PutWriteInv, PutWriteFailsInv, PutRenameInv, PutRenameFailsInv,
     PutCleanupInv DEF PutStep
<1>2. ASSUME NEW p \in Procs, GetStep(p) PROVE IInv'
  BY <1>2, GetOpenInv, GetReadInv, GetDecodeInv, GetRemoveInv DEF GetStep
<1>3. ASSUME NEW p \in Procs, Crash(p) PROVE IInv'
  BY <1>3, CrashInv
<1>4. CASE PowerLoss
  BY <1>4, PowerLossInv
<1>5. CASE UNCHANGED vars
  BY <1>5, InvStutter
<1> QED
  BY <1>1, <1>2, <1>3, <1>4, <1>5 DEF Next

LEMMA InvAlways == Spec => []IInv
<1> QED
  BY InvInit, InvStep, PTL DEF Spec

\* Names, descriptors and files keep their types; a process holds a descriptor exactly
\* while it is inside a call.
THEOREM TypeCorrect == Spec => []TypeOK
<1>1. IInv => TypeOK
  BY DEF IInv
<1> QED
  BY <1>1, InvAlways, PTL

\* try_get answers with one kernel, whole, of a put no later one had replaced when it
\* opened the file: whatever the number of writers that share the .tmp, and whenever
\* they fail, die or lose power.
THEOREM HitsFresh == Spec => []HitIsFresh
<1>1. IInv => HitIsFresh
  BY DEF IInv
<1> QED
  BY <1>1, InvAlways, PTL

\* Without overlapping puts and power losses, the published name never links half an
\* entry: the promise of .tmp and rename.
THEOREM PublishedEntriesWhole == Spec => []PublishedWhole
<1>1. IInv => PublishedWhole
  BY DEF IInv, Published, Quiet, PublishedWhole
<1> QED
  BY <1>1, InvAlways, PTL
=============================================================================
