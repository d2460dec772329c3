---------------------------- MODULE LibraryProofs ----------------------------
(***************************************************************************)
(* Proofs about the stores and the libraries the programs share: the       *)
(* sector cache of hash-fs, the interned strings of threads, the           *)
(* filestore, the descriptors of network and pipe-program, the string      *)
(* functions of libc/, and the lines of a buffer.                          *)
(***************************************************************************)
EXTENDS FileStore, HashFs, Immutable, Descriptors, LibcMemory, LineReader,
        SequenceLemmas, FiniteSetTheorems

\* mod_add stays below mod, as its assertions ask of what it is given
\* (hash-fs.c:19-34).
LEMMA ModAddIsResidue ==
  ASSUME NEW mod \in Nat \ {0}, NEW a \in 0..(mod - 1), NEW b \in 0..(mod - 1)
  PROVE  ModAdd(a, b, mod) \in 0..(mod - 1) /\ ModAdd(a, b, mod) = (a + b) % mod
<1>1. CASE b >= mod - a
  BY <1>1, SMT DEF ModAdd
<1>2. CASE ~(b >= mod - a)
  BY <1>2, SMT DEF ModAdd
<1>3. QED  BY <1>1, <1>2

\* mod_reference is a residue, whatever the words of the digest: a reference to a
\* sector lies within the table.  The loop adds one word after the other; were
\* there a number of turns after which it has none, there would be a least one.
LEMMA ReferenceIsResidue ==
  ASSUME NEW given, given.ints \in Seq(Nat), NEW offset \in Nat, NEW mod \in Nat \ {0}
  PROVE  ModReference(given, offset, mod) \in 0..(mod - 1)
<1> DEFINE ints == given.ints
           L == Len(ints)
           Turns(f, n) ==
             f = [i \in 0..n |-> IF i = 0 THEN offset % mod
                                 ELSE ModAdd(f[i - 1], ints[i] % mod, mod)]
           Undone == {n \in 0..L : ~\E f : Turns(f, n)}
<1>1. L \in Nat /\ ints \in Seq(Nat)
  BY LenProperties
<1>2. Undone = {}
  <2> SUFFICES ASSUME Undone # {} PROVE FALSE
    OBVIOUS
  <2>1. Undone \subseteq Nat
    BY <1>1
  <2>2. PICK n \in Undone : \A m \in Undone : n <= m
    BY <2>1, LeastElement
  <2>3. n \in 0..L /\ n \in Nat
    BY <1>1, <2>2
  <2>4. n # 0
    <3> DEFINE f == [i \in 0..0 |-> offset % mod]
    <3>1. f = [i \in 0..0 |-> IF i = 0 THEN offset % mod
                                ELSE ModAdd(f[i - 1], ints[i] % mod, mod)]
      OBVIOUS
    <3>2. 0 \notin Undone
      BY <3>1
    <3>3. QED  BY <2>2, <3>2
  <2>5. n - 1 \in 0..L /\ n - 1 \notin Undone
    <3>1. n - 1 \in 0..L /\ ~(n <= n - 1)
      BY <1>1, <2>3, <2>4
    <3> HIDE DEF Undone
    <3>2. QED  BY <2>2, <3>1
  <2>6. PICK g : Turns(g, n - 1)
    BY <2>5
  <2> DEFINE f == [i \in 0..n |-> IF i = n THEN ModAdd(g[n - 1], ints[n] % mod, mod) ELSE g[i]]
  <2>7. \A i \in 0..n : f[i] = IF i = 0 THEN offset % mod
                               ELSE ModAdd(f[i - 1], ints[i] % mod, mod)
    <3> TAKE i \in 0..n
    <3>1. CASE i = n
      <4>1. f[n - 1] = g[n - 1] /\ n - 1 \in 0..n
        BY <2>3, <2>4
      <4>2. QED  BY <2>3, <2>4, <3>1, <4>1
    <3>2. CASE i # n
      <4>1. i \in 0..n - 1 /\ f[i] = g[i]
        BY <2>3, <3>2
      <4>2. g[i] = IF i = 0 THEN offset % mod ELSE ModAdd(g[i - 1], ints[i] % mod, mod)
        BY <2>6, <4>1
      <4>3. i # 0 => f[i - 1] = g[i - 1]
        BY <2>3, <4>1
      <4>4. QED  BY <4>1, <4>2, <4>3
    <3>3. QED  BY <3>1, <3>2
  <2> HIDE DEF f
  <2>8. Turns(f, n)
    BY <2>7 DEF f
  <2>9. QED  BY <2>2, <2>8
<1> DEFINE point == CHOOSE f : Turns(f, L)
<1>3. Turns(point, L)
  <2>1. L \in 0..L
    BY <1>1
  <2> HIDE DEF Turns, L
  <2>2. \E f : Turns(f, L)
    BY <1>2, <2>1
  <2>3. QED  BY <2>2
<1>4. ModReference(given, offset, mod) = point[L]
  BY DEF ModReference
<1> HIDE DEF point
<1>5. \A i \in 0..L : point[i] = IF i = 0 THEN offset % mod
                                 ELSE ModAdd(point[i - 1], ints[i] % mod, mod)
  BY <1>3
<1> DEFINE Out == {n \in 0..L : point[n] \notin 0..(mod - 1)}
<1>6. Out = {}
  <2> SUFFICES ASSUME Out # {} PROVE FALSE
    OBVIOUS
  <2>1. Out \subseteq Nat
    BY <1>1
  <2>2. PICK n \in Out : \A m \in Out : n <= m
    BY <2>1, LeastElement
  <2>3. n # 0
    BY <1>1, <1>5, <2>2
  <2>4. n - 1 \in 0..L /\ n - 1 \notin Out
    BY <1>1, <2>2, <2>3
  <2>5. ints[n] \in Nat
    BY <1>1, <2>2, <2>3, ElementOfSeq
  <2>6. ints[n] % mod \in 0..(mod - 1)
    BY <2>5
  <2>7. point[n] \in 0..(mod - 1)
    BY <1>5, <2>2, <2>3, <2>4, <2>6, ModAddIsResidue, ZenonT(60)
  <2>8. QED  BY <2>2, <2>7
<1>7. QED  BY <1>1, <1>4, <1>6

-----------------------------------------------------------------------------
Owners == FsThreads \cup {Nobody}
Asked == [digest : Digests \cup {NoDigest}, offset : Nat]
LoadedSector ==
  [owner : Owners, loaded : BOOLEAN, digest : Digests \cup {NoDigest}, from : Nat]
FsThread ==
  [pc : {"rest", "lock", "look", "seek", "read", "unlock io", "fail", "has"},
   asks : Asked, target : Sectors, failed : BOOLEAN]

FsTypeOK ==
  /\ sector \in [Sectors -> LoadedSector]
  /\ ioOwner \in Owners
  /\ fsThread \in [FsThreads -> FsThread]
  /\ place \in Nat

\* What a thread holds is known by where it is; who holds a mutex is alone there.
FsInv == FsTypeOK /\ HeldIsAsked

Inside(where) == where \notin {"rest", "lock"}
Loading(where) == where \in {"seek", "read", "unlock io"}

\* The invariant, said with what a thread is in.
LEMMA WhatIsHeld ==
  ASSUME FsInv
  PROVE  /\ \A s \in Sectors : \A t \in FsThreads :
              sector[s].owner = t <=> (fsThread[t].target = s /\ Inside(fsThread[t].pc))
         /\ \A t \in FsThreads : ioOwner = t <=> Loading(fsThread[t].pc)
         /\ \A t \in FsThreads : fsThread[t].pc = "has" =>
              /\ sector[fsThread[t].target].loaded
              /\ sector[fsThread[t].target].digest = fsThread[t].asks.digest
  BY DEF FsInv, HeldIsAsked, Inside, Loading, Target

\* What a step must establish that makes th of a thread and sec of a sector s: it
\* touches no sector another thread is in, and owns what it is in.
LEMMA ThreadStep ==
  ASSUME FsInv, NEW t \in FsThreads, NEW th \in FsThread, NEW s \in Sectors,
         NEW sec \in LoadedSector, place' \in Nat, ioOwner' \in Owners,
         fsThread' = [fsThread EXCEPT ![t] = th], sector' = [sector EXCEPT ![s] = sec],
         Inside(fsThread[t].pc) => s = fsThread[t].target,
         Inside(th.pc) => s = th.target,
         sector[s].owner \in {t, Nobody} \/ sec = sector[s],
         sec.owner = t <=> Inside(th.pc),
         sec.owner \in {t, Nobody} \/ sec = sector[s],
         th.pc = "has" => sec.loaded /\ sec.digest = th.asks.digest,
         ioOwner' = t <=> Loading(th.pc),
         \A u \in FsThreads \ {t} : ioOwner' = u <=> ioOwner = u
  PROVE  FsInv'
<1>1. /\ sector \in [Sectors -> LoadedSector] /\ fsThread \in [FsThreads -> FsThread]
      /\ Nobody \notin FsThreads
  BY FsAssumption DEF FsInv, FsTypeOK
<1>2. FsTypeOK'
  BY <1>1 DEF FsTypeOK
<1>3. /\ \A r \in Sectors : \A u \in FsThreads :
           sector[r].owner = u <=> (fsThread[u].target = r /\ Inside(fsThread[u].pc))
      /\ \A u \in FsThreads : ioOwner = u <=> Loading(fsThread[u].pc)
      /\ \A u \in FsThreads : fsThread[u].pc = "has" =>
           /\ sector[fsThread[u].target].loaded
           /\ sector[fsThread[u].target].digest = fsThread[u].asks.digest
  BY WhatIsHeld
<1>4. /\ fsThread'[t] = th /\ \A u \in FsThreads \ {t} : fsThread'[u] = fsThread[u]
      /\ sector'[s] = sec /\ \A r \in Sectors \ {s} : sector'[r] = sector[r]
      /\ \A u \in FsThreads : fsThread[u].target \in Sectors
      /\ th.target \in Sectors
  BY <1>1 DEF FsThread
<1>5. ASSUME NEW r \in Sectors, NEW u \in FsThreads
      PROVE  sector'[r].owner = u <=> (fsThread'[u].target = r /\ Inside(fsThread'[u].pc))
  <2>1. CASE u = t
    <3>1. CASE r = s
      BY <1>4, <2>1, <3>1
    <3>2. CASE r # s
      BY <1>3, <1>4, <2>1, <3>2
    <3>3. QED  BY <3>1, <3>2
  <2>2. CASE u # t
    <3>1. CASE r = s
      BY <1>1, <1>3, <1>4, <2>2, <3>1
    <3>2. CASE r # s
      BY <1>3, <1>4, <2>2, <3>2
    <3>3. QED  BY <3>1, <3>2
  <2>3. QED  BY <2>1, <2>2
<1>6. ASSUME NEW u \in FsThreads
      PROVE  ioOwner' = u <=> Loading(fsThread'[u].pc)
  BY <1>3, <1>4
<1>7. ASSUME NEW u \in FsThreads, fsThread'[u].pc = "has"
      PROVE  /\ sector'[fsThread'[u].target].owner = u
             /\ sector'[fsThread'[u].target].loaded
             /\ sector'[fsThread'[u].target].digest = fsThread'[u].asks.digest
  <2>1. fsThread'[u].target \in Sectors /\ Inside(fsThread'[u].pc)
    BY <1>4, <1>7 DEF Inside
  <2>2. sector'[fsThread'[u].target].owner = u
    BY <1>5, <2>1
  <2>3. CASE u = t
    BY <1>4, <1>7, <2>1, <2>2, <2>3
  <2>4. CASE u # t
    <3>1. fsThread'[u] = fsThread[u]
      BY <1>4, <2>4
    <3>2. CASE fsThread[u].target = s
      BY <1>1, <1>3, <1>4, <1>7, <2>1, <2>4, <3>1, <3>2
    <3>3. CASE fsThread[u].target # s
      BY <1>3, <1>4, <1>7, <2>2, <3>1, <3>3
    <3>4. QED  BY <3>2, <3>3
  <2>5. QED  BY <2>3, <2>4
<1>8. HeldIsAsked'
  BY <1>5, <1>6, <1>7 DEF HeldIsAsked, Inside, Loading, Target
<1>9. QED  BY <1>2, <1>8 DEF FsInv


LEMMA AskedIsTyped ==
  ASSUME NEW given \in Digests \cup {NoDigest}
  PROVE  given.ints \in Seq(Nat)
<1>1. <<>> \in Seq(Nat)
  BY EmptySeq
<1>2. NoDigest.ints = <<>>
  BY DEF NoDigest
<1>3. CASE given = NoDigest
  BY <1>1, <1>2, <1>3, Zenon
<1>4. QED  BY <1>3, FsAssumption

LEMMA AccessKeeps ==
  ASSUME FsInv, NEW t \in FsThreads, Access(t)
  PROVE  FsInv'
<1>1. PICK given \in Digests, offset \in Offsets :
        fsThread' = [fsThread EXCEPT ![t] =
                       [pc |-> "lock", asks |-> [digest |-> given, offset |-> offset],
                        target |-> ModReference(given, offset, TableSize), failed |-> FALSE]]
  BY DEF Access
<1> DEFINE th == [pc |-> "lock", asks |-> [digest |-> given, offset |-> offset],
                  target |-> ModReference(given, offset, TableSize), failed |-> FALSE]
           s == th.target
<1>2. s \in Sectors /\ th \in FsThread
  <2>1. offset \in Nat /\ TableSize \in Nat \ {0} /\ given.ints \in Seq(Nat)
    BY FsAssumption
  <2>2. ModReference(given, offset, TableSize) \in Sectors
    BY <2>1, ReferenceIsResidue DEF Sectors
  <2>3. QED  BY <2>1, <2>2 DEF FsThread, Asked
<1>3. /\ fsThread[t].pc = "rest" /\ sector' = sector /\ ioOwner' = ioOwner /\ place' = place
      /\ sector \in [Sectors -> LoadedSector] /\ place \in Nat /\ ioOwner \in Owners
  BY DEF Access, FsInv, FsTypeOK
<1> DEFINE sec == sector[s]
<1>4. sec \in LoadedSector /\ sector' = [sector EXCEPT ![s] = sec]
  BY <1>2, <1>3
<1>5. sec.owner # t /\ ioOwner # t
  BY <1>2, <1>3, WhatIsHeld DEF Inside, Loading
<1>6. ~Inside(th.pc) /\ ~Loading(th.pc) /\ ~Inside(fsThread[t].pc) /\ th.pc # "has"
  BY <1>3 DEF Inside, Loading
<1> HIDE DEF sec, s, th
<1>7. fsThread' = [fsThread EXCEPT ![t] = th]
  BY <1>1 DEF th, s
<1>8. QED  BY <1>2, <1>3, <1>4, <1>5, <1>6, <1>7, ThreadStep DEF sec

\* A thread in its sector changes nothing of it.
LEMMA StaysInside ==
  ASSUME FsInv, NEW t \in FsThreads, NEW th \in FsThread, place' \in Nat, ioOwner' \in Owners,
         fsThread' = [fsThread EXCEPT ![t] = th], sector' = sector,
         Inside(fsThread[t].pc), Inside(th.pc), th.target = fsThread[t].target,
         th.pc = "has" => Target(t).loaded /\ Target(t).digest = th.asks.digest,
         ioOwner' = t <=> Loading(th.pc),
         \A u \in FsThreads \ {t} : ioOwner' = u <=> ioOwner = u
  PROVE  FsInv'
<1> DEFINE s == fsThread[t].target
           sec == sector[s]
<1>1. /\ sector \in [Sectors -> LoadedSector] /\ fsThread \in [FsThreads -> FsThread]
  BY DEF FsInv, FsTypeOK
<1>2. s \in Sectors /\ sec \in LoadedSector
  BY <1>1 DEF FsThread
<1>3. sec.owner = t
  BY <1>2, WhatIsHeld
<1>4. sector' = [sector EXCEPT ![s] = sec]
  BY <1>1, <1>2
<1>5. th.pc = "has" => sec.loaded /\ sec.digest = th.asks.digest
  BY DEF Target
<1> HIDE DEF sec, s
<1>6. s = fsThread[t].target /\ sec = sector[s]
  BY DEF s, sec
<1>7. QED  BY <1>2, <1>3, <1>4, <1>5, <1>6, ThreadStep, ZenonT(60)

\* A thread leaves its sector, and unlocks it.
LEMMA Leaves ==
  ASSUME FsInv, NEW t \in FsThreads, fsThread[t].pc \in {"look", "fail", "has"},
         GetsOwner(t, Nobody), Does(t, "rest"), ioOwner' = ioOwner, place' = place
  PROVE  FsInv'
<1> DEFINE s == fsThread[t].target
           sec == [sector[s] EXCEPT !.owner = Nobody]
           th == [fsThread[t] EXCEPT !.pc = "rest"]
<1>1. /\ sector \in [Sectors -> LoadedSector] /\ fsThread \in [FsThreads -> FsThread]
      /\ ioOwner \in Owners /\ place \in Nat /\ Nobody \notin FsThreads
  BY FsAssumption DEF FsInv, FsTypeOK
<1>2. /\ s \in Sectors /\ sec \in LoadedSector /\ sec.owner = Nobody
      /\ th \in FsThread /\ th.pc = "rest"
  <2>1. s \in Sectors /\ sector[s] \in LoadedSector /\ Nobody \in Owners
    BY <1>1 DEF FsThread, Owners
  <2>2. sec \in LoadedSector /\ sec.owner = Nobody
    BY <2>1 DEF LoadedSector
  <2>3. th \in FsThread /\ th.pc = "rest"
    BY <1>1 DEF FsThread
  <2>4. QED  BY <2>1, <2>2, <2>3
<1>3. sector[s].owner = t /\ ioOwner # t
  BY <1>2, WhatIsHeld, ZenonT(30) DEF Inside, Loading
<1>4. sector' = [sector EXCEPT ![s] = sec] /\ fsThread' = [fsThread EXCEPT ![t] = th]
  BY <1>1, <1>2 DEF GetsOwner, Does
<1>5. ~Inside(th.pc) /\ ~Loading(th.pc)
  BY <1>2 DEF Inside, Loading
<1> HIDE DEF sec, s, th
<1>6. s = fsThread[t].target
  BY DEF s
<1>7. QED  BY <1>1, <1>2, <1>3, <1>4, <1>5, <1>6, ThreadStep

LEMMA LockSectorKeeps ==
  ASSUME FsInv, NEW t \in FsThreads, LockSector(t)
  PROVE  FsInv'
<1> DEFINE s == fsThread[t].target
           sec == [sector[s] EXCEPT !.owner = t]
           th == [fsThread[t] EXCEPT !.pc = "look"]
<1>1. /\ sector \in [Sectors -> LoadedSector] /\ fsThread \in [FsThreads -> FsThread]
      /\ ioOwner \in Owners /\ place \in Nat
  BY DEF FsInv, FsTypeOK
<1>2. /\ s \in Sectors /\ sec \in LoadedSector /\ sec.owner = t
      /\ th \in FsThread /\ th.pc = "look" /\ th.target = s
  <2>1. s \in Sectors /\ sector[s] \in LoadedSector /\ t \in Owners
    BY <1>1 DEF FsThread, Owners
  <2>2. sec \in LoadedSector /\ sec.owner = t
    BY <2>1 DEF LoadedSector
  <2>3. th \in FsThread /\ th.pc = "look" /\ th.target = s
    BY <1>1 DEF FsThread
  <2>4. QED  BY <2>1, <2>2, <2>3
<1>3. /\ fsThread[t].pc = "lock" /\ sector[s].owner = Nobody
      /\ ioOwner' = ioOwner /\ place' = place
  BY DEF LockSector
<1>4. ioOwner # t
  BY <1>3, WhatIsHeld DEF Loading
<1>5. sector' = [sector EXCEPT ![s] = sec] /\ fsThread' = [fsThread EXCEPT ![t] = th]
  BY <1>1, <1>2 DEF LockSector, GetsOwner, Does
<1>6. Inside(th.pc) /\ ~Loading(th.pc) /\ ~Inside(fsThread[t].pc)
  BY <1>2, <1>3 DEF Inside, Loading
<1> HIDE DEF sec, s, th
<1>7. QED  BY <1>1, <1>2, <1>3, <1>4, <1>5, <1>6, ThreadStep

LEMMA HitsSectorKeeps ==
  ASSUME FsInv, NEW t \in FsThreads, HitsSector(t)
  PROVE  FsInv'
<1> DEFINE th == [fsThread[t] EXCEPT !.pc = "has"]
<1>1. /\ fsThread \in [FsThreads -> FsThread] /\ ioOwner \in Owners /\ place \in Nat
  BY DEF FsInv, FsTypeOK
<1>2. /\ fsThread[t].pc = "look" /\ ioOwner' = ioOwner /\ place' = place /\ sector' = sector
      /\ Target(t).loaded /\ Target(t).digest = fsThread[t].asks.digest
  BY DEF HitsSector, IsAsked
<1>3. /\ th \in FsThread /\ th.pc = "has" /\ th.target = fsThread[t].target
      /\ th.asks = fsThread[t].asks
  BY <1>1 DEF FsThread
<1>4. fsThread' = [fsThread EXCEPT ![t] = th]
  BY <1>1 DEF HitsSector, Does
<1>5. ioOwner # t /\ Inside(th.pc) /\ ~Loading(th.pc) /\ Inside(fsThread[t].pc)
  BY <1>2, <1>3, WhatIsHeld DEF Inside, Loading
<1> HIDE DEF th
<1>6. QED  BY <1>1, <1>2, <1>3, <1>4, <1>5, StaysInside

LEMMA LockIoKeeps ==
  ASSUME FsInv, NEW t \in FsThreads, LockIo(t)
  PROVE  FsInv'
<1> DEFINE th == [fsThread[t] EXCEPT !.pc = "seek"]
<1>1. /\ fsThread \in [FsThreads -> FsThread] /\ place \in Nat /\ Nobody \notin FsThreads
  BY FsAssumption DEF FsInv, FsTypeOK
<1>2. /\ fsThread[t].pc = "look" /\ ioOwner = Nobody /\ ioOwner' = t /\ place' = place
      /\ sector' = sector
  BY DEF LockIo
<1>3. /\ th \in FsThread /\ th.pc = "seek" /\ th.target = fsThread[t].target
  BY <1>1 DEF FsThread
<1>4. fsThread' = [fsThread EXCEPT ![t] = th]
  BY <1>1 DEF LockIo, Does
<1>5. /\ Inside(th.pc) /\ Loading(th.pc) /\ Inside(fsThread[t].pc) /\ ioOwner' \in Owners
      /\ \A u \in FsThreads \ {t} : ioOwner' # u /\ ioOwner # u
  BY <1>1, <1>2, <1>3 DEF Inside, Loading, Owners
<1> HIDE DEF th
<1>6. QED  BY <1>1, <1>2, <1>3, <1>4, <1>5, StaysInside

\* A thread that holds the descriptor goes on to pc.
LEMMA LoadingGoesOn ==
  ASSUME FsInv, NEW t \in FsThreads, NEW th \in FsThread, Loading(fsThread[t].pc), Loading(th.pc),
         fsThread' = [fsThread EXCEPT ![t] = th], th.target = fsThread[t].target,
         sector' = sector, ioOwner' = ioOwner, place' \in Nat
  PROVE  FsInv'
<1>1. ioOwner = t /\ ioOwner \in Owners
  BY WhatIsHeld DEF FsInv, FsTypeOK
<1>2. Inside(fsThread[t].pc) /\ Inside(th.pc) /\ th.pc # "has"
  BY DEF Inside, Loading
<1>3. QED  BY <1>1, <1>2, StaysInside

LEMMA SeeksKeeps ==
  ASSUME FsInv, NEW t \in FsThreads, Seeks(t) \/ SeekFails(t)
  PROVE  FsInv'
<1>1. fsThread \in [FsThreads -> FsThread] /\ place \in Nat
  BY DEF FsInv, FsTypeOK
<1>2. fsThread[t].pc = "seek" /\ ioOwner' = ioOwner /\ sector' = sector
  BY DEF Seeks, SeekFails
<1>3. CASE Seeks(t)
  <2> DEFINE th == [fsThread[t] EXCEPT !.pc = "unlock io", !.failed = TRUE]
  <2>1. th \in FsThread /\ th.pc = "unlock io" /\ th.target = fsThread[t].target
    BY <1>1 DEF FsThread
  <2>2. fsThread' = [fsThread EXCEPT ![t] = th]
    BY <1>1, <1>3 DEF Seeks
  <2>3. place' \in Nat
    <3> DEFINE given == fsThread[t].asks.digest
               offset == fsThread[t].asks.offset
    <3>1. given \in Digests \cup {NoDigest} /\ offset \in Nat
      BY <1>1 DEF FsThread, Asked
    <3>2. given.ints \in Seq(Nat)
      BY <3>1, AskedIsTyped
    <3>3. {UserBlocks, SectorSize} \subseteq Nat \ {0}
      BY FsAssumption
    <3>4. place' = SectorSize + ModReference(given, offset, UserBlocks)
      BY <1>3 DEF Seeks
    <3> HIDE DEF given, offset
    <3>5. ModReference(given, offset, UserBlocks) \in 0..(UserBlocks - 1)
      BY <3>1, <3>2, <3>3, ReferenceIsResidue
    <3>6. QED  BY <3>3, <3>4, <3>5
  <2>4. Loading(fsThread[t].pc) /\ Loading(th.pc)
    BY <1>2, <2>1 DEF Loading
  <2> HIDE DEF th
  <2>5. QED  BY <1>2, <2>1, <2>2, <2>3, <2>4, LoadingGoesOn
<1>4. CASE SeekFails(t)
  <2> DEFINE th == [fsThread[t] EXCEPT !.pc = "read"]
  <2>1. th \in FsThread /\ th.pc = "read" /\ th.target = fsThread[t].target
    BY <1>1 DEF FsThread
  <2>2. fsThread' = [fsThread EXCEPT ![t] = th] /\ place' \in Nat
    BY <1>1, <1>4 DEF SeekFails, Does
  <2>3. Loading(fsThread[t].pc) /\ Loading(th.pc)
    BY <1>2, <2>1 DEF Loading
  <2> HIDE DEF th
  <2>4. QED  BY <1>2, <2>1, <2>2, <2>3, LoadingGoesOn
<1>5. QED  BY <1>3, <1>4

LEMMA ReadSectorFailsKeeps ==
  ASSUME FsInv, NEW t \in FsThreads, ReadSectorFails(t)
  PROVE  FsInv'
<1> DEFINE th == [fsThread[t] EXCEPT !.pc = "unlock io", !.failed = TRUE]
<1>1. fsThread \in [FsThreads -> FsThread] /\ place \in Nat
  BY DEF FsInv, FsTypeOK
<1>2. fsThread[t].pc = "read" /\ ioOwner' = ioOwner /\ sector' = sector
  BY DEF ReadSectorFails
<1>3. place' \in Nat
  <2>1. SectorSize \in Nat
    BY FsAssumption
  <2>2. PICK n \in 0..SectorSize - 1 : place' = place + n
    BY DEF ReadSectorFails
  <2>3. QED  BY <1>1, <2>1, <2>2
<1>4. th \in FsThread /\ th.pc = "unlock io" /\ th.target = fsThread[t].target
  BY <1>1 DEF FsThread
<1>5. fsThread' = [fsThread EXCEPT ![t] = th]
  BY <1>1 DEF ReadSectorFails
<1>6. Loading(fsThread[t].pc) /\ Loading(th.pc)
  BY <1>2, <1>4 DEF Loading
<1> HIDE DEF th
<1>7. QED  BY <1>2, <1>3, <1>4, <1>5, <1>6, LoadingGoesOn

LEMMA ReadsSectorKeeps ==
  ASSUME FsInv, NEW t \in FsThreads, ReadsSector(t)
  PROVE  FsInv'
<1> DEFINE s == fsThread[t].target
           sec == [sector[s] EXCEPT !.from = place]
           th == [fsThread[t] EXCEPT !.pc = "unlock io"]
<1>1. /\ sector \in [Sectors -> LoadedSector] /\ fsThread \in [FsThreads -> FsThread]
      /\ ioOwner \in Owners /\ place \in Nat /\ SectorSize \in Nat
  BY FsAssumption DEF FsInv, FsTypeOK
<1>2. /\ fsThread[t].pc = "read" /\ ioOwner' = ioOwner /\ place' = place + SectorSize
  BY DEF ReadsSector
<1>3. /\ s \in Sectors /\ sec \in LoadedSector /\ sec.owner = sector[s].owner
      /\ th \in FsThread /\ th.pc = "unlock io" /\ th.target = s
  <2>1. s \in Sectors /\ sector[s] \in LoadedSector
    BY <1>1 DEF FsThread
  <2>2. sec \in LoadedSector /\ sec.owner = sector[s].owner
    BY <1>1, <2>1 DEF LoadedSector
  <2>3. th \in FsThread /\ th.pc = "unlock io" /\ th.target = s
    BY <1>1 DEF FsThread
  <2>4. QED  BY <2>1, <2>2, <2>3
<1>4. sector' = [sector EXCEPT ![s] = sec] /\ fsThread' = [fsThread EXCEPT ![t] = th]
  BY <1>1, <1>3 DEF ReadsSector, Does
<1>5. Inside(th.pc) /\ Loading(th.pc) /\ Inside(fsThread[t].pc) /\ Loading(fsThread[t].pc)
  BY <1>2, <1>3 DEF Inside, Loading
<1>6. sec.owner = t /\ ioOwner = t /\ place' \in Nat
  <2>1. sector[s].owner = t /\ ioOwner = t
    BY <1>3, <1>5, WhatIsHeld, ZenonT(30)
  <2>2. place' \in Nat
    BY <1>1, <1>2
  <2> HIDE DEF sec, s
  <2>3. QED  BY <1>3, <2>1, <2>2
<1> HIDE DEF sec, s, th
<1>7. s = fsThread[t].target
  BY DEF s
<1>8. QED  BY <1>1, <1>2, <1>3, <1>4, <1>5, <1>6, <1>7, ThreadStep

LEMMA UnlockIoKeeps ==
  ASSUME FsInv, NEW t \in FsThreads, UnlockIo(t)
  PROVE  FsInv'
<1> DEFINE s == fsThread[t].target
           failed == fsThread[t].failed
           sec == IF failed THEN [sector[s] EXCEPT !.loaded = FALSE]
                  ELSE [sector[s] EXCEPT !.loaded = TRUE, !.digest = fsThread[t].asks.digest]
           th == IF failed THEN [fsThread[t] EXCEPT !.pc = "fail"]
                 ELSE [fsThread[t] EXCEPT !.pc = "has"]
<1>1. /\ sector \in [Sectors -> LoadedSector] /\ fsThread \in [FsThreads -> FsThread]
      /\ ioOwner \in Owners /\ place \in Nat /\ Nobody \notin FsThreads
  BY FsAssumption DEF FsInv, FsTypeOK
<1>2. fsThread[t].pc = "unlock io" /\ ioOwner' = Nobody /\ place' = place
  BY DEF UnlockIo
<1>3. s \in Sectors /\ sector[s] \in LoadedSector /\ fsThread[t] \in FsThread
  BY <1>1 DEF FsThread
<1>4. sec \in LoadedSector /\ sec.owner = sector[s].owner
  <2>1. fsThread[t].asks.digest \in Digests \cup {NoDigest}
    BY <1>3 DEF FsThread, Asked
  <2>2. QED  BY <1>3, <2>1 DEF LoadedSector
<1>5. /\ th \in FsThread /\ th.pc \in {"fail", "has"} /\ th.target = s
      /\ th.asks = fsThread[t].asks
  BY <1>3 DEF FsThread
<1>6. th.pc = "has" => sec.loaded /\ sec.digest = th.asks.digest
  BY <1>3 DEF FsThread, LoadedSector
<1>7. sector' = [sector EXCEPT ![s] = sec] /\ fsThread' = [fsThread EXCEPT ![t] = th]
  BY <1>1, <1>3 DEF UnlockIo, Does
<1>8. /\ Inside(th.pc) /\ ~Loading(th.pc)
      /\ Inside(fsThread[t].pc) /\ Loading(fsThread[t].pc)
  BY <1>2, <1>5 DEF Inside, Loading
<1>9. sec.owner = t /\ ioOwner = t /\ ioOwner' \in Owners
  BY <1>2, <1>3, <1>4, <1>8, WhatIsHeld, ZenonT(60) DEF Owners
<1>10. ioOwner' # t /\ \A u \in FsThreads \ {t} : ioOwner' # u /\ ioOwner # u
  BY <1>1, <1>2, <1>9
<1> HIDE DEF sec, s, th
<1>11. s = fsThread[t].target
  BY DEF s
<1>12. QED
  BY <1>1, <1>2, <1>3, <1>4, <1>5, <1>6, <1>7, <1>8, <1>9, <1>10, <1>11, ThreadStep

-----------------------------------------------------------------------------
LEMMA FsInitHolds ==
  FsInit => FsInv
<1> SUFFICES ASSUME FsInit PROVE FsInv
  OBVIOUS
<1>1. 0 \in Sectors /\ Nobody \notin FsThreads /\ {TableSize} \subseteq Nat \ {0}
  BY FsAssumption DEF Sectors
<1>2. FsTypeOK
  BY <1>1 DEF FsInit, FsTypeOK, LoadedSector, FsThread, Asked, Owners
<1>3. HeldIsAsked
  BY <1>1 DEF FsInit, HeldIsAsked
<1>4. QED  BY <1>2, <1>3 DEF FsInv

LEMMA FsStepHolds ==
  FsInv /\ [FsNext]_fsVars => FsInv'
<1> SUFFICES ASSUME FsInv, [FsNext]_fsVars PROVE FsInv'
  OBVIOUS
<1>1. CASE UNCHANGED fsVars
  <2>1. FsTypeOK'
    BY <1>1 DEF FsInv, FsTypeOK, fsVars
  <2>2. HeldIsAsked'
    BY <1>1 DEF FsInv, HeldIsAsked, Target, fsVars
  <2>3. QED  BY <2>1, <2>2 DEF FsInv
<1>2. ASSUME NEW t \in FsThreads, Access(t) \/ FsSteps(t) \/ SeekFails(t) \/ ReadSectorFails(t)
      PROVE  FsInv'
  <2>1. CASE Access(t)
    BY <2>1, AccessKeeps
  <2>2. CASE LockSector(t)
    BY <2>2, LockSectorKeeps
  <2>3. CASE HitsSector(t)
    BY <2>3, HitsSectorKeeps
  <2>4. CASE MissesSector(t)
    BY <2>4, Leaves DEF MissesSector
  <2>5. CASE LockIo(t)
    BY <2>5, LockIoKeeps
  <2>6. CASE Seeks(t) \/ SeekFails(t)
    BY <2>6, SeeksKeeps
  <2>7. CASE ReadsSector(t)
    BY <2>7, ReadsSectorKeeps
  <2>8. CASE ReadSectorFails(t)
    BY <2>8, ReadSectorFailsKeeps
  <2>9. CASE UnlockIo(t)
    BY <2>9, UnlockIoKeeps
  <2>10. CASE AccessFails(t)
    BY <2>10, Leaves DEF AccessFails
  <2>11. CASE UnlockSector(t)
    BY <2>11, Leaves DEF UnlockSector
  <2>12. QED
    BY <1>2, <2>1, <2>2, <2>3, <2>4, <2>5, <2>6, <2>7, <2>8, <2>9, <2>10, <2>11 DEF FsSteps
<1>3. QED  BY <1>1, <1>2 DEF FsNext

\* Of any number of threads, a thread that was given a sector is alone in it, and it
\* is the sector of the digest it asked for; a thread in no sector owns none, and the
\* descriptor is owned by the one thread that loads (hash-fs.c:107-142).
THEOREM HeldSectorIsAsked == FsSpec => []HeldIsAsked
<1>1. FsInv => HeldIsAsked
  BY DEF FsInv
<1>2. QED  BY <1>1, FsInitHolds, FsStepHolds, PTL DEF FsSpec

-----------------------------------------------------------------------------
(* Interned strings: the chains of the table, and what threads know of them. *)

Item == [key : Strings, next : Nat]

\* The chains of a table, by a numbering of the items: slot tells the bucket an item
\* is in, of the new table, or below zero of the old one, and pos its place there.
Begins(a, s, slot, pos, its) ==
  IF a = Null THEN \A i \in DOMAIN its : slot[i] # s
  ELSE /\ a \in DOMAIN its /\ slot[a] = s
       /\ \A i \in DOMAIN its : slot[i] = s => pos[a] <= pos[i]

Follows(i, slot, pos, its) ==
  LET next == its[i].next
  IN  IF next = Null THEN \A j \in DOMAIN its : slot[j] = slot[i] => pos[j] <= pos[i]
      ELSE next \in DOMAIN its /\ slot[next] = slot[i] /\ pos[next] = pos[i] + 1

BucketIn(key, size) == Hash[key] % size

Chained(slot, pos, bk, its, old) ==
  /\ slot \in [DOMAIN its -> Int] /\ pos \in [DOMAIN its -> Int]
  /\ \A i \in DOMAIN its :
       \/ slot[i] = BucketIn(its[i].key, Len(bk)) + 1
       \/ slot[i] < 0 /\ -slot[i] <= Len(old)
  /\ \A i, j \in DOMAIN its : slot[i] = slot[j] /\ pos[i] = pos[j] => i = j
  /\ \A b \in 1..Len(bk) : Begins(bk[b], b, slot, pos, its)
  /\ \A b \in 1..Len(old) : Begins(old[b], -b, slot, pos, its)
  /\ \A i \in DOMAIN its : Follows(i, slot, pos, its)

LEMMA BucketIsOne ==
  ASSUME NEW key \in Strings, NEW n \in Nat \ {0}
  PROVE  BucketIn(key, n) \in 0..n - 1
<1>1. Hash[key] \in Nat
  BY InternAssumption
<1>2. QED  BY <1>1 DEF BucketIn

\* A resize begins: every item is in the old table.
LEMMA ResizeStartsChained ==
  ASSUME NEW its \in Seq(Item), NEW bk \in Seq(Nat), NEW slot, NEW pos,
         Chained(slot, pos, bk, its, <<>>), NEW n \in Nat \ {0},
         Len(its) > 0 => Len(bk) > 0
  PROVE  \E s : Chained(s, pos, Empty(n), its, bk)
<1> DEFINE s == [i \in DOMAIN its |-> -slot[i]]
           new == Empty(n)
<1>1. /\ Len(its) \in Nat /\ DOMAIN its = 1..Len(its) /\ Len(bk) \in Nat
      /\ slot \in [DOMAIN its -> Int] /\ pos \in [DOMAIN its -> Int]
  BY LenProperties DEF Chained
<1>2. new \in Seq(Nat) /\ Len(new) = n /\ \A b \in 1..n : new[b] = Null
  BY DEF Empty, Null
<1>3. \A i \in DOMAIN its : slot[i] \in 1..Len(bk)
  <2> TAKE i \in DOMAIN its
  <2>1. Len(<<>>) = 0
    OBVIOUS
  <2>2. slot[i] = BucketIn(its[i].key, Len(bk)) + 1
    BY <1>1, <2>1 DEF Chained
  <2>3. its[i].key \in Strings /\ Len(bk) \in Nat \ {0}
    <3>1. its[i] \in Item
      BY <1>1, ElementOfSeq
    <3>2. Len(bk) > 0
      BY <1>1
    <3>3. QED  BY <1>1, <3>1, <3>2 DEF Item
  <2>4. BucketIn(its[i].key, Len(bk)) \in 0..Len(bk) - 1
    BY <2>3, BucketIsOne
  <2>5. QED  BY <1>1, <2>2, <2>4
<1>4. s \in [DOMAIN its -> Int] /\ \A i \in DOMAIN its : s[i] < 0 /\ -s[i] = slot[i] /\ s[i] = -slot[i]
  BY <1>1, <1>3
<1> HIDE DEF s, new
<1>5. \A i \in DOMAIN its : s[i] < 0 /\ -s[i] <= Len(bk)
  BY <1>1, <1>3, <1>4
<1>6. \A i, j \in DOMAIN its : s[i] = s[j] /\ pos[i] = pos[j] => i = j
  BY <1>1, <1>4 DEF Chained
<1>7. \A b \in 1..Len(new) : Begins(new[b], b, s, pos, its)
  BY <1>1, <1>2, <1>5 DEF Begins
<1>8. \A b \in 1..Len(bk) : Begins(bk[b], -b, s, pos, its)
  <2> TAKE b \in 1..Len(bk)
  <2>1. Begins(bk[b], b, slot, pos, its)
    BY DEF Chained
  <2>2. \A i \in DOMAIN its : s[i] = -b <=> slot[i] = b
    BY <1>1, <1>4, SMTT(30)
  <2>3. QED  BY <2>1, <2>2 DEF Begins
<1>9. \A i \in DOMAIN its : Follows(i, s, pos, its)
  <2> TAKE i \in DOMAIN its
  <2>1. Follows(i, slot, pos, its)
    BY DEF Chained
  <2>2. \A j \in DOMAIN its : s[i] = s[j] <=> slot[i] = slot[j]
    BY <1>1, <1>4
  <2>3. QED  BY <2>1, <2>2 DEF Follows
<1>10. Chained(s, pos, new, its, bk)
  BY <1>1, <1>4, <1>5, <1>6, <1>7, <1>8, <1>9 DEF Chained
<1>11. QED  BY <1>10 DEF new

\* It ends when the old table is empty.
LEMMA ResizeEndsChained ==
  ASSUME NEW its \in Seq(Item), NEW bk, NEW slot, NEW pos, NEW old \in Seq(Nat),
         Chained(slot, pos, bk, its, old), \A b \in 1..Len(old) : old[b] = Null
  PROVE  Chained(slot, pos, bk, its, <<>>)
<1>1. slot \in [DOMAIN its -> Int] /\ Len(old) \in Nat /\ Len(<<>>) = 0
  BY LenProperties DEF Chained
<1>2. \A i \in DOMAIN its : ~(slot[i] < 0 /\ -slot[i] <= Len(old))
  <2> SUFFICES ASSUME NEW i \in DOMAIN its, slot[i] < 0, -slot[i] <= Len(old) PROVE FALSE
    OBVIOUS
  <2>1. -slot[i] \in 1..Len(old) /\ slot[i] = -(-slot[i])
    BY <1>1
  <2>2. Begins(Null, slot[i], slot, pos, its)
    BY <2>1 DEF Chained
  <2>3. QED  BY <2>2 DEF Begins
<1>3. QED  BY <1>1, <1>2 DEF Chained

\* When the first item of a chain leaves it, the one that follows it is the first.
LEMMA NextIsFirst ==
  ASSUME NEW its, NEW bk, NEW old, NEW slot, NEW pos, Chained(slot, pos, bk, its, old),
         NEW k, NEW item, item # Null, Begins(item, k, slot, pos, its), its[item].next # Null
  PROVE  LET next == its[item].next
         IN  /\ next \in DOMAIN its /\ slot[next] = k /\ next # item
             /\ \A i \in DOMAIN its : slot[i] = k /\ i # item => pos[next] <= pos[i]
<1> DEFINE next == its[item].next
<1>1. /\ slot \in [DOMAIN its -> Int] /\ pos \in [DOMAIN its -> Int]
      /\ \A i, j \in DOMAIN its : slot[i] = slot[j] /\ pos[i] = pos[j] => i = j
  BY DEF Chained
<1>2. /\ item \in DOMAIN its /\ slot[item] = k
      /\ \A i \in DOMAIN its : slot[i] = k => pos[item] <= pos[i]
  BY DEF Begins
<1>3. next \in DOMAIN its /\ slot[next] = k /\ pos[next] = pos[item] + 1
  BY <1>2 DEF Chained, Follows
<1> HIDE DEF next
<1>4. next # item
  BY <1>1, <1>2, <1>3
<1>5. ASSUME NEW i \in DOMAIN its, slot[i] = k, i # item
      PROVE  pos[next] <= pos[i]
  <2>1. pos[i] # pos[item] /\ pos[item] <= pos[i]
    BY <1>1, <1>2, <1>5
  <2>2. pos[i] \in Int /\ pos[item] \in Int
    BY <1>1, <1>2
  <2>3. QED  BY <1>3, <2>1, <2>2
<1>6. QED  BY <1>3, <1>4, <1>5 DEF next

\* One item is moved from the front of an old chain to the front of a new one.
LEMMA ResizeMovesChained ==
  ASSUME NEW its \in Seq(Item), NEW bk \in Seq(Nat), NEW old \in Seq(Nat), NEW slot, NEW pos,
         Chained(slot, pos, bk, its, old), Len(bk) > 0,
         NEW m \in 1..Len(old), old[m] # Null,
         NEW item, item = old[m],
         NEW b, b = BucketIn(its[item].key, Len(bk)) + 1
  PROVE  /\ item \in DOMAIN its /\ b \in 1..Len(bk) /\ its[item].next \in Nat
         /\ \E s, p : Chained(s, p, [bk EXCEPT ![b] = item],
                              [its EXCEPT ![item].next = bk[b]],
                              [old EXCEPT ![m] = its[item].next])
<1> DEFINE first == bk[b]
           bk2 == [bk EXCEPT ![b] = item]
           its2 == [its EXCEPT ![item].next = first]
           old2 == [old EXCEPT ![m] = its[item].next]
           s == [slot EXCEPT ![item] = b]
           p == [pos EXCEPT ![item] = IF first = Null THEN 0 ELSE pos[first] - 1]
<1>1. /\ Len(its) \in Nat /\ DOMAIN its = 1..Len(its) /\ Len(bk) \in Nat \ {0}
      /\ Len(old) \in Nat
      /\ slot \in [DOMAIN its -> Int] /\ pos \in [DOMAIN its -> Int]
  BY LenProperties, SMTT(30) DEF Chained
<1>2. /\ item \in DOMAIN its /\ slot[item] = -m
      /\ \A i \in DOMAIN its : slot[i] = -m => pos[item] <= pos[i]
  <2>1. Begins(old[m], -m, slot, pos, its)
    BY DEF Chained
  <2>2. QED  BY <2>1 DEF Begins
<1>3. its[item] \in Item /\ b \in 1..Len(bk)
  <2>1. its[item] \in Item /\ its[item].key \in Strings
    <3>1. its[item] \in Item
      BY <1>1, <1>2, ElementOfSeq
    <3>2. QED  BY <3>1 DEF Item
  <2>2. BucketIn(its[item].key, Len(bk)) \in 0..Len(bk) - 1
    BY <1>1, <2>1, BucketIsOne
  <2>3. QED  BY <1>1, <2>1, <2>2, SMTT(30)
<1>4. /\ first \in Nat /\ Begins(first, b, slot, pos, its)
      /\ first # Null => first \in DOMAIN its /\ first # item
  <2>1. first \in Nat /\ Begins(first, b, slot, pos, its)
    BY <1>3, ElementOfSeq DEF Chained
  <2>2. slot[item] # b
    BY <1>1, <1>2, <1>3
  <2>3. QED  BY <2>1, <2>2 DEF Begins
<1>5. its[item].next \in Nat /\ Follows(item, slot, pos, its)
  BY <1>2, <1>3 DEF Item, Chained
<1> DEFINE next == its[item].next
<1>6. /\ Len(bk2) = Len(bk) /\ Len(old2) = Len(old) /\ DOMAIN its2 = DOMAIN its
      /\ \A i \in DOMAIN its : its2[i].key = its[i].key
      /\ its2[item].next = first /\ \A i \in DOMAIN its \ {item} : its2[i].next = its[i].next
      /\ bk2[b] = item /\ \A c \in 1..Len(bk) \ {b} : bk2[c] = bk[c]
      /\ old2[m] = next /\ \A c \in 1..Len(old) \ {m} : old2[c] = old[c]
  <2>1. item \in Nat
    BY <1>1, <1>2
  <2>2. /\ Len(bk2) = Len(bk) /\ bk2[b] = item /\ \A c \in 1..Len(bk) \ {b} : bk2[c] = bk[c]
    BY <1>3, <2>1, ExceptSeq
  <2>3. /\ Len(old2) = Len(old) /\ old2[m] = next
        /\ \A c \in 1..Len(old) \ {m} : old2[c] = old[c]
    BY <1>5, ExceptSeq
  <2>4. its[item] \in [key : Strings, next : Nat]
    BY <1>3 DEF Item
  <2>5. /\ DOMAIN its2 = DOMAIN its
        /\ \A i \in DOMAIN its : its2[i].key = its[i].key
        /\ its2[item].next = first /\ \A i \in DOMAIN its \ {item} : its2[i].next = its[i].next
    BY <1>2, <2>4
  <2>6. QED  BY <2>2, <2>3, <2>5
<1>7. /\ s \in [DOMAIN its -> Int] /\ p \in [DOMAIN its -> Int]
      /\ s[item] = b /\ \A i \in DOMAIN its \ {item} : s[i] = slot[i] /\ p[i] = pos[i]
      /\ first # Null => p[item] = pos[first] - 1
  BY <1>1, <1>2, <1>3, <1>4, SMTT(30)
<1> HIDE DEF first, bk2, its2, old2, s, p, next
<1>8. \A i \in DOMAIN its2 :
        \/ s[i] = BucketIn(its2[i].key, Len(bk2)) + 1
        \/ s[i] < 0 /\ -s[i] <= Len(old2)
  <2> TAKE i \in DOMAIN its2
  <2>1. CASE i = item
    BY <1>6, <1>7, <2>1
  <2>2. CASE i # item
    BY <1>6, <1>7, <2>2 DEF Chained
  <2>3. QED  BY <2>1, <2>2
<1>9. \A i \in DOMAIN its : s[i] = b /\ i # item => first # Null /\ p[item] < p[i]
  <2> TAKE i \in DOMAIN its
  <2> HAVE s[i] = b /\ i # item
  <2>1. slot[i] = b /\ p[i] = pos[i] /\ pos[i] \in Int
    BY <1>1, <1>7
  <2>2. first # Null /\ first \in DOMAIN its /\ pos[first] <= pos[i] /\ pos[first] \in Int
    BY <1>1, <1>4, <2>1 DEF Begins
  <2>3. QED  BY <1>7, <2>1, <2>2, SMTT(30)
<1>10. \A i, j \in DOMAIN its2 : s[i] = s[j] /\ p[i] = p[j] => i = j
  <2> SUFFICES ASSUME NEW i \in DOMAIN its, NEW j \in DOMAIN its, s[i] = s[j], p[i] = p[j]
               PROVE  i = j
    BY <1>6
  <2>1. CASE i # item /\ j # item
    BY <1>7, <2>1 DEF Chained
  <2>2. p[i] \in Int /\ p[j] \in Int
    BY <1>7
  <2>3. CASE i = item /\ j # item
    <3>1. s[j] = b /\ p[item] < p[j]
      BY <1>7, <1>9, <2>3
    <3>2. QED  BY <2>2, <2>3, <3>1
  <2>4. CASE i # item /\ j = item
    <3>1. s[i] = b /\ p[item] < p[i]
      BY <1>7, <1>9, <2>4
    <3>2. QED  BY <2>2, <2>4, <3>1
  <2>5. QED  BY <2>1, <2>3, <2>4
<1>11. \A c \in 1..Len(bk2) : Begins(bk2[c], c, s, p, its2)
  <2> TAKE c \in 1..Len(bk2)
  <2>1. CASE c = b
    <3>1. item # Null
      BY <1>1, <1>2 DEF Null
    <3>2. \A i \in DOMAIN its : s[i] = b => p[item] <= p[i]
      <4> TAKE i \in DOMAIN its
      <4> HAVE s[i] = b
      <4>1. p[i] \in Int
        BY <1>7
      <4>2. i = item \/ p[item] < p[i]
        BY <1>9
      <4>3. p[item] \in Int
        BY <1>2, <1>7
      <4>4. QED  BY <4>1, <4>2, <4>3, SMTT(30)
    <3>3. QED  BY <1>2, <1>6, <1>7, <2>1, <3>1, <3>2 DEF Begins
  <2>2. CASE c # b
    <3>1. Begins(bk[c], c, slot, pos, its) /\ bk2[c] = bk[c] /\ c # -m
      BY <1>1, <1>6, <2>2 DEF Chained
    <3>2. \A i \in DOMAIN its : s[i] = c <=> slot[i] = c
      BY <1>2, <1>7, <2>2, <3>1
    <3>3. \A i \in DOMAIN its : s[i] = c => p[i] = pos[i]
      BY <1>7, <2>2
    <3>4. QED  BY <1>6, <3>1, <3>2, <3>3, ZenonT(30) DEF Begins
  <2>3. QED  BY <2>1, <2>2
<1>12. \A c \in 1..Len(old2) : Begins(old2[c], -c, s, p, its2)
  <2> TAKE c \in 1..Len(old2)
  <2>1. -c # b
    BY <1>1, <1>3, <1>6
  <2>2. CASE c = m
    <3>1. \A i \in DOMAIN its : s[i] = -m <=> (slot[i] = -m /\ i # item)
      BY <1>7, <2>1, <2>2
    <3>2. CASE next = Null
      <4>1. \A i \in DOMAIN its : slot[i] = -m => pos[i] <= pos[item]
        BY <1>2, <1>5, <3>2 DEF Follows, next
      <4>2. \A i \in DOMAIN its : slot[i] = -m => i = item
        <5> TAKE i \in DOMAIN its
        <5> HAVE slot[i] = -m
        <5>1. pos[i] = pos[item]
          BY <1>1, <1>2, <4>1, SMTT(30)
        <5>2. QED  BY <1>2, <5>1 DEF Chained
      <4>3. QED  BY <1>6, <2>2, <3>1, <3>2, <4>2 DEF Begins
    <3>3. CASE next # Null
      <4>1. Begins(item, -m, slot, pos, its) /\ item # Null
        BY <1>1 DEF Chained
      <4>2. next \in DOMAIN its /\ slot[next] = -m /\ next # item
        BY <3>3, <4>1, NextIsFirst, SMTT(30) DEF next
      <4>3. \A i \in DOMAIN its : slot[i] = -m /\ i # item => pos[next] <= pos[i]
        BY <3>3, <4>1, NextIsFirst, SMTT(30) DEF next
      <4>4. s[next] = -m /\ p[next] = pos[next]
        BY <1>7, <3>1, <4>2
      <4>5. \A i \in DOMAIN its : s[i] = -m => p[next] <= p[i]
        BY <1>7, <3>1, <4>3, <4>4
      <4>6. old2[c] = next /\ -c = -m /\ DOMAIN its2 = DOMAIN its
        BY <1>6, <2>2
      <4>7. QED  BY <3>3, <4>2, <4>4, <4>5, <4>6, Zenon DEF Begins
    <3>4. QED  BY <3>2, <3>3
  <2>3. CASE c # m
    <3>1. Begins(old[c], -c, slot, pos, its) /\ old2[c] = old[c]
      BY <1>6, <2>3 DEF Chained
    <3>2. -c # -m
      BY <1>1, <1>6, <2>3
    <3>3. \A i \in DOMAIN its : s[i] = -c <=> slot[i] = -c
      BY <1>2, <1>7, <2>1, <3>2
    <3>4. \A i \in DOMAIN its : s[i] = -c => p[i] = pos[i]
      BY <1>7, <2>1
    <3>5. QED  BY <1>6, <3>1, <3>3, <3>4 DEF Begins
  <2>4. QED  BY <2>2, <2>3
<1>13. \A i \in DOMAIN its2 : Follows(i, s, p, its2)
  <2> TAKE i \in DOMAIN its2
  <2>1. CASE i = item
    <3>1. CASE first = Null
      BY <1>6, <1>7, <1>9, <2>1, <3>1 DEF Follows
    <3>2. CASE first # Null
      <4>1. slot[first] = b /\ s[first] = b /\ p[first] = pos[first] /\ first \in DOMAIN its
        BY <1>4, <1>7, <3>2 DEF Begins
      <4>2. p[first] = p[item] + 1
        <5>1. p[item] = pos[first] - 1 /\ pos[first] \in Int
          BY <1>1, <1>7, <3>2, <4>1
        <5>2. QED  BY <4>1, <5>1
      <4>3. QED  BY <1>6, <1>7, <2>1, <3>2, <4>1, <4>2 DEF Follows
    <3>3. QED  BY <3>1, <3>2
  <2>2. CASE i # item
    <3>1. /\ Follows(i, slot, pos, its) /\ its2[i].next = its[i].next
          /\ i \in DOMAIN its /\ s[i] = slot[i] /\ p[i] = pos[i]
      BY <1>6, <1>7, <2>2 DEF Chained
    <3>2. CASE its[i].next = Null
      <4>1. \A j \in DOMAIN its \ {item} : s[j] = s[i] => p[j] <= p[i]
        BY <1>7, <3>1, <3>2 DEF Follows
      <4>2. s[item] = s[i] => p[item] <= p[i]
        BY <1>1, <1>2, <1>7, <1>9, <2>2, <3>1, SMTT(30)
      <4>3. QED  BY <1>6, <3>1, <3>2, <4>1, <4>2 DEF Follows
    <3>3. CASE its[i].next # Null
      <4> DEFINE n == its[i].next
      <4>1. n \in DOMAIN its /\ slot[n] = slot[i] /\ pos[n] = pos[i] + 1
        BY <3>1, <3>3 DEF Follows
      <4>2. n # item
        BY <1>1, <1>2, <3>1, <4>1, SMTT(30)
      <4>3. QED  BY <1>6, <1>7, <3>1, <3>3, <4>1, <4>2, SMTT(30) DEF Follows
    <3>4. QED  BY <3>2, <3>3
  <2>3. QED  BY <2>1, <2>2
<1>14. Chained(s, p, bk2, its2, old2)
  BY <1>6, <1>7, <1>8, <1>10, <1>11, <1>12, <1>13 DEF Chained
<1>15. QED  BY <1>2, <1>3, <1>5, <1>14 DEF bk2, its2, old2, first

\* An item is put at the end of the chain of its key.
LEMMA InsertChained ==
  ASSUME NEW its \in Seq(Item), NEW bk \in Seq(Nat), NEW slot, NEW pos,
         Chained(slot, pos, bk, its, <<>>), Len(bk) > 0, NEW key \in Strings,
         NEW b, b = BucketIn(key, Len(bk)) + 1, NEW last, NEW new, new = Len(its) + 1,
         \/ last = Null /\ bk[b] = Null
         \/ last \in DOMAIN its /\ slot[last] = b /\ its[last].next = Null
  PROVE  LET linked == IF last = Null THEN its ELSE [its EXCEPT ![last].next = new]
             its2 == Append(linked, [key |-> key, next |-> Null])
             bk2 == IF last = Null THEN [bk EXCEPT ![b] = new] ELSE bk
         IN  \E s, p : Chained(s, p, bk2, its2, <<>>)
<1> DEFINE linked == IF last = Null THEN its ELSE [its EXCEPT ![last].next = new]
           its2 == Append(linked, [key |-> key, next |-> Null])
           bk2 == IF last = Null THEN [bk EXCEPT ![b] = new] ELSE bk
           spot == IF last = Null THEN 0 ELSE pos[last] + 1
           s == [i \in 1..new |-> IF i = new THEN b ELSE slot[i]]
           p == [i \in 1..new |-> IF i = new THEN spot ELSE pos[i]]
<1>1. /\ Len(its) \in Nat /\ DOMAIN its = 1..Len(its) /\ Len(bk) \in Nat \ {0}
      /\ slot \in [DOMAIN its -> Int] /\ pos \in [DOMAIN its -> Int] /\ Len(<<>>) = 0
      /\ new \in Nat \ {0} /\ new \notin DOMAIN its /\ 1..new = DOMAIN its \cup {new}
  <2>1. Len(bk) \in Nat \ {0} /\ Len(its) \in Nat /\ DOMAIN its = 1..Len(its)
    BY LenProperties
  <2>2. QED  BY <2>1 DEF Chained
<1>2. b \in 1..Len(bk)
  <2>1. BucketIn(key, Len(bk)) \in 0..Len(bk) - 1
    BY <1>1, BucketIsOne
  <2>2. QED  BY <1>1, <2>1
<1>3. /\ linked \in Seq(Item) /\ Len(linked) = Len(its)
      /\ \A i \in DOMAIN its : linked[i].key = its[i].key
      /\ \A i \in DOMAIN its : linked[i].next = IF i = last THEN new ELSE its[i].next
  <2>1. CASE last = Null
    <3>1. last \notin DOMAIN its
      BY <1>1, <2>1 DEF Null
    <3>2. QED  BY <2>1, <3>1
  <2>2. CASE last # Null
    <3>1. last \in 1..Len(its) /\ its[last] \in [key : Strings, next : Nat]
      BY <1>1, <2>2, ElementOfSeq DEF Item
    <3> DEFINE it == [its[last] EXCEPT !.next = new]
    <3>2. it \in Item /\ it.key = its[last].key /\ it.next = new
      BY <1>1, <3>1 DEF Item
    <3>3. linked = [its EXCEPT ![last] = it]
      BY <2>2
    <3> HIDE DEF it, linked
    <3>4. /\ linked \in Seq(Item) /\ Len(linked) = Len(its)
          /\ \A j \in 1..Len(its) : linked[j] = IF j = last THEN it ELSE its[j]
      BY <3>1, <3>2, <3>3, ExceptSeq
    <3>5. QED  BY <1>1, <3>2, <3>4
  <2>3. QED  BY <2>1, <2>2
<1> HIDE DEF linked
<1>4. /\ Len(its2) = new /\ DOMAIN its2 = 1..new
      /\ \A i \in DOMAIN its : its2[i].key = its[i].key
      /\ \A i \in DOMAIN its : its2[i].next = IF i = last THEN new ELSE its[i].next
      /\ its2[new].key = key /\ its2[new].next = Null
  <2> DEFINE it == [key |-> key, next |-> Null]
  <2>1. it \in Item /\ it.key = key /\ it.next = Null
    BY DEF Item, Null
  <2> HIDE DEF it
  <2>2. its2 = Append(linked, it)
    BY DEF it
  <2>3. /\ its2 \in Seq(Item) /\ Len(its2) = Len(linked) + 1
        /\ \A i \in 1..Len(linked) : its2[i] = linked[i]
        /\ its2[Len(linked) + 1] = it
    BY <1>3, <2>1, <2>2, AppendProperties
  <2> HIDE DEF its2
  <2>4. DOMAIN its2 = 1..Len(its2)
    BY <2>3, LenProperties
  <2>5. QED  BY <1>1, <1>3, <2>1, <2>3, <2>4
<1>5. /\ Len(bk2) = Len(bk) /\ \A c \in 1..Len(bk) \ {b} : bk2[c] = bk[c]
      /\ bk2[b] = IF last = Null THEN new ELSE bk[b]
  <2>1. CASE last = Null
    BY <1>1, <1>2, <2>1, ExceptSeq
  <2>2. CASE last # Null
    BY <2>2
  <2>3. QED  BY <2>1, <2>2
<1>6. /\ spot \in Int
      /\ last # Null => last \in DOMAIN its /\ slot[last] = b /\ spot = pos[last] + 1
  BY <1>1
<1>7. /\ s \in [1..new -> Int] /\ p \in [1..new -> Int]
      /\ s[new] = b /\ p[new] = spot
      /\ \A i \in DOMAIN its : s[i] = slot[i] /\ p[i] = pos[i]
  BY <1>1, <1>2, <1>6
<1> HIDE DEF its2, bk2, s, p, spot
\* It is behind all others of its chain.
<1>8. \A i \in DOMAIN its : slot[i] = b => last # Null /\ pos[i] < spot
  <2> TAKE i \in DOMAIN its
  <2> HAVE slot[i] = b
  <2>1. last # Null
    <3>1. Begins(bk[b], b, slot, pos, its)
      BY <1>2 DEF Chained
    <3>2. bk[b] # Null
      BY <3>1 DEF Begins
    <3>3. Null \notin DOMAIN its
      BY <1>1 DEF Null
    <3>4. QED  BY <3>2, <3>3
  <2>2. Follows(last, slot, pos, its) /\ its[last].next = Null /\ slot[last] = b
    BY <1>6, <2>1 DEF Chained
  <2>3. pos[i] <= pos[last]
    BY <2>2 DEF Follows
  <2>4. QED  BY <1>1, <1>6, <2>1, <2>3
<1>9. \A i \in DOMAIN its2 : s[i] = BucketIn(its2[i].key, Len(bk2)) + 1
  <2> TAKE i \in DOMAIN its2
  <2>1. CASE i = new
    BY <1>4, <1>5, <1>7, <2>1
  <2>2. CASE i # new
    <3>1. i \in DOMAIN its
      BY <1>1, <1>4, <2>2
    <3>2. slot[i] = BucketIn(its[i].key, Len(bk)) + 1
      BY <1>1, <3>1 DEF Chained
    <3>3. QED  BY <1>4, <1>5, <1>7, <3>1, <3>2
  <2>3. QED  BY <2>1, <2>2
<1>10. \A i, j \in DOMAIN its2 : s[i] = s[j] /\ p[i] = p[j] => i = j
  <2> SUFFICES ASSUME NEW i \in 1..new, NEW j \in 1..new, s[i] = s[j], p[i] = p[j]
               PROVE  i = j
    BY <1>4
  <2>1. CASE i # new /\ j # new
    BY <1>1, <1>7, <2>1 DEF Chained
  <2>2. \A k \in DOMAIN its : s[k] = s[new] => p[k] # p[new]
    <3> TAKE k \in DOMAIN its
    <3> HAVE s[k] = s[new]
    <3>1. slot[k] = b /\ p[k] = pos[k] /\ pos[k] \in Int
      BY <1>1, <1>7
    <3>2. pos[k] < spot
      BY <1>8, <3>1
    <3>3. QED  BY <1>6, <1>7, <3>1, <3>2
  <2>3. CASE i = new \/ j = new
    BY <1>1, <2>2, <2>3
  <2>4. QED  BY <2>1, <2>3
<1>11. \A c \in 1..Len(bk2) : Begins(bk2[c], c, s, p, its2)
  <2> TAKE c \in 1..Len(bk2)
  <2>1. Begins(bk[c], c, slot, pos, its)
    BY <1>5 DEF Chained
  <2>2. CASE c # b
    <3>1. bk2[c] = bk[c] /\ s[new] # c
      BY <1>5, <1>7, <2>2
    <3>2. QED  BY <1>1, <1>4, <1>7, <2>1, <3>1, ZenonT(30) DEF Begins
  <2>3. CASE c = b /\ last = Null
    <3>1. bk2[c] = new /\ new # Null /\ \A i \in DOMAIN its : slot[i] # b
      BY <1>1, <1>5, <1>8, <2>3 DEF Null
    <3>2. QED  BY <1>1, <1>4, <1>6, <1>7, <2>3, <3>1, SMTT(30) DEF Begins
  <2>4. CASE c = b /\ last # Null
    <3>1. bk2[c] = bk[c]
      BY <1>5, <2>4
    <3>2. /\ bk[c] # Null /\ bk[c] \in DOMAIN its /\ slot[bk[c]] = b
          /\ \A i \in DOMAIN its : slot[i] = b => pos[bk[c]] <= pos[i]
      BY <1>6, <2>1, <2>4 DEF Begins
    <3>3. pos[bk[c]] <= spot
      BY <1>1, <1>6, <1>8, <3>2
    <3>4. QED  BY <1>1, <1>4, <1>7, <2>4, <3>1, <3>2, <3>3, ZenonT(30) DEF Begins
  <2>5. QED  BY <2>2, <2>3, <2>4
<1>12. \A i \in DOMAIN its2 : Follows(i, s, p, its2)
  <2> TAKE i \in DOMAIN its2
  <2>1. CASE i = new
    <3>1. \A j \in 1..new : s[j] = b => p[j] <= p[new]
      <4> TAKE j \in 1..new
      <4> HAVE s[j] = b
      <4>1. CASE j = new
        BY <1>6, <1>7, <4>1
      <4>2. CASE j # new
        <5>1. j \in DOMAIN its /\ slot[j] = b /\ p[j] = pos[j] /\ pos[j] \in Int
          BY <1>1, <1>7, <4>2
        <5>2. pos[j] < spot
          BY <1>8, <5>1
        <5>3. QED  BY <1>6, <1>7, <5>1, <5>2
      <4>3. QED  BY <4>1, <4>2
    <3>2. QED  BY <1>4, <1>7, <2>1, <3>1 DEF Follows
  <2>2. CASE i # new /\ i = last
    <3>1. its2[i].next = new /\ new # Null /\ s[i] = b /\ p[new] = p[i] + 1
      BY <1>1, <1>4, <1>6, <1>7, <2>2 DEF Null
    <3>2. QED  BY <1>1, <1>4, <1>7, <3>1 DEF Follows
  <2>3. CASE i # new /\ i # last
    <3>1. /\ i \in DOMAIN its /\ Follows(i, slot, pos, its) /\ its2[i].next = its[i].next
          /\ s[i] = slot[i] /\ p[i] = pos[i]
      BY <1>1, <1>4, <1>7, <2>3 DEF Chained
    <3>2. CASE its[i].next = Null
      <4>1. slot[i] # b
        <5> SUFFICES ASSUME slot[i] = b PROVE FALSE
          OBVIOUS
        <5>1. last # Null /\ last \in DOMAIN its /\ slot[last] = b /\ spot = pos[last] + 1
          BY <1>6, <1>8, <3>1
        <5>2. pos[last] <= pos[i] /\ pos[i] < spot
          BY <1>8, <3>1, <3>2, <5>1 DEF Follows
        <5>3. pos[last] = pos[i]
          BY <1>1, <3>1, <5>1, <5>2
        <5>4. QED  BY <2>3, <3>1, <5>1, <5>3 DEF Chained
      <4>2. QED  BY <1>1, <1>4, <1>7, <3>1, <3>2, <4>1 DEF Follows
    <3>3. CASE its[i].next # Null
      BY <1>1, <1>4, <1>7, <3>1, <3>3 DEF Follows
    <3>4. QED  BY <3>2, <3>3
  <2>4. QED  BY <2>1, <2>2, <2>3
<1>13. Chained(s, p, bk2, its2, <<>>)
  BY <1>1, <1>4, <1>7, <1>9, <1>10, <1>11, <1>12 DEF Chained
<1>14. QED  BY <1>13 DEF linked, its2, bk2
-----------------------------------------------------------------------------
InternThread ==
  [pc : {"rest", "lock", "resolve", "include", "resize", "bucket", "match", "unlock"},
   input : Strings, path : BOOLEAN, key : Strings, place : {"bucket", "next"} \X Nat,
   old : Seq(Nat)]
Answer == [input : Strings, path : BOOLEAN, address : Nat]

InternTypeOK ==
  /\ holder \in Threads \cup {NoThread}
  /\ buckets \in Seq(Nat) /\ items \in Seq(Item) /\ count = Len(items)
  /\ resolved \in Strings
  /\ thread \in [Threads -> InternThread]
  /\ returned \in [Threads -> Seq(Answer)]

\* An item for a key, and a table for an item.
OneOfKey ==
  /\ \A i, j \in DOMAIN items : items[i].key = items[j].key => i = j
  /\ Len(items) > 0 => Len(buckets) > 0

Answered ==
  \A t \in Threads : \A n \in 1..Len(returned[t]) :
    /\ returned[t][n].address \in DOMAIN items
    /\ items[returned[t][n].address].key = Wanted(returned[t][n])

Outside(th) == th.pc \in {"rest", "lock"}
OneInside == \A t \in Threads : holder = t <=> ~Outside(thread[t])

AddressAt(spot, bk, its) ==
  IF spot[1] = "bucket" THEN bk[spot[2] + 1] ELSE its[spot[2]].next

\* What is wanted is not before the place a search has come to.
Searched(spot, key, slot, pos, bk, its) ==
  LET b == BucketIn(key, Len(bk))
  IN  \/ spot = <<"bucket", b>>
      \/ /\ spot[1] = "next" /\ spot[2] \in DOMAIN its /\ slot[spot[2]] = b + 1
         /\ \A i \in DOMAIN its : its[i].key = key => pos[spot[2]] < pos[i]

\* What is true of a thread where it is.
Orderly(th, slot, pos, bk, its) ==
  /\ th.pc # "resize" => th.old = <<>>
  /\ th.pc \in {"resize", "bucket", "match"} => Len(bk) > 0
  /\ th.pc \in {"lock", "resolve"} => th.key = th.input
  /\ th.pc = "resolve" => th.path
  /\ th.pc \notin {"rest", "lock", "resolve"} => th.key = Wanted(th)
  /\ th.pc = "match" => Searched(th.place, th.key, slot, pos, bk, its)
  /\ th.pc = "unlock" =>
       /\ AddressAt(th.place, bk, its) \in DOMAIN its
       /\ its[AddressAt(th.place, bk, its)].key = th.key

OldTable == IF holder = NoThread THEN <<>> ELSE thread[holder].old

Tables ==
  \E slot, pos :
    /\ Chained(slot, pos, buckets, items, OldTable)
    /\ \A t \in Threads : Orderly(thread[t], slot, pos, buckets, items)

\* The inductive invariant: what each thread knows of the table is in Tables, for some
\* numbering of the chains, and all that a thread without the mutex may know is nothing.
InternInv == InternTypeOK /\ OneOfKey /\ Answered /\ OneInside /\ Tables

\* A thread outside asks nothing of the tables.
LEMMA OutsideIsOrderly ==
  ASSUME NEW th, Outside(th), NEW slot, NEW pos, NEW bk, NEW its,
         Orderly(th, slot, pos, bk, its), NEW s, NEW p, NEW bk2, NEW its2
  PROVE  Orderly(th, s, p, bk2, its2)
BY DEF Outside, Orderly

\* What a step of the thread that holds the mutex must establish, with a numbering of
\* the chains it leaves.
LEMMA InsideStep ==
  ASSUME InternInv, NEW t \in Threads, NEW th \in InternThread, NEW s, NEW p,
         ~Outside(thread[t]), thread' = [thread EXCEPT ![t] = th],
         buckets' \in Seq(Nat), items' \in Seq(Item), count' = Len(items'),
         resolved' \in Strings, returned' \in [Threads -> Seq(Answer)],
         holder' = IF Outside(th) THEN NoThread ELSE t,
         OneOfKey', Answered',
         Chained(s, p, buckets', items', th.old),
         Orderly(th, s, p, buckets', items')
  PROVE  InternInv'
<1>1. /\ thread \in [Threads -> InternThread] /\ NoThread \notin Threads
      /\ holder = t /\ \A u \in Threads \ {t} : Outside(thread[u])
  BY InternAssumption DEF InternInv, InternTypeOK, OneInside
<1>2. thread'[t] = th /\ \A u \in Threads \ {t} : thread'[u] = thread[u]
  BY <1>1
<1>3. InternTypeOK'
  BY <1>1 DEF InternTypeOK
<1>4. OneInside'
  <2> SUFFICES ASSUME NEW u \in Threads
               PROVE  holder' = u <=> ~Outside(thread'[u])
    BY DEF OneInside
  <2>1. CASE u = t
    BY <1>1, <1>2, <2>1
  <2>2. CASE u # t
    <3>1. holder' # u
      BY <1>1, <2>2
    <3>2. Outside(thread'[u])
      BY <1>1, <1>2, <2>2
    <3>3. QED  BY <3>1, <3>2
  <2>3. QED  BY <2>1, <2>2
<1>5. OldTable' = th.old
  <2>1. CASE Outside(th)
    BY <1>1, <2>1 DEF OldTable, Orderly, Outside
  <2>2. CASE ~Outside(th)
    BY <1>1, <1>2, <2>2 DEF OldTable
  <2>3. QED  BY <2>1, <2>2
<1>6. \A u \in Threads : Orderly(thread'[u], s, p, buckets', items')
  <2> TAKE u \in Threads
  <2>1. PICK slot, pos : \A v \in Threads : Orderly(thread[v], slot, pos, buckets, items)
    BY DEF InternInv, Tables
  <2>2. CASE u = t
    BY <1>2, <2>2
  <2>3. CASE u # t
    <3>1. Outside(thread[u]) /\ Orderly(thread[u], slot, pos, buckets, items)
      BY <1>1, <2>1, <2>3
    <3>2. Orderly(thread[u], s, p, buckets', items')
      BY <3>1, OutsideIsOrderly
    <3>3. QED  BY <1>2, <2>3, <3>2
  <2>4. QED  BY <2>2, <2>3
<1>7. Chained(s, p, buckets', items', OldTable')
  BY <1>5
<1>8. Tables'
  BY <1>6, <1>7 DEF Tables
<1>9. QED  BY <1>3, <1>4, <1>8 DEF InternInv

\* What the thread that holds the mutex knows.
LEMMA InsideKnows ==
  ASSUME InternInv, NEW t \in Threads, ~Outside(thread[t])
  PROVE  /\ holder = t /\ thread[t] \in InternThread /\ thread \in [Threads -> InternThread]
         /\ buckets \in Seq(Nat) /\ items \in Seq(Item) /\ count = Len(items)
         /\ resolved \in Strings /\ returned \in [Threads -> Seq(Answer)]
         /\ \E slot, pos : /\ Chained(slot, pos, buckets, items, thread[t].old)
                           /\ Orderly(thread[t], slot, pos, buckets, items)
<1>1. /\ holder = t /\ NoThread \notin Threads
  BY InternAssumption DEF InternInv, OneInside
<1>2. OldTable = thread[t].old
  BY <1>1 DEF OldTable
<1>3. \E slot, pos : /\ Chained(slot, pos, buckets, items, thread[t].old)
                     /\ Orderly(thread[t], slot, pos, buckets, items)
  BY <1>2 DEF InternInv, Tables
<1>4. QED  BY <1>1, <1>3 DEF InternInv, InternTypeOK

\* A step inside that leaves the tables alone.
LEMMA QuietStep ==
  ASSUME InternInv, NEW t \in Threads, NEW th \in InternThread, NEW slot, NEW pos,
         ~Outside(thread[t]), ~Outside(th), thread' = [thread EXCEPT ![t] = th],
         UNCHANGED <<holder, buckets, items, count, returned>>, resolved' \in Strings,
         Chained(slot, pos, buckets, items, th.old), Orderly(th, slot, pos, buckets, items)
  PROVE  InternInv'
<1>1. /\ holder = t /\ buckets \in Seq(Nat) /\ items \in Seq(Item) /\ count = Len(items)
      /\ returned \in [Threads -> Seq(Answer)]
  BY InsideKnows
<1>2. OneOfKey' /\ Answered'
  BY DEF InternInv, OneOfKey, Answered
<1>3. Chained(slot, pos, buckets', items', th.old) /\ Orderly(th, slot, pos, buckets', items')
  OBVIOUS
<1>4. QED  BY <1>1, <1>2, <1>3, InsideStep

\* One lemma for each action of a thread.
LEMMA CallStep ==
  ASSUME InternInv, NEW t \in Threads, Call(t)
  PROVE  InternInv'
<1>1. PICK s \in Strings, path \in BOOLEAN :
        thread' = [thread EXCEPT ![t].pc = "lock", ![t].input = s, ![t].path = path, ![t].key = s]
  BY DEF Call
<1> DEFINE th == [thread[t] EXCEPT !.pc = "lock", !.input = s, !.path = path, !.key = s]
<1>2. /\ thread \in [Threads -> InternThread] /\ thread[t].pc = "rest"
      /\ UNCHANGED <<holder, buckets, items, count, resolved, returned>>
  BY DEF Call, InternInv, InternTypeOK
<1>3. /\ th \in InternThread /\ th.pc = "lock" /\ th.key = s /\ th.input = s
      /\ th.old = thread[t].old
  BY <1>2, ZenonT(30) DEF InternThread
<1>4. thread' = [thread EXCEPT ![t] = th]
  BY <1>1, <1>2
<1> HIDE DEF th
<1>5. InternTypeOK' /\ OneOfKey' /\ Answered'
  <2>1. InternTypeOK'
    BY <1>2, <1>3, <1>4 DEF InternInv, InternTypeOK
  <2>2. OneOfKey' /\ Answered'
    BY <1>2 DEF InternInv, OneOfKey, Answered
  <2>3. QED  BY <2>1, <2>2
<1>6. OneInside'
  BY <1>2, <1>3, <1>4 DEF InternInv, OneInside, Outside
<1>7. PICK slot, pos :
        /\ Chained(slot, pos, buckets, items, OldTable)
        /\ \A u \in Threads : Orderly(thread[u], slot, pos, buckets, items)
  BY DEF InternInv, Tables
<1>8. \A u \in Threads : Orderly(thread'[u], slot, pos, buckets, items)
  <2> TAKE u \in Threads
  <2>1. CASE u = t
    <3>1. thread[t].old = <<>>
      BY <1>2, <1>7 DEF Orderly
    <3>2. Orderly(th, slot, pos, buckets, items)
      BY <1>3, <3>1 DEF Orderly
    <3>3. QED  BY <1>2, <1>4, <2>1, <3>2
  <2>2. CASE u # t
    BY <1>2, <1>4, <1>7, <2>2
  <2>3. QED  BY <2>1, <2>2
<1>9. OldTable' = OldTable
  <2>1. holder # t
    BY <1>2 DEF InternInv, OneInside, Outside
  <2>2. holder \in Threads \cup {NoThread}
    BY DEF InternInv, InternTypeOK
  <2>3. QED  BY <1>2, <1>4, <2>1, <2>2 DEF OldTable
<1>10. Tables'
  BY <1>2, <1>7, <1>8, <1>9 DEF Tables
<1>11. QED  BY <1>5, <1>6, <1>10 DEF InternInv

LEMMA LockStep ==
  ASSUME InternInv, NEW t \in Threads, Lock(t)
  PROVE  InternInv'
<1> DEFINE step == IF thread[t].path THEN "resolve" ELSE "include"
           th == [thread[t] EXCEPT !.pc = step]
<1>1. /\ thread \in [Threads -> InternThread] /\ thread[t].pc = "lock" /\ holder = NoThread
      /\ holder' = t /\ UNCHANGED <<buckets, items, count, resolved, returned>>
      /\ NoThread \notin Threads
  BY InternAssumption DEF Lock, InternInv, InternTypeOK
<1>2. /\ th \in InternThread /\ th.pc = step /\ th.key = thread[t].key
      /\ th.input = thread[t].input /\ th.path = thread[t].path /\ th.old = thread[t].old
  BY <1>1 DEF InternThread
<1>3. thread' = [thread EXCEPT ![t] = th]
  BY <1>1 DEF Lock, GoesTo
<1> HIDE DEF th
<1>4. InternTypeOK' /\ OneOfKey' /\ Answered'
  <2>1. InternTypeOK'
    BY <1>1, <1>2, <1>3 DEF InternInv, InternTypeOK
  <2>2. OneOfKey' /\ Answered'
    BY <1>1 DEF InternInv, OneOfKey, Answered
  <2>3. QED  BY <2>1, <2>2
<1>5. OneInside'
  BY <1>1, <1>2, <1>3 DEF InternInv, OneInside, Outside
<1>6. PICK slot, pos :
        /\ Chained(slot, pos, buckets, items, OldTable)
        /\ \A u \in Threads : Orderly(thread[u], slot, pos, buckets, items)
  BY DEF InternInv, Tables
<1>7. th.old = <<>>
  BY <1>1, <1>2, <1>6 DEF Orderly
<1>8. \A u \in Threads : Orderly(thread'[u], slot, pos, buckets, items)
  <2> TAKE u \in Threads
  <2>1. CASE u = t
    <3>1. thread[t].key = thread[t].input
      BY <1>1, <1>6 DEF Orderly
    <3>2. Orderly(th, slot, pos, buckets, items)
      BY <1>2, <1>7, <3>1 DEF Orderly, Wanted
    <3>3. QED  BY <1>1, <1>3, <2>1, <3>2
  <2>2. CASE u # t
    BY <1>1, <1>3, <1>6, <2>2
  <2>3. QED  BY <2>1, <2>2
<1>9. OldTable = <<>> /\ OldTable' = <<>>
  BY <1>1, <1>3, <1>7 DEF OldTable
<1>10. Tables'
  BY <1>1, <1>6, <1>8, <1>9 DEF Tables
<1>11. QED  BY <1>4, <1>5, <1>10 DEF InternInv

LEMMA ResolveStep ==
  ASSUME InternInv, NEW t \in Threads, Resolve(t)
  PROVE  InternInv'
<1> DEFINE real == Real[thread[t].input]
           key == IF real = Missing THEN "" ELSE real
           th == [thread[t] EXCEPT !.pc = "include", !.key = key]
<1>1. thread[t].pc = "resolve" /\ ~Outside(thread[t])
  BY DEF Resolve, Outside
<1>2. /\ thread[t] \in InternThread /\ thread \in [Threads -> InternThread]
      /\ resolved \in Strings
  BY <1>1, InsideKnows
<1>3. PICK slot, pos : /\ Chained(slot, pos, buckets, items, thread[t].old)
                       /\ Orderly(thread[t], slot, pos, buckets, items)
  BY <1>1, InsideKnows
<1>4. real \in Strings \cup {Missing} /\ key \in Strings
  BY <1>2, InternAssumption DEF InternThread
<1>5. /\ th \in InternThread /\ th.pc = "include" /\ th.key = key /\ th.old = thread[t].old
      /\ th.input = thread[t].input /\ th.path = thread[t].path
  BY <1>2, <1>4 DEF InternThread
<1>6. /\ resolved' = IF real = Missing THEN resolved ELSE real
      /\ thread' = [thread EXCEPT ![t].pc = "include",
                                  ![t].key = IF real = Missing THEN "" ELSE resolved']
      /\ UNCHANGED <<holder, buckets, items, count, returned>>
  BY DEF Resolve
<1>7. resolved' \in Strings /\ thread' = [thread EXCEPT ![t] = th]
  BY <1>2, <1>4, <1>6
<1> HIDE DEF th
<1>8. Orderly(th, slot, pos, buckets, items) /\ ~Outside(th)
  <2>1. th.old = <<>> /\ th.path
    BY <1>1, <1>3, <1>5 DEF Orderly
  <2>2. th.key = Wanted(th)
    BY <1>5, <2>1 DEF Wanted
  <2>3. QED  BY <1>5, <2>1, <2>2 DEF Orderly, Outside
<1>9. QED  BY <1>1, <1>3, <1>5, <1>6, <1>7, <1>8, QuietStep

LEMMA ResizeStartsStep ==
  ASSUME InternInv, NEW t \in Threads, ResizeStarts(t)
  PROVE  InternInv'
<1> DEFINE th == [thread[t] EXCEPT !.pc = "resize", !.old = buckets]
           n == NewSize
           new == Empty(n)
<1>1. thread[t].pc = "include" /\ ~Outside(thread[t])
  BY DEF ResizeStarts, Outside
<1>2. /\ holder = t /\ thread[t] \in InternThread /\ thread \in [Threads -> InternThread]
      /\ buckets \in Seq(Nat) /\ items \in Seq(Item) /\ count = Len(items)
      /\ resolved \in Strings /\ returned \in [Threads -> Seq(Answer)]
  BY <1>1, InsideKnows
<1>3. PICK slot, pos : /\ Chained(slot, pos, buckets, items, thread[t].old)
                       /\ Orderly(thread[t], slot, pos, buckets, items)
  BY <1>1, InsideKnows
<1>4. thread[t].old = <<>> /\ thread[t].key = Wanted(thread[t])
  BY <1>1, <1>3 DEF Orderly
<1>5. n \in Nat \ {0}
  <2>1. count \in Nat /\ FirstSize \in Nat \ {0}
    BY <1>2, LenProperties, InternAssumption
  <2>2. QED  BY <2>1 DEF NewSize
<1>6. /\ th \in InternThread /\ th.pc = "resize" /\ th.old = buckets
      /\ th.key = thread[t].key /\ th.input = thread[t].input /\ th.path = thread[t].path
  BY <1>2 DEF InternThread
<1>7. /\ thread' = [thread EXCEPT ![t] = th] /\ buckets' = new
      /\ UNCHANGED <<holder, items, count, resolved, returned>>
  BY <1>2 DEF ResizeStarts
<1> HIDE DEF n, th
<1>8. new \in Seq(Nat) /\ Len(new) = n
  BY <1>5 DEF Empty, Null
<1>9. PICK s : Chained(s, pos, new, items, buckets)
  <2>1. Len(items) > 0 => Len(buckets) > 0
    BY DEF InternInv, OneOfKey
  <2>2. Chained(slot, pos, buckets, items, <<>>)
    BY <1>3, <1>4
  <2>3. QED  BY <1>2, <1>5, <2>1, <2>2, ResizeStartsChained
<1> HIDE DEF new
<1>10. OneOfKey' /\ Answered'
  BY <1>5, <1>7, <1>8 DEF InternInv, OneOfKey, Answered
<1>11. Orderly(th, s, pos, new, items)
  <2>1. th.key = Wanted(th)
    BY <1>4, <1>6 DEF Wanted
  <2>2. Len(new) > 0
    BY <1>5, <1>8
  <2>3. QED  BY <1>6, <2>1, <2>2 DEF Orderly
<1>12. ~Outside(th)
  BY <1>6 DEF Outside
<1>13. /\ buckets' \in Seq(Nat) /\ items' \in Seq(Item) /\ count' = Len(items')
       /\ resolved' \in Strings /\ returned' \in [Threads -> Seq(Answer)]
       /\ holder' = IF Outside(th) THEN NoThread ELSE t
       /\ Chained(s, pos, buckets', items', th.old) /\ Orderly(th, s, pos, buckets', items')
  BY <1>2, <1>6, <1>7, <1>8, <1>9, <1>11, <1>12
<1>14. QED  BY <1>1, <1>6, <1>7, <1>10, <1>13, InsideStep

LEMMA ResizeMovesStep ==
  ASSUME InternInv, NEW t \in Threads, ResizeMoves(t)
  PROVE  InternInv'
<1> DEFINE old == thread[t].old
           m == Moving(old)
           item == old[m]
           b == BucketOf(items[item].key) + 1
           old2 == [old EXCEPT ![m] = items[item].next]
           items2 == [items EXCEPT ![item].next = buckets[b]]
           buckets2 == [buckets EXCEPT ![b] = item]
           th == [thread[t] EXCEPT !.old = old2]
<1>1. thread[t].pc = "resize" /\ ~Outside(thread[t])
  BY DEF ResizeMoves, Outside
<1>2. /\ holder = t /\ thread[t] \in InternThread /\ thread \in [Threads -> InternThread]
      /\ buckets \in Seq(Nat) /\ items \in Seq(Item) /\ count = Len(items)
      /\ resolved \in Strings /\ returned \in [Threads -> Seq(Answer)]
  BY <1>1, InsideKnows
<1>3. PICK slot, pos : /\ Chained(slot, pos, buckets, items, old)
                       /\ Orderly(thread[t], slot, pos, buckets, items)
  BY <1>1, InsideKnows
<1>4. old \in Seq(Nat) /\ Len(buckets) > 0 /\ thread[t].key = Wanted(thread[t])
  BY <1>1, <1>2, <1>3 DEF InternThread, Orderly
<1>5. m \in 1..Len(old) /\ old[m] # Null
  BY DEF ResizeMoves, Moving
<1>6. b = BucketIn(items[item].key, Len(buckets)) + 1
  BY DEF BucketOf, BucketIn, Size
<1>7. thread' = [thread EXCEPT ![t].old[m] = items[item].next]
  BY DEF ResizeMoves
<1>8. /\ items' = items2 /\ buckets' = buckets2
      /\ UNCHANGED <<holder, count, resolved, returned>>
  BY DEF ResizeMoves
<1> HIDE DEF m, b
<1>9. /\ item \in DOMAIN items /\ b \in 1..Len(buckets) /\ items[item].next \in Nat
      /\ \E s, p : Chained(s, p, buckets2, items2, old2)
  <2> HIDE DEF old, item, items2, buckets2, old2
  <2>1. item = old[m]
    BY DEF item
  <2>2. /\ item \in DOMAIN items /\ b \in 1..Len(buckets) /\ items[item].next \in Nat
        /\ \E s, p : Chained(s, p, [buckets EXCEPT ![b] = item],
                             [items EXCEPT ![item].next = buckets[b]],
                             [old EXCEPT ![m] = items[item].next])
    BY <1>2, <1>3, <1>4, <1>5, <1>6, <2>1, ResizeMovesChained
  <2>3. QED  BY <2>2 DEF items2, buckets2, old2
<1>10. PICK s, p : Chained(s, p, buckets2, items2, old2)
  BY <1>9
<1>11. old2 \in Seq(Nat)
  BY <1>4, <1>5, <1>9, ExceptSeq
<1>12. /\ th \in InternThread /\ th.pc = "resize" /\ th.old = old2
       /\ th.key = thread[t].key /\ th.input = thread[t].input /\ th.path = thread[t].path
  <2> HIDE DEF old2
  <2>1. QED  BY <1>1, <1>2, <1>11 DEF InternThread
<1>13. thread' = [thread EXCEPT ![t] = th]
  BY <1>2, <1>7 DEF InternThread
<1>14. /\ buckets2 \in Seq(Nat) /\ Len(buckets2) = Len(buckets)
  <2>1. item \in Nat
    BY <1>4, <1>5, ElementOfSeq
  <2> HIDE DEF item
  <2>2. QED  BY <1>2, <1>9, <2>1, ExceptSeq
<1>15. /\ items2 \in Seq(Item) /\ Len(items2) = Len(items)
       /\ \A i \in DOMAIN items : items2[i].key = items[i].key
       /\ DOMAIN items2 = DOMAIN items
  <2>1. items[item] \in [key : Strings, next : Nat] /\ buckets[b] \in Nat
        /\ item \in 1..Len(items)
    BY <1>2, <1>9, ElementOfSeq, LenProperties DEF Item
  <2> HIDE DEF item
  <2> DEFINE it == [items[item] EXCEPT !.next = buckets[b]]
  <2>2. it \in Item /\ it.key = items[item].key
    BY <2>1 DEF Item
  <2>3. items2 = [items EXCEPT ![item] = it]
    BY <2>1
  <2> HIDE DEF it, items2
  <2>4. /\ items2 \in Seq(Item) /\ Len(items2) = Len(items)
        /\ \A j \in 1..Len(items) : items2[j] = IF j = item THEN it ELSE items[j]
    BY <1>2, <2>1, <2>2, <2>3, ExceptSeq
  <2>5. DOMAIN items2 = 1..Len(items2) /\ DOMAIN items = 1..Len(items)
    BY <1>2, <2>4, LenProperties
  <2>6. QED  BY <2>2, <2>4, <2>5
<1> HIDE DEF old, item, old2, items2, buckets2, th
<1>16. OneOfKey'
  BY <1>4, <1>8, <1>14, <1>15 DEF InternInv, OneOfKey
<1>17. Answered'
  <2> SUFFICES ASSUME NEW u \in Threads, NEW k \in 1..Len(returned[u])
               PROVE  /\ returned[u][k].address \in DOMAIN items2
                      /\ items2[returned[u][k].address].key = Wanted(returned[u][k])
    BY <1>8 DEF Answered
  <2>1. /\ returned[u][k].address \in DOMAIN items
        /\ items[returned[u][k].address].key = Wanted(returned[u][k])
    BY DEF InternInv, Answered
  <2>2. QED  BY <1>15, <2>1
<1>18. Orderly(th, s, p, buckets2, items2)
  <2>1. th.key = Wanted(th)
    BY <1>4, <1>12 DEF Wanted
  <2>2. QED  BY <1>4, <1>12, <1>14, <2>1 DEF Orderly
<1>19. ~Outside(th)
  BY <1>12 DEF Outside
<1>20. /\ buckets' \in Seq(Nat) /\ items' \in Seq(Item) /\ count' = Len(items')
       /\ resolved' \in Strings /\ returned' \in [Threads -> Seq(Answer)]
       /\ holder' = IF Outside(th) THEN NoThread ELSE t
       /\ Chained(s, p, buckets', items', th.old) /\ Orderly(th, s, p, buckets', items')
  BY <1>2, <1>8, <1>10, <1>12, <1>14, <1>15, <1>18, <1>19
<1>21. QED  BY <1>1, <1>12, <1>13, <1>16, <1>17, <1>20, InsideStep

LEMMA ResizeEndsStep ==
  ASSUME InternInv, NEW t \in Threads, ResizeEnds(t)
  PROVE  InternInv'
<1> DEFINE th == [thread[t] EXCEPT !.pc = "bucket", !.old = <<>>]
<1>1. thread[t].pc = "resize" /\ ~Outside(thread[t])
  BY DEF ResizeEnds, Outside
<1>2. /\ thread[t] \in InternThread /\ thread \in [Threads -> InternThread]
      /\ items \in Seq(Item) /\ resolved \in Strings
  BY <1>1, InsideKnows
<1>3. PICK slot, pos : /\ Chained(slot, pos, buckets, items, thread[t].old)
                       /\ Orderly(thread[t], slot, pos, buckets, items)
  BY <1>1, InsideKnows
<1>4. /\ th \in InternThread /\ th.pc = "bucket" /\ th.old = <<>>
      /\ th.key = thread[t].key /\ th.input = thread[t].input /\ th.path = thread[t].path
  <2>1. <<>> \in Seq(Nat)
    BY EmptySeq
  <2>2. QED  BY <1>2, <2>1 DEF InternThread
<1>5. /\ thread' = [thread EXCEPT ![t] = th]
      /\ UNCHANGED <<holder, buckets, items, count, resolved, returned>>
      /\ \A b \in 1..Len(thread[t].old) : thread[t].old[b] = Null
  BY <1>2 DEF ResizeEnds
<1> HIDE DEF th
<1>6. Chained(slot, pos, buckets, items, th.old)
  <2>1. thread[t].old \in Seq(Nat)
    BY <1>2 DEF InternThread
  <2>2. Chained(slot, pos, buckets, items, <<>>)
    BY <1>2, <1>3, <1>5, <2>1, ResizeEndsChained
  <2>3. QED  BY <1>4, <2>2
<1>7. Orderly(th, slot, pos, buckets, items)
  <2>1. th.key = Wanted(th) /\ Len(buckets) > 0
    BY <1>1, <1>3, <1>4 DEF Orderly, Wanted
  <2>2. QED  BY <1>4, <2>1 DEF Orderly
<1>8. ~Outside(th)
  BY <1>4 DEF Outside
<1>9. QED  BY <1>1, <1>2, <1>4, <1>5, <1>6, <1>7, <1>8, QuietStep

LEMMA FindBucketStep ==
  ASSUME InternInv, NEW t \in Threads, FindBucket(t)
  PROVE  InternInv'
<1> DEFINE spot == <<"bucket", BucketOf(thread[t].key)>>
           th == [thread[t] EXCEPT !.pc = "match", !.place = spot]
<1>1. thread[t].pc \in {"bucket", "include"} /\ ~Outside(thread[t])
  BY DEF FindBucket, Outside
<1>2. /\ thread[t] \in InternThread /\ thread \in [Threads -> InternThread]
      /\ items \in Seq(Item) /\ buckets \in Seq(Nat) /\ resolved \in Strings
      /\ count = Len(items)
  BY <1>1, InsideKnows
<1>3. PICK slot, pos : /\ Chained(slot, pos, buckets, items, thread[t].old)
                       /\ Orderly(thread[t], slot, pos, buckets, items)
  BY <1>1, InsideKnows
<1>4. Len(buckets) > 0
  <2>1. CASE thread[t].pc = "bucket"
    BY <1>3, <2>1 DEF Orderly
  <2>2. CASE thread[t].pc # "bucket"
    <3>1. ~Full /\ count \in Nat /\ Len(buckets) \in Nat
      BY <1>2, <2>2, LenProperties DEF FindBucket
    <3>2. QED  BY <3>1 DEF Full, Size
  <2>3. QED  BY <2>1, <2>2
<1>5. spot[2] = BucketIn(thread[t].key, Len(buckets)) /\ spot[2] \in Nat
  <2>1. thread[t].key \in Strings /\ Len(buckets) \in Nat \ {0}
    BY <1>2, <1>4, LenProperties DEF InternThread
  <2>2. BucketIn(thread[t].key, Len(buckets)) \in Nat
    BY <2>1, BucketIsOne
  <2>3. QED  BY <2>2 DEF BucketOf, BucketIn, Size
<1>6. /\ thread' = [thread EXCEPT ![t] = th]
      /\ UNCHANGED <<holder, buckets, items, count, resolved, returned>>
  BY <1>2 DEF FindBucket
<1>7. spot = <<"bucket", BucketIn(thread[t].key, Len(buckets))>>
  BY <1>5
<1>8. spot \in {"bucket", "next"} \X Nat
  BY <1>5
<1> HIDE DEF spot
<1>9. /\ th \in InternThread /\ th.pc = "match" /\ th.old = thread[t].old /\ th.place = spot
      /\ th.key = thread[t].key /\ th.input = thread[t].input /\ th.path = thread[t].path
  BY <1>2, <1>8 DEF InternThread
<1> HIDE DEF th
<1>10. Orderly(th, slot, pos, buckets, items)
  <2>1. th.key = Wanted(th) /\ th.old = <<>>
    BY <1>1, <1>3, <1>9 DEF Orderly, Wanted
  <2>2. Searched(th.place, th.key, slot, pos, buckets, items)
    BY <1>7, <1>9 DEF Searched
  <2>3. QED  BY <1>4, <1>9, <2>1, <2>2 DEF Orderly
<1>11. ~Outside(th)
  BY <1>9 DEF Outside
<1>12. Chained(slot, pos, buckets, items, th.old)
  BY <1>3, <1>9
<1>13. QED  BY <1>1, <1>2, <1>6, <1>9, <1>10, <1>11, <1>12, QuietStep

\* What is at the place a search has come to: nothing, and then nothing of the key
\* is in the table, or an item of the chain, and what is wanted is not before it.
LEMMA SearchedPlace ==
  ASSUME NEW its \in Seq(Item), NEW bk \in Seq(Nat), NEW slot, NEW pos,
         Chained(slot, pos, bk, its, <<>>), Len(bk) > 0, NEW key \in Strings,
         NEW spot \in {"bucket", "next"} \X Nat, Searched(spot, key, slot, pos, bk, its),
         NEW a, a = AddressAt(spot, bk, its), NEW b, b = BucketIn(key, Len(bk))
  PROVE  /\ a = Null => \A i \in DOMAIN its : its[i].key # key
         /\ a # Null => /\ a \in DOMAIN its /\ slot[a] = b + 1
                        /\ \A i \in DOMAIN its : its[i].key = key => pos[a] <= pos[i]
<1>1. /\ Len(its) \in Nat /\ DOMAIN its = 1..Len(its) /\ Len(bk) \in Nat \ {0}
      /\ slot \in [DOMAIN its -> Int] /\ pos \in [DOMAIN its -> Int] /\ Len(<<>>) = 0
  <2>1. Len(its) \in Nat /\ DOMAIN its = 1..Len(its) /\ Len(bk) \in Nat
    BY LenProperties
  <2>2. QED  BY <2>1 DEF Chained
<1>2. \A i \in DOMAIN its : its[i].key = key => slot[i] = b + 1
  <2> TAKE i \in DOMAIN its
  <2> HAVE its[i].key = key
  <2>1. slot[i] = BucketIn(its[i].key, Len(bk)) + 1
    BY <1>1 DEF Chained
  <2>2. QED  BY <2>1
<1>3. b \in 0..Len(bk) - 1
  BY <1>1, BucketIsOne
<1>4. CASE spot = <<"bucket", b>>
  <2>1. a = bk[b + 1] /\ b + 1 \in 1..Len(bk)
    BY <1>1, <1>3, <1>4 DEF AddressAt
  <2>2. Begins(a, b + 1, slot, pos, its)
    BY <2>1 DEF Chained
  <2>3. QED  BY <1>2, <2>2 DEF Begins
<1>5. CASE spot # <<"bucket", b>>
  <2> DEFINE last == spot[2]
  <2>1. /\ spot[1] = "next" /\ last \in DOMAIN its /\ slot[last] = b + 1
        /\ \A i \in DOMAIN its : its[i].key = key => pos[last] < pos[i]
    BY <1>5 DEF Searched
  <2>2. a = its[last].next
    BY <2>1 DEF AddressAt
  <2>3. Follows(last, slot, pos, its)
    BY <2>1 DEF Chained
  <2> HIDE DEF last
  <2>4. CASE a = Null
    <3>1. \A i \in DOMAIN its : slot[i] = b + 1 => pos[i] <= pos[last]
      BY <2>1, <2>2, <2>3, <2>4 DEF Follows
    <3>2. \A i \in DOMAIN its : its[i].key # key
      <4> SUFFICES ASSUME NEW i \in DOMAIN its, its[i].key = key PROVE FALSE
        OBVIOUS
      <4>1. pos[i] <= pos[last] /\ pos[last] < pos[i]
        BY <1>2, <2>1, <3>1
      <4>2. QED  BY <1>1, <2>1, <4>1
    <3>3. QED  BY <2>4, <3>2
  <2>5. CASE a # Null
    <3>1. a \in DOMAIN its /\ slot[a] = b + 1 /\ pos[a] = pos[last] + 1
      BY <2>1, <2>2, <2>3, <2>5 DEF Follows
    <3>2. \A i \in DOMAIN its : its[i].key = key => pos[a] <= pos[i]
      <4> TAKE i \in DOMAIN its
      <4> HAVE its[i].key = key
      <4>1. pos[last] < pos[i] /\ pos[last] \in Int /\ pos[i] \in Int
        BY <1>1, <2>1
      <4>2. QED  BY <3>1, <4>1
    <3>3. QED  BY <2>5, <3>1, <3>2
  <2>6. QED  BY <2>4, <2>5
<1>6. QED  BY <1>4, <1>5

LEMMA MatchGoesOnStep ==
  ASSUME InternInv, NEW t \in Threads, MatchGoesOn(t)
  PROVE  InternInv'
<1> DEFINE a == At(thread[t].place)
           spot == <<"next", a>>
           th == [thread[t] EXCEPT !.place = spot]
<1>1. thread[t].pc = "match" /\ ~Outside(thread[t])
  BY DEF MatchGoesOn, Outside
<1>2. /\ thread[t] \in InternThread /\ thread \in [Threads -> InternThread]
      /\ items \in Seq(Item) /\ buckets \in Seq(Nat) /\ resolved \in Strings
  BY <1>1, InsideKnows
<1>3. PICK slot, pos : /\ Chained(slot, pos, buckets, items, thread[t].old)
                       /\ Orderly(thread[t], slot, pos, buckets, items)
  BY <1>1, InsideKnows
<1>4. /\ thread[t].old = <<>> /\ Len(buckets) > 0 /\ thread[t].key = Wanted(thread[t])
      /\ Searched(thread[t].place, thread[t].key, slot, pos, buckets, items)
  BY <1>1, <1>3 DEF Orderly
<1>5. /\ thread[t].key \in Strings /\ thread[t].place \in {"bucket", "next"} \X Nat
  BY <1>2 DEF InternThread
<1>6. /\ a # Null /\ items[a].key # thread[t].key
      /\ thread' = [thread EXCEPT ![t].place = spot]
      /\ UNCHANGED <<holder, buckets, items, count, resolved, returned>>
  BY DEF MatchGoesOn, IsMatch
<1>7. a = AddressAt(thread[t].place, buckets, items)
  BY DEF At, AddressAt
<1> HIDE DEF a
<1>8. /\ a \in DOMAIN items /\ slot[a] = BucketIn(thread[t].key, Len(buckets)) + 1
      /\ \A i \in DOMAIN items : items[i].key = thread[t].key => pos[a] <= pos[i]
  BY <1>2, <1>3, <1>4, <1>5, <1>6, <1>7, SearchedPlace
<1>9. /\ DOMAIN items = 1..Len(items) /\ Len(items) \in Nat /\ pos \in [DOMAIN items -> Int]
      /\ \A i, j \in DOMAIN items : slot[i] = slot[j] /\ pos[i] = pos[j] => i = j
      /\ \A i \in DOMAIN items : slot[i] = BucketIn(items[i].key, Len(buckets)) + 1
  <2>1. DOMAIN items = 1..Len(items) /\ Len(items) \in Nat /\ Len(<<>>) = 0
    BY <1>2, LenProperties
  <2>2. Chained(slot, pos, buckets, items, <<>>)
    BY <1>3, <1>4
  <2>3. slot \in [DOMAIN items -> Int] /\ pos \in [DOMAIN items -> Int]
    BY <2>2 DEF Chained
  <2>4. \A i \in DOMAIN items : slot[i] = BucketIn(items[i].key, Len(buckets)) + 1
    BY <2>1, <2>2, <2>3 DEF Chained
  <2>5. \A i, j \in DOMAIN items : slot[i] = slot[j] /\ pos[i] = pos[j] => i = j
    BY <2>2 DEF Chained
  <2>6. QED  BY <2>1, <2>3, <2>4, <2>5
<1>10. \A i \in DOMAIN items : items[i].key = thread[t].key => pos[a] < pos[i]
  <2> TAKE i \in DOMAIN items
  <2> HAVE items[i].key = thread[t].key
  <2>1. pos[a] <= pos[i] /\ pos[a] \in Int /\ pos[i] \in Int
    BY <1>8, <1>9
  <2>2. pos[a] # pos[i]
    BY <1>6, <1>8, <1>9
  <2>3. QED  BY <2>1, <2>2
<1>11. a \in Nat /\ spot[1] = "next" /\ spot[2] = a /\ spot \in {"bucket", "next"} \X Nat
  BY <1>8, <1>9
<1> HIDE DEF spot
<1>12. /\ th \in InternThread /\ th.pc = "match" /\ th.old = thread[t].old /\ th.place = spot
       /\ th.key = thread[t].key /\ th.input = thread[t].input /\ th.path = thread[t].path
  BY <1>1, <1>2, <1>11 DEF InternThread
<1>13. thread' = [thread EXCEPT ![t] = th]
  BY <1>2, <1>6
<1> HIDE DEF th
<1>14. Orderly(th, slot, pos, buckets, items)
  <2>1. th.key = Wanted(th) /\ th.old = <<>>
    BY <1>4, <1>12 DEF Wanted
  <2>2. Searched(th.place, th.key, slot, pos, buckets, items)
    BY <1>8, <1>10, <1>11, <1>12 DEF Searched
  <2>3. QED  BY <1>4, <1>12, <2>1, <2>2 DEF Orderly
<1>15. ~Outside(th)
  BY <1>12 DEF Outside
<1>16. Chained(slot, pos, buckets, items, th.old)
  BY <1>3, <1>12
<1>17. QED  BY <1>1, <1>2, <1>6, <1>12, <1>13, <1>14, <1>15, <1>16, QuietStep

LEMMA MatchFindsStep ==
  ASSUME InternInv, NEW t \in Threads, MatchFinds(t)
  PROVE  InternInv'
<1> DEFINE a == At(thread[t].place)
           th == [thread[t] EXCEPT !.pc = "unlock"]
<1>1. thread[t].pc = "match" /\ ~Outside(thread[t])
  BY DEF MatchFinds, Outside
<1>2. /\ thread[t] \in InternThread /\ thread \in [Threads -> InternThread]
      /\ items \in Seq(Item) /\ buckets \in Seq(Nat) /\ resolved \in Strings
  BY <1>1, InsideKnows
<1>3. PICK slot, pos : /\ Chained(slot, pos, buckets, items, thread[t].old)
                       /\ Orderly(thread[t], slot, pos, buckets, items)
  BY <1>1, InsideKnows
<1>4. /\ thread[t].old = <<>> /\ Len(buckets) > 0 /\ thread[t].key = Wanted(thread[t])
      /\ Searched(thread[t].place, thread[t].key, slot, pos, buckets, items)
  BY <1>1, <1>3 DEF Orderly
<1>5. /\ thread[t].key \in Strings /\ thread[t].place \in {"bucket", "next"} \X Nat
  BY <1>2 DEF InternThread
<1>6. /\ a # Null /\ items[a].key = thread[t].key
      /\ UNCHANGED <<holder, buckets, items, count, resolved, returned>>
  BY DEF MatchFinds, IsMatch
<1>7. a = AddressAt(thread[t].place, buckets, items)
  BY DEF At, AddressAt
<1>8. thread' = [thread EXCEPT ![t] = th]
  BY <1>2 DEF MatchFinds, GoesTo
<1> HIDE DEF a
<1>9. a \in DOMAIN items
  BY <1>2, <1>3, <1>4, <1>5, <1>6, <1>7, SearchedPlace
<1>10. /\ th \in InternThread /\ th.pc = "unlock" /\ th.old = thread[t].old
       /\ th.place = thread[t].place
       /\ th.key = thread[t].key /\ th.input = thread[t].input /\ th.path = thread[t].path
  BY <1>2 DEF InternThread
<1> HIDE DEF th
<1>11. Orderly(th, slot, pos, buckets, items)
  <2>1. th.key = Wanted(th)
    BY <1>4, <1>10 DEF Wanted
  <2>2. AddressAt(th.place, buckets, items) = a
    BY <1>7, <1>10
  <2>3. QED  BY <1>4, <1>6, <1>9, <1>10, <2>1, <2>2 DEF Orderly
<1>12. ~Outside(th)
  BY <1>10 DEF Outside
<1>13. Chained(slot, pos, buckets, items, th.old)
  BY <1>3, <1>10
<1>14. QED  BY <1>1, <1>2, <1>6, <1>8, <1>10, <1>11, <1>12, <1>13, QuietStep

LEMMA InsertStep ==
  ASSUME InternInv, NEW t \in Threads, Insert(t)
  PROVE  InternInv'
<1> DEFINE spot == thread[t].place
           key == thread[t].key
           b == BucketIn(key, Len(buckets)) + 1
           new == Len(items) + 1
           last == IF spot[1] = "next" THEN spot[2] ELSE Null
           linked == IF last = Null THEN items ELSE [items EXCEPT ![last].next = new]
           items2 == Append(linked, [key |-> key, next |-> Null])
           buckets2 == IF last = Null THEN [buckets EXCEPT ![b] = new] ELSE buckets
           th == [thread[t] EXCEPT !.pc = "unlock"]
<1>1. thread[t].pc = "match" /\ ~Outside(thread[t])
  BY DEF Insert, Outside
<1>2. /\ holder = t /\ thread[t] \in InternThread /\ thread \in [Threads -> InternThread]
      /\ buckets \in Seq(Nat) /\ items \in Seq(Item) /\ count = Len(items)
      /\ resolved \in Strings /\ returned \in [Threads -> Seq(Answer)]
  BY <1>1, InsideKnows
<1>3. PICK slot, pos : /\ Chained(slot, pos, buckets, items, thread[t].old)
                       /\ Orderly(thread[t], slot, pos, buckets, items)
  BY <1>1, InsideKnows
<1>4. /\ thread[t].old = <<>> /\ Len(buckets) > 0 /\ key = Wanted(thread[t])
      /\ Searched(spot, key, slot, pos, buckets, items)
      /\ Chained(slot, pos, buckets, items, <<>>)
  BY <1>1, <1>3 DEF Orderly
<1>5. key \in Strings /\ spot \in {"bucket", "next"} \X Nat
  BY <1>2 DEF InternThread
<1>6. /\ Len(items) \in Nat /\ DOMAIN items = 1..Len(items) /\ Len(buckets) \in Nat \ {0}
      /\ BucketIn(key, Len(buckets)) \in 0..Len(buckets) - 1
  <2>1. Len(items) \in Nat /\ DOMAIN items = 1..Len(items) /\ Len(buckets) \in Nat \ {0}
    BY <1>2, <1>4, LenProperties
  <2>2. QED  BY <1>5, <2>1, BucketIsOne
<1>7. At(spot) = Null /\ At(spot) = AddressAt(spot, buckets, items)
  BY DEF Insert, At, AddressAt
<1>8. \A i \in DOMAIN items : items[i].key # key
  <2> HIDE DEF key, spot
  <2>1. QED  BY <1>2, <1>4, <1>5, <1>7, SearchedPlace
<1>9. b \in 1..Len(buckets)
  BY <1>6
<1>10. \/ last = Null /\ buckets[b] = Null /\ spot[1] = "bucket" /\ spot[2] + 1 = b
       \/ /\ last \in DOMAIN items /\ slot[last] = b /\ items[last].next = Null
          /\ last # Null /\ spot[1] = "next" /\ spot[2] = last
  <2>1. CASE spot = <<"bucket", BucketIn(key, Len(buckets))>>
    BY <1>7, <2>1 DEF AddressAt
  <2>2. CASE spot # <<"bucket", BucketIn(key, Len(buckets))>>
    <3>1. spot[1] = "next" /\ spot[2] \in DOMAIN items /\ slot[spot[2]] = b
      BY <1>4, <2>2 DEF Searched
    <3>2. QED  BY <1>6, <1>7, <3>1 DEF AddressAt, Null
  <2>3. QED  BY <2>1, <2>2
<1>11. items' = items2 /\ buckets' = buckets2
  <2>1. /\ items' = Append(IF spot[1] = "next" THEN [items EXCEPT ![spot[2]].next = new]
                           ELSE items, [key |-> key, next |-> Null])
        /\ buckets' = IF spot[1] = "bucket" THEN [buckets EXCEPT ![spot[2] + 1] = new]
                      ELSE buckets
    BY DEF Insert
  <2> HIDE DEF spot, key, b, new
  <2>2. QED  BY <1>10, <2>1
<1>12. /\ count' = count + 1 /\ UNCHANGED <<holder, resolved, returned>>
       /\ thread' = [thread EXCEPT ![t] = th]
  BY <1>2 DEF Insert, GoesTo
<1>13. /\ th \in InternThread /\ th.pc = "unlock" /\ th.old = <<>> /\ th.place = spot
       /\ th.key = key /\ th.input = thread[t].input /\ th.path = thread[t].path
  BY <1>2, <1>4 DEF InternThread
<1> HIDE DEF th
<1>14. \E s, p : Chained(s, p, buckets2, items2, <<>>)
  <2>1. \/ last = Null /\ buckets[b] = Null
        \/ last \in DOMAIN items /\ slot[last] = b /\ items[last].next = Null
    BY <1>10
  <2> DEFINE s1 == slot
  <2> HIDE DEF key, last
  <2>2. QED  BY <1>2, <1>4, <1>5, <2>1, InsertChained
<1>15. PICK s, p : Chained(s, p, buckets2, items2, <<>>)
  BY <1>14
<1>16. /\ buckets2 \in Seq(Nat) /\ Len(buckets2) = Len(buckets)
       /\ (last = Null => buckets2[b] = new)
       /\ items2 \in Seq(Item) /\ Len(items2) = new /\ new \in DOMAIN items2
       /\ \A i \in DOMAIN items : i \in DOMAIN items2 /\ items2[i].key = items[i].key
       /\ \A i \in DOMAIN items2 : i \in DOMAIN items \/ i = new
       /\ items2[new].key = key /\ (last # Null => items2[last].next = new)
  <2> DEFINE one == [key |-> key, next |-> Null]
  <2> HIDE DEF spot, key, b, last
  <2>1. new \in Nat \ {0} /\ new \notin DOMAIN items /\ 1..new = DOMAIN items \cup {new}
    BY <1>6
  <2>2. buckets2 \in Seq(Nat) /\ Len(buckets2) = Len(buckets) /\ (last = Null => buckets2[b] = new)
    <3>1. CASE last = Null
      <4>1. buckets2 = [buckets EXCEPT ![b] = new]
        BY <3>1
      <4> HIDE DEF buckets2, new
      <4>2. QED  BY <1>2, <1>9, <2>1, <4>1, ExceptSeq
    <3>2. CASE last # Null
      BY <1>2, <3>2
    <3>3. QED  BY <3>1, <3>2
  <2>3. /\ linked \in Seq(Item) /\ Len(linked) = Len(items)
        /\ \A i \in DOMAIN items : linked[i].key = items[i].key
        /\ last # Null => last \in DOMAIN items /\ linked[last].next = new
    <3>1. CASE last = Null
      BY <1>2, <3>1
    <3>2. CASE last # Null
      <4>1. last \in 1..Len(items) /\ items[last] \in [key : Strings, next : Nat]
        BY <1>2, <1>6, <1>10, <3>2, ElementOfSeq DEF Item
      <4> DEFINE it == [items[last] EXCEPT !.next = new]
      <4>2. it \in Item /\ it.key = items[last].key /\ it.next = new
        BY <2>1, <4>1 DEF Item
      <4>3. linked = [items EXCEPT ![last] = it]
        BY <3>2
      <4> HIDE DEF it, linked, new
      <4>4. /\ linked \in Seq(Item) /\ Len(linked) = Len(items)
            /\ \A j \in 1..Len(items) : linked[j] = IF j = last THEN it ELSE items[j]
        BY <1>2, <4>1, <4>2, <4>3, ExceptSeq
      <4>5. QED  BY <1>6, <4>1, <4>2, <4>4
    <3>3. QED  BY <3>1, <3>2
  <2> HIDE DEF linked
  <2>4. one \in Item /\ one.key = key
    BY <1>5 DEF Item, Null
  <2>5. items2 = Append(linked, one)
    OBVIOUS
  <2> HIDE DEF one, items2
  <2>6. /\ items2 \in Seq(Item) /\ Len(items2) = new
        /\ \A i \in 1..Len(items) : items2[i] = linked[i]
        /\ items2[new] = one
    BY <2>3, <2>4, <2>5, AppendProperties
  <2>7. DOMAIN items2 = 1..new
    BY <2>6, LenProperties
  <2> HIDE DEF new
  <2>8. \A i \in DOMAIN items : i \in DOMAIN items2 /\ items2[i].key = items[i].key
    BY <1>6, <2>1, <2>3, <2>6, <2>7
  <2>9. /\ \A i \in DOMAIN items2 : i \in DOMAIN items \/ i = new
        /\ new \in DOMAIN items2 /\ items2[new].key = key
    BY <2>1, <2>4, <2>6, <2>7
  <2>10. last # Null => items2[last].next = new
    BY <1>6, <2>3, <2>6
  <2>11. QED  BY <2>2, <2>6, <2>8, <2>9, <2>10
<1> HIDE DEF items2, buckets2
<1>17. OneOfKey'
  <2>1. \A i, j \in DOMAIN items2 : items2[i].key = items2[j].key => i = j
    <3>1. \A i, j \in DOMAIN items : items[i].key = items[j].key => i = j
      BY DEF InternInv, OneOfKey
    <3> HIDE DEF key, new
    <3>2. QED  BY <1>8, <1>16, <3>1, SMTT(30)
  <2>2. QED  BY <1>4, <1>11, <1>16, <2>1 DEF OneOfKey
<1>18. Answered'
  <2> SUFFICES ASSUME NEW u \in Threads, NEW k \in 1..Len(returned[u])
               PROVE  /\ returned[u][k].address \in DOMAIN items2
                      /\ items2[returned[u][k].address].key = Wanted(returned[u][k])
    BY <1>11, <1>12 DEF Answered
  <2>1. /\ returned[u][k].address \in DOMAIN items
        /\ items[returned[u][k].address].key = Wanted(returned[u][k])
    BY DEF InternInv, Answered
  <2>2. QED  BY <1>16, <2>1
<1>19. Orderly(th, s, p, buckets2, items2)
  <2>1. th.key = Wanted(th)
    BY <1>4, <1>13 DEF Wanted
  <2>2. AddressAt(th.place, buckets2, items2) = new
    <3> HIDE DEF b, new, spot, last
    <3>1. QED  BY <1>10, <1>13, <1>16 DEF AddressAt
  <2>3. QED  BY <1>13, <1>16, <2>1, <2>2 DEF Orderly
<1>20. ~Outside(th)
  BY <1>13 DEF Outside
<1>21. /\ buckets' \in Seq(Nat) /\ items' \in Seq(Item) /\ count' = Len(items')
       /\ resolved' \in Strings /\ returned' \in [Threads -> Seq(Answer)]
       /\ holder' = IF Outside(th) THEN NoThread ELSE t
       /\ Chained(s, p, buckets', items', th.old) /\ Orderly(th, s, p, buckets', items')
  BY <1>2, <1>11, <1>12, <1>13, <1>15, <1>16, <1>19, <1>20
<1>22. QED  BY <1>1, <1>12, <1>13, <1>17, <1>18, <1>21, InsideStep

LEMMA UnlockStep ==
  ASSUME InternInv, NEW t \in Threads, Unlock(t)
  PROVE  InternInv'
<1> DEFINE th == [thread[t] EXCEPT !.pc = "rest"]
           answer == [input |-> thread[t].input, path |-> thread[t].path,
                      address |-> At(thread[t].place)]
<1>1. thread[t].pc = "unlock" /\ ~Outside(thread[t])
  BY DEF Unlock, Outside
<1>2. /\ holder = t /\ thread[t] \in InternThread /\ thread \in [Threads -> InternThread]
      /\ buckets \in Seq(Nat) /\ items \in Seq(Item) /\ count = Len(items)
      /\ resolved \in Strings /\ returned \in [Threads -> Seq(Answer)]
  BY <1>1, InsideKnows
<1>3. PICK slot, pos : /\ Chained(slot, pos, buckets, items, thread[t].old)
                       /\ Orderly(thread[t], slot, pos, buckets, items)
  BY <1>1, InsideKnows
<1>4. /\ thread[t].old = <<>> /\ thread[t].key = Wanted(thread[t])
      /\ AddressAt(thread[t].place, buckets, items) \in DOMAIN items
      /\ items[AddressAt(thread[t].place, buckets, items)].key = thread[t].key
  BY <1>1, <1>3 DEF Orderly
<1>5. At(thread[t].place) = AddressAt(thread[t].place, buckets, items)
  BY DEF At, AddressAt
<1>6. /\ holder' = NoThread /\ returned' = [returned EXCEPT ![t] = Append(@, answer)]
      /\ thread' = [thread EXCEPT ![t] = th]
      /\ UNCHANGED <<buckets, items, count, resolved>>
  BY <1>2 DEF Unlock, GoesTo
<1>7. /\ answer.address \in DOMAIN items /\ items[answer.address].key = Wanted(answer)
      /\ answer \in Answer
  <2>1. answer.address \in DOMAIN items /\ items[answer.address].key = Wanted(answer)
    BY <1>4, <1>5 DEF Wanted
  <2>2. /\ thread[t].input \in Strings /\ thread[t].path \in BOOLEAN
        /\ DOMAIN items = 1..Len(items) /\ Len(items) \in Nat
    BY <1>2, LenProperties DEF InternThread
  <2>3. At(thread[t].place) \in Nat
    BY <1>4, <1>5, <2>2
  <2>4. QED  BY <2>1, <2>2, <2>3 DEF Answer
<1> HIDE DEF answer
<1>8. /\ th \in InternThread /\ th.pc = "rest" /\ th.old = <<>> /\ Outside(th)
  BY <1>2, <1>4 DEF InternThread, Outside
<1> HIDE DEF th
<1>9. returned' \in [Threads -> Seq(Answer)] /\ Answered'
  <2>1. \A u \in Threads : returned[u] \in Seq(Answer) /\ Len(returned[u]) \in Nat
    BY <1>2, LenProperties
  <2>2. /\ Append(returned[t], answer) \in Seq(Answer)
        /\ Len(Append(returned[t], answer)) = Len(returned[t]) + 1
        /\ \A k \in 1..Len(returned[t]) : Append(returned[t], answer)[k] = returned[t][k]
        /\ Append(returned[t], answer)[Len(returned[t]) + 1] = answer
    BY <1>7, <2>1, AppendProperties
  <2> DEFINE more == Append(returned[t], answer)
  <2>3. /\ returned'[t] = more /\ \A u \in Threads \ {t} : returned'[u] = returned[u]
        /\ returned' = [returned EXCEPT ![t] = more]
    BY <1>2, <1>6
  <2> HIDE DEF more
  <2>4. more \in Seq(Answer)
    BY <2>2 DEF more
  <2>5. returned' \in [Threads -> Seq(Answer)]
    BY <1>2, <2>3, <2>4
  <2>6. Answered'
    <3> SUFFICES ASSUME NEW u \in Threads, NEW k \in 1..Len(returned'[u])
                 PROVE  /\ returned'[u][k].address \in DOMAIN items
                        /\ items[returned'[u][k].address].key = Wanted(returned'[u][k])
      BY <1>6 DEF Answered
    <3>1. \A v \in Threads : \A n \in 1..Len(returned[v]) :
            /\ returned[v][n].address \in DOMAIN items
            /\ items[returned[v][n].address].key = Wanted(returned[v][n])
      BY DEF InternInv, Answered
    <3>2. CASE u # t
      BY <2>3, <3>1, <3>2
    <3>3. CASE u = t /\ k \in 1..Len(returned[t])
      <4>1. returned'[u][k] = returned[t][k]
        BY <2>2, <2>3, <3>3 DEF more
      <4>2. QED  BY <3>1, <3>3, <4>1
    <3>4. CASE u = t /\ k \notin 1..Len(returned[t])
      <4>1. k = Len(returned[t]) + 1
        BY <2>1, <2>2, <2>3, <3>4 DEF more
      <4>2. returned'[u][k] = answer
        BY <2>2, <2>3, <3>4, <4>1 DEF more
      <4>3. QED  BY <1>7, <4>2
    <3>5. QED  BY <3>2, <3>3, <3>4
  <2>7. QED  BY <2>5, <2>6
<1>10. OneOfKey'
  BY <1>6 DEF InternInv, OneOfKey
<1>11. Orderly(th, slot, pos, buckets, items)
  BY <1>8 DEF Orderly
<1>12. /\ buckets' \in Seq(Nat) /\ items' \in Seq(Item) /\ count' = Len(items')
       /\ resolved' \in Strings /\ holder' = IF Outside(th) THEN NoThread ELSE t
       /\ Chained(slot, pos, buckets', items', th.old)
       /\ Orderly(th, slot, pos, buckets', items')
  BY <1>2, <1>3, <1>4, <1>6, <1>8, <1>11
<1>13. QED  BY <1>1, <1>6, <1>8, <1>9, <1>10, <1>12, InsideStep

LEMMA InternStarts == InternInit => InternInv
<1> SUFFICES ASSUME InternInit PROVE InternInv
  OBVIOUS
<1>1. /\ holder = NoThread /\ buckets = <<>> /\ items = <<>> /\ count = 0 /\ resolved = ""
      /\ returned = [t \in Threads |-> <<>>]
      /\ thread \in [Threads -> InternThread]
      /\ \A t \in Threads : thread[t].pc = "rest" /\ thread[t].old = <<>>
  <2>1. [pc |-> "rest", input |-> "", path |-> FALSE, key |-> "",
         place |-> <<"bucket", 0>>, old |-> <<>>] \in InternThread
    BY EmptySeq, InternAssumption DEF InternThread
  <2>2. QED  BY <2>1 DEF InternInit
<1>2. /\ <<>> \in Seq(Nat) /\ <<>> \in Seq(Item) /\ <<>> \in Seq(Answer) /\ Len(<<>>) = 0
      /\ DOMAIN items = {} /\ DOMAIN buckets = {} /\ Len(items) = 0 /\ Len(buckets) = 0
  <2>1. <<>> \in Seq(Nat) /\ <<>> \in Seq(Item) /\ <<>> \in Seq(Answer) /\ Len(<<>>) = 0
    BY EmptySeq
  <2>2. DOMAIN <<>> = {}
    OBVIOUS
  <2>3. QED  BY <1>1, <2>1, <2>2
<1>3. InternTypeOK
  BY <1>1, <1>2, InternAssumption DEF InternTypeOK
<1>4. OneOfKey /\ Answered /\ OneInside
  <2>1. OneOfKey /\ Answered
    <3>1. /\ \A i, j \in DOMAIN items : items[i].key = items[j].key => i = j
          /\ ~(Len(items) > 0)
      <4>1. ~(0 > 0)
        OBVIOUS
      <4>2. QED  BY <1>2, <4>1
    <3>2. \A t \in Threads : \A n \in 1..Len(returned[t]) : FALSE
      <4>1. \A n \in 1..0 : FALSE
        OBVIOUS
      <4>2. \A t \in Threads : Len(returned[t]) = 0
        BY <1>1
      <4>3. QED  BY <4>1, <4>2
    <3>3. QED  BY <3>1, <3>2 DEF OneOfKey, Answered
  <2>2. OneInside
    BY <1>1, InternAssumption DEF OneInside, Outside
  <2>3. QED  BY <2>1, <2>2
<1>5. Tables
  <2> DEFINE none == [i \in {} |-> 0]
  <2>1. Chained(none, none, buckets, items, <<>>)
    <3>1. none \in [DOMAIN items -> Int]
      BY <1>2
    <3>2. 1..0 = {}
      OBVIOUS
    <3> HIDE DEF none
    <3>3. QED  BY <1>2, <3>1, <3>2 DEF Chained
  <2>2. \A t \in Threads : Orderly(thread[t], none, none, buckets, items)
    BY <1>1 DEF Orderly
  <2>3. OldTable = <<>>
    BY <1>1 DEF OldTable
  <2>4. QED  BY <2>1, <2>2, <2>3 DEF Tables
<1>6. QED  BY <1>3, <1>4, <1>5 DEF InternInv

LEMMA InternStep == InternInv /\ [InternNext]_internVars => InternInv'
<1> SUFFICES ASSUME InternInv, [InternNext]_internVars PROVE InternInv'
  OBVIOUS
<1>1. CASE UNCHANGED internVars
  BY <1>1 DEF internVars, InternInv, InternTypeOK, OneOfKey, Answered, OneInside, Tables, OldTable
<1>2. CASE InternNext
  <2>1. PICK t \in Threads : Call(t) \/ Steps(t)
    BY <1>2 DEF InternNext
  <2>2. QED
    BY <2>1, CallStep, LockStep, ResolveStep, ResizeStartsStep, ResizeMovesStep,
       ResizeEndsStep, FindBucketStep, MatchGoesOnStep, MatchFindsStep, InsertStep, UnlockStep
       DEF Steps
<1>3. QED  BY <1>1, <1>2

\* Whatever the threads, the strings, the hash function and the size of the first table
\* are, and however the steps of the threads interleave: an address that
\* immutable_string or immutable_path returned holds the string that was wanted for
\* good, and two addresses are the same just when the strings are.
THEOREM AddressesAreStrings == InternSpec => []AddressIsString
<1>1. InternInv => AddressIsString
  <2> SUFFICES ASSUME InternInv PROVE AddressIsString
    OBVIOUS
  <2>1. DOMAIN items = 1..Len(items)
    BY LenProperties DEF InternInv, InternTypeOK
  <2>2. \A c \in Calls : c.address \in DOMAIN items /\ items[c.address].key = Wanted(c)
    BY DEF InternInv, Answered, Calls
  <2>3. \A i, j \in DOMAIN items : items[i].key = items[j].key => i = j
    BY DEF InternInv, OneOfKey
  <2>4. \A c, d \in Calls : (c.address = d.address) <=> (Wanted(c) = Wanted(d))
    BY <2>2, <2>3
  <2>5. QED  BY <2>1, <2>2, <2>4 DEF AddressIsString
<1>2. QED  BY <1>1, InternStarts, InternStep, PTL DEF InternSpec


-----------------------------------------------------------------------------
(* The filestore, for any sets of adders, sources and contents and any     *)
(* bounds on faults and edits.  Its promise, ReportedIsStored, speaks of   *)
(* the end.  What carries it there is Inv: an adder that has unlinked a    *)
(* path is about to link it again, and until it does it is the one to      *)
(* blame (Gone); and a file that nobody has unlinked yet is the one        *)
(* everybody has opened, so that a damaged one is found (Damaged).         *)

AllCopies == \A a \in Adders : op[a].type = "copy"

\* Nobody writes what the store shows.
Steady == edits = 0 \/ AllCopies

\* A store of copies has no links.
NoLinks ==
  AllCopies => /\ \A p \in Contents : store[p].kind # "link"
               /\ \A a \in Adders : opened[a].kind # "link"

\* What was digested is still what the source holds.
Current == edits = 0 => \A a \in Adders : digest[a] = held[op[a].source]

\* Where an adder that has unlinked its path may be.
Unlinkers ==
  \A a \in unlinked : pc[a] \in {"relink", "added", "failed", "crashed"}

\* A path that an adder has found taken and that is free is about to be linked
\* again by another one, or would have been.
Gone ==
  \A a \in Adders :
    pc[a] \in {"open", "check", "added"} /\ store[digest[a]] = Absent =>
      \E b \in Rivals(a) :
        \/ pc[b] = "relink"
        \/ faults > 0 /\ pc[b] \in {"failed", "crashed"}

\* A damaged file has been in the store from the beginning.
Damaged ==
  Steady =>
    \A a \in Adders :
      store[digest[a]] # Absent /\ Content(store[digest[a]]) # digest[a] =>
        /\ a \notin unlinked /\ pc[a] # "added"
        /\ pc[a] = "check" => opened[a] = store[digest[a]]

\* A path that is taken again has been taken by an adder that is done.
Taken ==
  \A a \in Adders : pc[a] = "relink" =>
    \/ faults > 0
    \/ /\ a \in unlinked
       /\ store[digest[a]] # Absent =>
            \E b \in Adders \ {a} : pc[b] = "added" /\ digest[b] = digest[a]

\* The directories of a path are made before it is linked, and stay.
Directories ==
  \A a \in Adders :
    pc[a] \in {"link", "open", "check", "unlink", "relink"} => digest[a] \in dirs

\* With --existing-only the path was there, or has been unlinked since.
Existed ==
  \A a \in Adders :
    /\ op[a].existing_only
    /\ pc[a] \in {"mkdir", "link", "open", "check", "unlink", "relink"}
    /\ store[digest[a]] = Absent
    => a \in unlinked \/ Rivals(a) # {}

\* An adder about to unlink was told to replace, or has found the file wrong.
FoundWrong ==
  \A a \in Adders :
    pc[a] = "unlink" /\ ~op[a].replace /\ edits = 0 /\ faults = 0 =>
      Content(opened[a]) # digest[a]

\* The inductive invariant.
Inv ==
  /\ TypeOK /\ TmpIsRemoved /\ FailureHasRival
  /\ NoLinks /\ Current /\ Unlinkers /\ Gone /\ Damaged /\ Taken /\ Existed
  /\ FoundWrong /\ Directories

\* What an adder offers to the store is a file.
LEMMA OfferedIsFile ==
  ASSUME TypeOK, NEW a \in Adders
  PROVE  Offered(a) \in Files /\ Offered(a) # Absent
BY OpsAssumption DEF TypeOK, Offered, Files, Copy, Link, Absent

\* Nothing is a value of a path too.
LEMMA AbsentIsFile == Absent \in Files /\ Absent.kind # "link"
BY DEF Files, Absent

\* An adder of a copy offers no link.
LEMMA OfferedIsCopy ==
  ASSUME NEW a \in Adders, op[a].type = "copy"
  PROVE  Offered(a).kind # "link"
BY DEF Offered, Copy

\* While nobody writes what the store shows, what an adder offers matches the
\* path it offers it for.
LEMMA OfferedIsWhole ==
  ASSUME TypeOK, Current, Steady, NEW a \in Adders
  PROVE  Content(Offered(a)) = digest[a]
BY OpsAssumption DEF TypeOK, Current, Steady, AllCopies, Offered, Content, Copy, Link

\* One lemma for each part of Inv: no action disturbs it.  The types come first.
LEMMA TypeStep ==
  ASSUME Inv, [Next]_vars
  PROVE  TypeOK'
<1> USE DEF Inv, TypeOK, Ended
<1>1. ASSUME NEW a \in Adders, Digest(a) PROVE TypeOK'
  BY <1>1, OpsAssumption DEF Digest
<1>2. ASSUME NEW a \in Adders, Stat(a) PROVE TypeOK'
  BY <1>2 DEF Stat, Goes
<1>3. ASSUME NEW a \in Adders, MakeDirectories(a) PROVE TypeOK'
  BY <1>3 DEF MakeDirectories, Goes
<1>4. ASSUME NEW a \in Adders, MakeLink(a) PROVE TypeOK'
  BY <1>4, OfferedIsFile DEF MakeLink, Goes, Put
<1>5. ASSUME NEW a \in Adders, Open(a) PROVE TypeOK'
  BY <1>5 DEF Open, Goes
<1>6. ASSUME NEW a \in Adders, Check(a) PROVE TypeOK'
  BY <1>6 DEF Check, Goes
<1>7. ASSUME NEW a \in Adders, Unlink(a) PROVE TypeOK'
  BY <1>7, AbsentIsFile DEF Unlink, Goes, Put
<1>8. ASSUME NEW a \in Adders, Relink(a) PROVE TypeOK'
  BY <1>8, OfferedIsFile DEF Relink, Goes, Put
<1>9. ASSUME NEW a \in Adders, CallFails(a) PROVE TypeOK'
  BY <1>9, BoundsAssumption DEF CallFails, Goes
<1>10. ASSUME NEW a \in Adders, Crash(a) PROVE TypeOK'
  BY <1>10, BoundsAssumption DEF Crash
<1>11. ASSUME NEW s \in Sources, Edit(s) PROVE TypeOK'
  BY <1>11, BoundsAssumption DEF Edit
<1>12. CASE UNCHANGED vars
  BY <1>12 DEF vars
<1> QED BY <1>1, <1>2, <1>3, <1>4, <1>5, <1>6, <1>7, <1>8, <1>9, <1>10, <1>11,
     <1>12
  DEF Next

\* A temporary file appears when a copy begins and goes when the adder returns.
LEMMA TmpStep ==
  ASSUME Inv, [Next]_vars
  PROVE  TmpIsRemoved'
<1> USE DEF Inv, TypeOK, TmpIsRemoved, Ended
<1>1. ASSUME NEW a \in Adders, Digest(a) PROVE TmpIsRemoved'
  BY <1>1 DEF Digest
<1>2. ASSUME NEW a \in Adders, Stat(a) PROVE TmpIsRemoved'
  BY <1>2 DEF Stat, Goes
<1>3. ASSUME NEW a \in Adders, MakeDirectories(a) PROVE TmpIsRemoved'
  BY <1>3 DEF MakeDirectories, Goes
<1>4. ASSUME NEW a \in Adders, MakeLink(a) PROVE TmpIsRemoved'
  BY <1>4 DEF MakeLink, Goes, Put
<1>5. ASSUME NEW a \in Adders, Open(a) PROVE TmpIsRemoved'
  BY <1>5 DEF Open, Goes
<1>6. ASSUME NEW a \in Adders, Check(a) PROVE TmpIsRemoved'
  BY <1>6 DEF Check, Goes
<1>7. ASSUME NEW a \in Adders, Unlink(a) PROVE TmpIsRemoved'
  BY <1>7 DEF Unlink, Goes, Put
<1>8. ASSUME NEW a \in Adders, Relink(a) PROVE TmpIsRemoved'
  BY <1>8 DEF Relink, Goes, Put
<1>9. ASSUME NEW a \in Adders, CallFails(a) PROVE TmpIsRemoved'
  BY <1>9 DEF CallFails, Goes
<1>10. ASSUME NEW a \in Adders, Crash(a) PROVE TmpIsRemoved'
  BY <1>10 DEF Crash
<1>11. ASSUME NEW s \in Sources, Edit(s) PROVE TmpIsRemoved'
  BY <1>11 DEF Edit
<1>12. CASE UNCHANGED vars
  BY <1>12 DEF vars
<1> QED BY <1>1, <1>2, <1>3, <1>4, <1>5, <1>6, <1>7, <1>8, <1>9, <1>10, <1>11,
     <1>12
  DEF Next

\* Adders of copies put nothing but copies into the store.
LEMMA NoLinksStep ==
  ASSUME Inv, [Next]_vars
  PROVE  NoLinks'
<1> USE DEF Inv, TypeOK, NoLinks, AllCopies
<1>1. ASSUME NEW a \in Adders, Digest(a) PROVE NoLinks'
  BY <1>1 DEF Digest
<1>2. ASSUME NEW a \in Adders, Stat(a) PROVE NoLinks'
  BY <1>2 DEF Stat, Goes
<1>3. ASSUME NEW a \in Adders, MakeDirectories(a) PROVE NoLinks'
  BY <1>3 DEF MakeDirectories, Goes
<1>4. ASSUME NEW a \in Adders, MakeLink(a) PROVE NoLinks'
  BY <1>4, OfferedIsCopy DEF MakeLink, Goes, Put
<1>5. ASSUME NEW a \in Adders, Open(a) PROVE NoLinks'
  BY <1>5 DEF Open, Goes
<1>6. ASSUME NEW a \in Adders, Check(a) PROVE NoLinks'
  BY <1>6 DEF Check, Goes
<1>7. ASSUME NEW a \in Adders, Unlink(a) PROVE NoLinks'
  BY <1>7, AbsentIsFile DEF Unlink, Goes, Put
<1>8. ASSUME NEW a \in Adders, Relink(a) PROVE NoLinks'
  BY <1>8, OfferedIsCopy DEF Relink, Goes, Put
<1>9. ASSUME NEW a \in Adders, CallFails(a) PROVE NoLinks'
  BY <1>9 DEF CallFails, Goes
<1>10. ASSUME NEW a \in Adders, Crash(a) PROVE NoLinks'
  BY <1>10 DEF Crash
<1>11. ASSUME NEW s \in Sources, Edit(s) PROVE NoLinks'
  BY <1>11 DEF Edit
<1>12. CASE UNCHANGED vars
  BY <1>12 DEF vars
<1> QED BY <1>1, <1>2, <1>3, <1>4, <1>5, <1>6, <1>7, <1>8, <1>9, <1>10, <1>11,
     <1>12
  DEF Next

\* The digest is of what the source holds, and only Edit writes a source.
LEMMA CurrentStep ==
  ASSUME Inv, [Next]_vars
  PROVE  Current'
<1> USE DEF Inv, TypeOK, Current
<1>1. ASSUME NEW a \in Adders, Digest(a) PROVE Current'
  BY <1>1, OpsAssumption DEF Digest
<1>2. ASSUME NEW a \in Adders, Stat(a) PROVE Current'
  BY <1>2 DEF Stat, Goes
<1>3. ASSUME NEW a \in Adders, MakeDirectories(a) PROVE Current'
  BY <1>3 DEF MakeDirectories, Goes
<1>4. ASSUME NEW a \in Adders, MakeLink(a) PROVE Current'
  BY <1>4 DEF MakeLink, Goes, Put
<1>5. ASSUME NEW a \in Adders, Open(a) PROVE Current'
  BY <1>5 DEF Open, Goes
<1>6. ASSUME NEW a \in Adders, Check(a) PROVE Current'
  BY <1>6 DEF Check, Goes
<1>7. ASSUME NEW a \in Adders, Unlink(a) PROVE Current'
  BY <1>7 DEF Unlink, Goes, Put
<1>8. ASSUME NEW a \in Adders, Relink(a) PROVE Current'
  BY <1>8 DEF Relink, Goes, Put
<1>9. ASSUME NEW a \in Adders, CallFails(a) PROVE Current'
  BY <1>9 DEF CallFails, Goes
<1>10. ASSUME NEW a \in Adders, Crash(a) PROVE Current'
  BY <1>10 DEF Crash
<1>11. ASSUME NEW s \in Sources, Edit(s) PROVE Current'
  BY <1>11 DEF Edit
<1>12. CASE UNCHANGED vars
  BY <1>12 DEF vars
<1> QED BY <1>1, <1>2, <1>3, <1>4, <1>5, <1>6, <1>7, <1>8, <1>9, <1>10, <1>11,
     <1>12
  DEF Next

\* From relink an adder only goes to its end.
LEMMA UnlinkersStep ==
  ASSUME Inv, [Next]_vars
  PROVE  Unlinkers'
<1> USE DEF Inv, TypeOK, Unlinkers, Ended
<1>1. ASSUME NEW a \in Adders, Digest(a) PROVE Unlinkers'
  BY <1>1 DEF Digest
<1>2. ASSUME NEW a \in Adders, Stat(a) PROVE Unlinkers'
  BY <1>2 DEF Stat, Goes
<1>3. ASSUME NEW a \in Adders, MakeDirectories(a) PROVE Unlinkers'
  BY <1>3 DEF MakeDirectories, Goes
<1>4. ASSUME NEW a \in Adders, MakeLink(a) PROVE Unlinkers'
  BY <1>4 DEF MakeLink, Goes, Put
<1>5. ASSUME NEW a \in Adders, Open(a) PROVE Unlinkers'
  BY <1>5 DEF Open, Goes
<1>6. ASSUME NEW a \in Adders, Check(a) PROVE Unlinkers'
  BY <1>6 DEF Check, Goes
<1>7. ASSUME NEW a \in Adders, Unlink(a) PROVE Unlinkers'
  BY <1>7 DEF Unlink, Goes, Put
<1>8. ASSUME NEW a \in Adders, Relink(a) PROVE Unlinkers'
  BY <1>8 DEF Relink, Goes, Put
<1>9. ASSUME NEW a \in Adders, CallFails(a) PROVE Unlinkers'
  BY <1>9 DEF CallFails, Goes
<1>10. ASSUME NEW a \in Adders, Crash(a) PROVE Unlinkers'
  BY <1>10 DEF Crash
<1>11. ASSUME NEW s \in Sources, Edit(s) PROVE Unlinkers'
  BY <1>11 DEF Edit
<1>12. CASE UNCHANGED vars
  BY <1>12 DEF vars
<1> QED BY <1>1, <1>2, <1>3, <1>4, <1>5, <1>6, <1>7, <1>8, <1>9, <1>10, <1>11,
     <1>12
  DEF Next

\* Unlink makes its own adder the rival to blame; a rival leaves relink by
\* filling the path, by finding it filled, or by a fault.
LEMMA GoneStep ==
  ASSUME Inv, [Next]_vars
  PROVE  Gone'
<1> USE DEF Inv, TypeOK, Gone, Rivals, Unlinkers, Directories, Ended
<1>1. ASSUME NEW a \in Adders, Digest(a) PROVE Gone'
  BY <1>1 DEF Digest
<1>2. ASSUME NEW a \in Adders, Stat(a) PROVE Gone'
  BY <1>2 DEF Stat, Goes
<1>3. ASSUME NEW a \in Adders, MakeDirectories(a) PROVE Gone'
  BY <1>3 DEF MakeDirectories, Goes
<1>4. ASSUME NEW a \in Adders, MakeLink(a) PROVE Gone'
  BY <1>4, OfferedIsFile DEF MakeLink, Goes, Put
<1>5. ASSUME NEW a \in Adders, Open(a) PROVE Gone'
  BY <1>5 DEF Open, Goes
<1>6. ASSUME NEW a \in Adders, Check(a) PROVE Gone'
  BY <1>6 DEF Check, Goes
<1>7. ASSUME NEW a \in Adders, Unlink(a) PROVE Gone'
  BY <1>7 DEF Unlink, Goes, Put
<1>8. ASSUME NEW a \in Adders, Relink(a) PROVE Gone'
  BY <1>8, OfferedIsFile DEF Relink, Goes, Put
<1>9. ASSUME NEW a \in Adders, CallFails(a) PROVE Gone'
  BY <1>9 DEF CallFails, Goes
<1>10. ASSUME NEW a \in Adders, Crash(a) PROVE Gone'
  BY <1>10 DEF Crash
<1>11. ASSUME NEW s \in Sources, Edit(s) PROVE Gone'
  BY <1>11 DEF Edit
<1>12. CASE UNCHANGED vars
  BY <1>12 DEF vars
<1> QED BY <1>1, <1>2, <1>3, <1>4, <1>5, <1>6, <1>7, <1>8, <1>9, <1>10, <1>11,
     <1>12
  DEF Next

\* Only an adder that ends as added fills a path.
LEMMA TakenStep ==
  ASSUME Inv, [Next]_vars
  PROVE  Taken'
<1> USE DEF Inv, TypeOK, Taken, Unlinkers, Ended
<1>1. ASSUME NEW a \in Adders, Digest(a) PROVE Taken'
  BY <1>1 DEF Digest
<1>2. ASSUME NEW a \in Adders, Stat(a) PROVE Taken'
  BY <1>2 DEF Stat, Goes
<1>3. ASSUME NEW a \in Adders, MakeDirectories(a) PROVE Taken'
  BY <1>3 DEF MakeDirectories, Goes
<1>4. ASSUME NEW a \in Adders, MakeLink(a) PROVE Taken'
  BY <1>4, OfferedIsFile DEF MakeLink, Goes, Put
<1>5. ASSUME NEW a \in Adders, Open(a) PROVE Taken'
  BY <1>5 DEF Open, Goes
<1>6. ASSUME NEW a \in Adders, Check(a) PROVE Taken'
  BY <1>6 DEF Check, Goes
<1>7. ASSUME NEW a \in Adders, Unlink(a) PROVE Taken'
  BY <1>7 DEF Unlink, Goes, Put
<1>8. ASSUME NEW a \in Adders, Relink(a) PROVE Taken'
  BY <1>8, OfferedIsFile DEF Relink, Goes, Put
<1>9. ASSUME NEW a \in Adders, CallFails(a) PROVE Taken'
  BY <1>9 DEF CallFails, Goes
<1>10. ASSUME NEW a \in Adders, Crash(a) PROVE Taken'
  BY <1>10 DEF Crash
<1>11. ASSUME NEW s \in Sources, Edit(s) PROVE Taken'
  BY <1>11 DEF Edit
<1>12. CASE UNCHANGED vars
  BY <1>12 DEF vars
<1> QED BY <1>1, <1>2, <1>3, <1>4, <1>5, <1>6, <1>7, <1>8, <1>9, <1>10, <1>11,
     <1>12
  DEF Next

\* An adder fails in Open, where Gone names a rival, or in Relink, where Taken
\* names the adder that was faster.
LEMMA FailureStep ==
  ASSUME Inv, [Next]_vars
  PROVE  FailureHasRival'
<1> USE DEF Inv, TypeOK, FailureHasRival, Gone, Taken, Unlinkers, Rivals, Directories,
           Ended
<1>1. ASSUME NEW a \in Adders, Digest(a) PROVE FailureHasRival'
  BY <1>1 DEF Digest
<1>2. ASSUME NEW a \in Adders, Stat(a) PROVE FailureHasRival'
  BY <1>2 DEF Stat, Goes
<1>3. ASSUME NEW a \in Adders, MakeDirectories(a) PROVE FailureHasRival'
  BY <1>3 DEF MakeDirectories, Goes
<1>4. ASSUME NEW a \in Adders, MakeLink(a) PROVE FailureHasRival'
  BY <1>4 DEF MakeLink, Goes, Put
<1>5. ASSUME NEW a \in Adders, Open(a) PROVE FailureHasRival'
  BY <1>5 DEF Open, Goes
<1>6. ASSUME NEW a \in Adders, Check(a) PROVE FailureHasRival'
  BY <1>6 DEF Check, Goes
<1>7. ASSUME NEW a \in Adders, Unlink(a) PROVE FailureHasRival'
  BY <1>7 DEF Unlink, Goes, Put
<1>8. ASSUME NEW a \in Adders, Relink(a) PROVE FailureHasRival'
  BY <1>8 DEF Relink, Goes, Put
<1>9. ASSUME NEW a \in Adders, CallFails(a) PROVE FailureHasRival'
  BY <1>9 DEF CallFails, Goes
<1>10. ASSUME NEW a \in Adders, Crash(a) PROVE FailureHasRival'
  BY <1>10 DEF Crash
<1>11. ASSUME NEW s \in Sources, Edit(s) PROVE FailureHasRival'
  BY <1>11 DEF Edit
<1>12. CASE UNCHANGED vars
  BY <1>12 DEF vars
<1> QED BY <1>1, <1>2, <1>3, <1>4, <1>5, <1>6, <1>7, <1>8, <1>9, <1>10, <1>11,
     <1>12
  DEF Next

\* Stat has seen the path taken, and only Unlink frees it.
LEMMA ExistedStep ==
  ASSUME Inv, [Next]_vars
  PROVE  Existed'
<1> USE DEF Inv, TypeOK, Existed, Unlinkers, Rivals, Ended
<1>1. ASSUME NEW a \in Adders, Digest(a) PROVE Existed'
  BY <1>1 DEF Digest
<1>2. ASSUME NEW a \in Adders, Stat(a) PROVE Existed'
  BY <1>2 DEF Stat, Goes
<1>3. ASSUME NEW a \in Adders, MakeDirectories(a) PROVE Existed'
  BY <1>3 DEF MakeDirectories, Goes
<1>4. ASSUME NEW a \in Adders, MakeLink(a) PROVE Existed'
  BY <1>4, OfferedIsFile DEF MakeLink, Goes, Put
<1>5. ASSUME NEW a \in Adders, Open(a) PROVE Existed'
  BY <1>5 DEF Open, Goes
<1>6. ASSUME NEW a \in Adders, Check(a) PROVE Existed'
  BY <1>6 DEF Check, Goes
<1>7. ASSUME NEW a \in Adders, Unlink(a) PROVE Existed'
  BY <1>7 DEF Unlink, Goes, Put
<1>8. ASSUME NEW a \in Adders, Relink(a) PROVE Existed'
  BY <1>8, OfferedIsFile DEF Relink, Goes, Put
<1>9. ASSUME NEW a \in Adders, CallFails(a) PROVE Existed'
  BY <1>9 DEF CallFails, Goes
<1>10. ASSUME NEW a \in Adders, Crash(a) PROVE Existed'
  BY <1>10 DEF Crash
<1>11. ASSUME NEW s \in Sources, Edit(s) PROVE Existed'
  BY <1>11 DEF Edit
<1>12. CASE UNCHANGED vars
  BY <1>12 DEF vars
<1> QED BY <1>1, <1>2, <1>3, <1>4, <1>5, <1>6, <1>7, <1>8, <1>9, <1>10, <1>11,
     <1>12
  DEF Next

\* Check sends an adder to unlink for what it has read.
LEMMA FoundStep ==
  ASSUME Inv, [Next]_vars
  PROVE  FoundWrong'
<1> USE DEF Inv, TypeOK, FoundWrong, Content, Ended
<1>1. ASSUME NEW a \in Adders, Digest(a) PROVE FoundWrong'
  BY <1>1 DEF Digest
<1>2. ASSUME NEW a \in Adders, Stat(a) PROVE FoundWrong'
  BY <1>2 DEF Stat, Goes
<1>3. ASSUME NEW a \in Adders, MakeDirectories(a) PROVE FoundWrong'
  BY <1>3 DEF MakeDirectories, Goes
<1>4. ASSUME NEW a \in Adders, MakeLink(a) PROVE FoundWrong'
  BY <1>4 DEF MakeLink, Goes, Put
<1>5. ASSUME NEW a \in Adders, Open(a) PROVE FoundWrong'
  BY <1>5 DEF Open, Goes
<1>6. ASSUME NEW a \in Adders, Check(a) PROVE FoundWrong'
  BY <1>6 DEF Check, Goes
<1>7. ASSUME NEW a \in Adders, Unlink(a) PROVE FoundWrong'
  BY <1>7 DEF Unlink, Goes, Put
<1>8. ASSUME NEW a \in Adders, Relink(a) PROVE FoundWrong'
  BY <1>8 DEF Relink, Goes, Put
<1>9. ASSUME NEW a \in Adders, CallFails(a) PROVE FoundWrong'
  BY <1>9 DEF CallFails, Goes
<1>10. ASSUME NEW a \in Adders, Crash(a) PROVE FoundWrong'
  BY <1>10 DEF Crash
<1>11. ASSUME NEW s \in Sources, Edit(s) PROVE FoundWrong'
  BY <1>11 DEF Edit
<1>12. CASE UNCHANGED vars
  BY <1>12 DEF vars
<1> QED BY <1>1, <1>2, <1>3, <1>4, <1>5, <1>6, <1>7, <1>8, <1>9, <1>10, <1>11,
     <1>12
  DEF Next

\* An adder comes to a link by way of MakeDirectories.
LEMMA DirectoriesStep ==
  ASSUME Inv, [Next]_vars
  PROVE  Directories'
<1> USE DEF Inv, TypeOK, Directories, Ended
<1>1. ASSUME NEW a \in Adders, Digest(a) PROVE Directories'
  BY <1>1 DEF Digest
<1>2. ASSUME NEW a \in Adders, Stat(a) PROVE Directories'
  BY <1>2 DEF Stat, Goes
<1>3. ASSUME NEW a \in Adders, MakeDirectories(a) PROVE Directories'
  BY <1>3 DEF MakeDirectories, Goes
<1>4. ASSUME NEW a \in Adders, MakeLink(a) PROVE Directories'
  BY <1>4 DEF MakeLink, Goes, Put
<1>5. ASSUME NEW a \in Adders, Open(a) PROVE Directories'
  BY <1>5 DEF Open, Goes
<1>6. ASSUME NEW a \in Adders, Check(a) PROVE Directories'
  BY <1>6 DEF Check, Goes
<1>7. ASSUME NEW a \in Adders, Unlink(a) PROVE Directories'
  BY <1>7 DEF Unlink, Goes, Put
<1>8. ASSUME NEW a \in Adders, Relink(a) PROVE Directories'
  BY <1>8 DEF Relink, Goes, Put
<1>9. ASSUME NEW a \in Adders, CallFails(a) PROVE Directories'
  BY <1>9 DEF CallFails, Goes
<1>10. ASSUME NEW a \in Adders, Crash(a) PROVE Directories'
  BY <1>10 DEF Crash
<1>11. ASSUME NEW s \in Sources, Edit(s) PROVE Directories'
  BY <1>11 DEF Edit
<1>12. CASE UNCHANGED vars
  BY <1>12 DEF vars
<1> QED BY <1>1, <1>2, <1>3, <1>4, <1>5, <1>6, <1>7, <1>8, <1>9, <1>10, <1>11,
     <1>12
  DEF Next

\* What the store shows is not written while the store is steady.
LEMMA ContentKept ==
  ASSUME Inv, NEW s \in Sources, Edit(s), Steady', NEW f \in Files,
         f # Absent, AllCopies => f.kind # "link"
  PROVE  Content(f)' = Content(f)
<1>1. AllCopies
  BY DEF Edit, Steady, AllCopies, Inv, TypeOK
<1>2. f.kind = "copy"
  BY <1>1 DEF Files, Copy, Link, Absent
<1> QED BY <1>2 DEF Content

\* No adder puts a damaged file in place, and an adder that unlinks one leaves
\* none behind.
LEMMA DamagedStep ==
  ASSUME Inv, [Next]_vars
  PROVE  Damaged'
<1> USE DEF Inv, TypeOK, Damaged, Steady, AllCopies, Unlinkers, Content, Ended
<1>1. ASSUME NEW a \in Adders, Digest(a) PROVE Damaged'
  BY <1>1 DEF Digest
<1>2. ASSUME NEW a \in Adders, Stat(a) PROVE Damaged'
  BY <1>2 DEF Stat, Goes
<1>3. ASSUME NEW a \in Adders, MakeDirectories(a) PROVE Damaged'
  BY <1>3 DEF MakeDirectories, Goes
<1>4. ASSUME NEW a \in Adders, MakeLink(a) PROVE Damaged'
  BY <1>4, OfferedIsWhole DEF MakeLink, Goes, Put
<1>5. ASSUME NEW a \in Adders, Open(a) PROVE Damaged'
  BY <1>5 DEF Open, Goes
<1>6. ASSUME NEW a \in Adders, Check(a) PROVE Damaged'
  BY <1>6 DEF Check, Goes
<1>7. ASSUME NEW a \in Adders, Unlink(a) PROVE Damaged'
  BY <1>7 DEF Unlink, Goes, Put
<1>8. ASSUME NEW a \in Adders, Relink(a) PROVE Damaged'
  BY <1>8, OfferedIsWhole DEF Relink, Goes, Put
<1>9. ASSUME NEW a \in Adders, CallFails(a) PROVE Damaged'
  BY <1>9 DEF CallFails, Goes
<1>10. ASSUME NEW a \in Adders, Crash(a) PROVE Damaged'
  BY <1>10 DEF Crash
<1>11. ASSUME NEW s \in Sources, Edit(s) PROVE Damaged'
  <2> SUFFICES ASSUME Steady', NEW a \in Adders, store[digest[a]] # Absent,
                      Content(store[digest[a]])' # digest[a]
               PROVE  /\ a \notin unlinked /\ pc[a] # "added"
                      /\ pc[a] = "check" => opened[a] = store[digest[a]]
    BY <1>11 DEF Edit
  <2>1. Content(store[digest[a]])' = Content(store[digest[a]])
    BY <1>11, ContentKept, ZenonT(60) DEF NoLinks, Edit
  <2> QED BY <1>11, <2>1 DEF Edit
<1>12. CASE UNCHANGED vars
  BY <1>12 DEF vars
<1> QED BY <1>1, <1>2, <1>3, <1>4, <1>5, <1>6, <1>7, <1>8, <1>9, <1>10, <1>11,
     <1>12
  DEF Next

\* Before any adder has begun, the store may hold damaged files and no links.
LEMMA InitInv == Init => Inv
<1> SUFFICES ASSUME Init PROVE Inv OBVIOUS
<1> USE DEF Init
<1>1. TypeOK
  BY OpsAssumption, BoundsAssumption DEF TypeOK, Files
<1>2. TmpIsRemoved
  BY DEF TmpIsRemoved, Ended
<1>3. FailureHasRival /\ Taken
  BY DEF FailureHasRival, Taken
<1>4. NoLinks
  BY DEF NoLinks, Absent, Copy
<1>5. Current /\ Unlinkers
  BY DEF Current, Unlinkers
<1>6. Gone /\ Damaged /\ Existed /\ FoundWrong /\ Directories
  BY DEF Gone, Damaged, Existed, FoundWrong, Directories
<1> QED BY <1>1, <1>2, <1>3, <1>4, <1>5, <1>6 DEF Inv

\* The invariant is inductive.
THEOREM InvariantHolds == Spec => []Inv
<1>1. Inv /\ [Next]_vars => Inv'
  BY TypeStep, TmpStep, NoLinksStep, CurrentStep, UnlinkersStep, GoneStep,
     TakenStep, FailureStep, ExistedStep, FoundStep, DamagedStep, DirectoriesStep DEF Inv
<1> QED BY InitInv, <1>1, PTL DEF Spec

\* The variables keep their types.
THEOREM TypeCorrect == Spec => []TypeOK
BY InvariantHolds, PTL DEF Inv

\* No adder that returns leaves its temporary file, and no copy under way is
\* without one (the unlink at the end of filestore_add).
THEOREM TmpRemoved == Spec => []TmpIsRemoved
BY InvariantHolds, PTL DEF Inv

\* Without faults an adder only fails if it or a rival has unlinked its path
\* (the second link(2) of resolve_conflict).
THEOREM FailuresExplained == Spec => []FailureHasRival
BY InvariantHolds, PTL DEF Inv

\* When all adders have ended, what they reported as added is in the store,
\* whole, unless one was stopped between unlink(2) and link(2).
THEOREM StoreKeepsItsPromise == Spec => []ReportedIsStored
<1>1. Inv => ReportedIsStored
  <2> SUFFICES ASSUME Inv, \A a \in Adders : pc[a] \in Ended, Steady,
                      NEW a \in Adders, pc[a] = "added"
               PROVE  \/ /\ store[digest[a]] # Absent
                         /\ Content(store[digest[a]]) = digest[a]
                      \/ /\ faults > 0
                         /\ \E b \in Rivals(a) : pc[b] \in {"failed", "crashed"}
    BY DEF ReportedIsStored, Steady, AllCopies
  <2>1. CASE store[digest[a]] = Absent
    BY <2>1 DEF Inv, Gone, Rivals, TypeOK, Ended
  <2>2. CASE store[digest[a]] # Absent
    BY <2>2 DEF Inv, Damaged
  <2> QED BY <2>1, <2>2
<1> QED BY InvariantHolds, <1>1, PTL

\* The three promises of filestore-add together (FileStore!Promises).
THEOREM PromisesKept == Spec => []Promises
BY StoreKeepsItsPromise, FailuresExplained, TmpRemoved, PTL DEF Promises

\* resolve_conflict does not unlink a file it has found whole.
THEOREM WholeFileKept == Spec => WholeFileIsKept
<1> DEFINE Kept == \A a \in Adders :
       LET p == digest[a] IN
       /\ store[p] # Absent /\ store'[p] = Absent
       /\ Content(store[p]) = p /\ pc[a] = "unlink" /\ pc'[a] = "relink"
       => \/ op[a].replace \/ opened[a] # store[p]
          \/ edits > 0 \/ faults > 0
<1>1. Inv => Kept
  BY DEF Inv, FoundWrong, TypeOK
<1>2. Inv /\ [Next]_vars => [Kept]_vars
  BY <1>1
<1> QED BY InvariantHolds, <1>2, PTL DEF Spec, WholeFileIsKept

\* --existing-only creates a file only where one has been unlinked.
THEOREM ExistingOnly == Spec => ExistingOnlyCreatesNothing
<1> DEFINE Kept == \A a \in Adders :
       /\ op[a].existing_only /\ pc[a] # "added" /\ pc'[a] = "added"
       /\ store[digest[a]] = Absent
       => a \in unlinked \/ Rivals(a) # {}
<1>1. ASSUME Inv, [Next]_vars, NEW a \in Adders, pc[a] # "added", pc'[a] = "added"
      PROVE  pc[a] \in {"link", "check", "relink"}
  BY <1>1 DEF Inv, TypeOK, Next, vars, Digest, Stat, MakeDirectories, MakeLink, Open,
     Check, Unlink, Relink, CallFails, Crash, Edit, Goes, Ended
<1>2. Inv /\ [Next]_vars => Kept
  BY <1>1 DEF Inv, Existed
<1>3. Inv /\ [Next]_vars => [Kept]_vars
  BY <1>2
<1> QED BY InvariantHolds, <1>3, PTL DEF Spec, ExistingOnlyCreatesNothing

-----------------------------------------------------------------------------
(* Descriptors: the calls of the network library.                          *)

HeldFds == {h.fd : h \in netHeld}

\* What is open beside what the program holds and what was forgotten: the
\* descriptor of the call under way.  A list of addresses is there from
\* getaddrinfo until the socket is attached.
NetInv ==
  /\ open \subseteq NetDescriptors /\ netFaults \in Nat
  /\ IsFiniteSet(netHeld) /\ \A g, h \in netHeld : g.fd = h.fd => g = h
  /\ HeldFds \cap forgotten = {}
  /\ at \in {"none", "getaddrinfo", "socket", "connect", "bind", "listen", "accept", "fdopen",
             "recvfrom"}
  /\ called = "none" => at = "none"
  /\ infos = IF at \in {"socket", "connect", "bind"} THEN 1 ELSE 0
  /\ IF at \in {"connect", "bind", "fdopen"}
     THEN open = HeldFds \cup forgotten \cup {fd} /\ fd \notin HeldFds \cup forgotten
     ELSE open = HeldFds \cup forgotten

\* socket(2) and accept(2) give a descriptor that is not open.
LEMMA NewFdIsNew ==
  ASSUME NetDescriptors \ open # {}
  PROVE  NewFd \in NetDescriptors /\ NewFd \notin open
<1>1. NetDescriptors \ open \subseteq Nat
  BY NetAssumption
<1>2. \E d \in NetDescriptors \ open : \A other \in NetDescriptors \ open : d <= other
  BY <1>1, LeastElement
<1>3. QED  BY <1>2 DEF NewFd

\* The program holds one descriptor more.
LEMMA HoldsMore ==
  ASSUME NetInv, NEW d, NEW of, d \notin HeldFds \cup forgotten,
         netHeld' = netHeld \cup {[fd |-> d, of |-> of]}, forgotten' = forgotten
  PROVE  /\ IsFiniteSet(netHeld') /\ \A g, h \in netHeld' : g.fd = h.fd => g = h
         /\ HeldFds' = HeldFds \cup {d} /\ HeldFds' \cap forgotten' = {}
<1>1. IsFiniteSet(netHeld')
  BY FS_AddElement DEF NetInv
<1>2. HeldFds' = HeldFds \cup {d}
  <2> DEFINE new == [fd |-> d, of |-> of]
  <2>1. new.fd = d /\ netHeld' = netHeld \cup {new}
    OBVIOUS
  <2> HIDE DEF new
  <2>2. QED  BY <2>1, Zenon DEF HeldFds
<1>3. ASSUME NEW g \in netHeld', NEW h \in netHeld', g.fd = h.fd PROVE g = h
  <2>1. \A x \in netHeld : x.fd # d
    BY DEF HeldFds
  <2>2. CASE g \in netHeld /\ h \in netHeld
    BY <1>3, <2>2 DEF NetInv
  <2>3. CASE g \notin netHeld \/ h \notin netHeld
    BY <1>3, <2>1, <2>3
  <2>4. QED  BY <2>2, <2>3
<1>4. HeldFds' \cap forgotten' = {}
  BY <1>2 DEF NetInv
<1>5. QED  BY <1>1, <1>2, <1>3, <1>4

\* A call that begins, or gives up, takes nothing from the program.
LEMMA NetInvStays ==
  ASSUME NetInv, UNCHANGED <<netHeld, forgotten>>
  PROVE  /\ IsFiniteSet(netHeld') /\ \A g, h \in netHeld' : g.fd = h.fd => g = h
         /\ HeldFds' = HeldFds /\ HeldFds' \cap forgotten' = {}
BY DEF NetInv, HeldFds

\* Every system call, and whether it fails or not, keeps the books.
LEMMA NetInvIsInductive ==
  /\ NetInit => NetInv
  /\ NetInv /\ [NetNext]_netVars => NetInv'
<1>1. NetInit => NetInv
  <2>1. NetInit => HeldFds = {} /\ IsFiniteSet(netHeld)
    BY FS_EmptySet DEF NetInit, HeldFds
  <2>2. QED  BY <2>1 DEF NetInit, NetInv
<1> SUFFICES ASSUME NetInv, [NetNext]_netVars PROVE NetInv'
  BY <1>1
<1>2. netFaults \in Nat /\ (NetFails => netFaults' \in Nat)
  BY DEF NetInv, NetFails
<1>3. ASSUME NEW f \in CallNames, NetCall(f) PROVE NetInv'
  BY <1>3, NetInvStays DEF NetCall, NetInv, CallNames
<1>4. CASE GetsInfo \/ GetInfoFails
  BY <1>2, <1>4, NetInvStays DEF GetsInfo, GetInfoFails, GivesUp, NetInv
<1>5. CASE CreatesSocket
  BY <1>5, NetInvStays, NewFdIsNew DEF CreatesSocket, NetInv
<1>6. CASE CreateSocketFails
  BY <1>2, <1>6, NetInvStays DEF CreateSocketFails, GivesUp, NetInv
<1>7. CASE Attaches
  <2>1. CASE called = "tcp_connect_stream"
    BY <1>7, <2>1, NetInvStays DEF Attaches, NetInv
  <2>2. CASE called # "tcp_connect_stream"
    <3>1. PICK of : ReturnsFd(fd, of)
      BY <1>7, <2>2 DEF Attaches
    <3>2. HeldFds' = HeldFds \cup {fd} /\ HeldFds' \cap forgotten' = {}
          /\ IsFiniteSet(netHeld') /\ \A g, h \in netHeld' : g.fd = h.fd => g = h
      BY <1>7, <3>1, HoldsMore DEF Attaches, ReturnsFd, NetInv
    <3>3. QED  BY <1>7, <3>1, <3>2 DEF Attaches, ReturnsFd, NetInv
  <2>3. QED  BY <2>1, <2>2
<1>8. CASE AttachFails
  BY <1>2, <1>8, NetInvStays DEF AttachFails, GivesUp, NetInv
<1>9. CASE ListensOn \/ Receives
  BY <1>9, NetInvStays DEF ListensOn, Receives, GivesUp, NetInv
<1>10. CASE ListenFails
  BY <1>2, <1>10, NetInvStays DEF ListenFails, GivesUp, NetInv
<1>11. CASE Accepts
  <2>1. NewFd \in NetDescriptors /\ NewFd \notin open /\ open = HeldFds \cup forgotten
    BY <1>11, NewFdIsNew DEF Accepts, NetInv
  <2>2. CASE called \in Streams
    BY <1>11, <2>1, <2>2, NetInvStays DEF Accepts, NetInv
  <2>3. CASE called \notin Streams
    <3>1. ReturnsFd(NewFd, "socket")
      BY <1>11, <2>3 DEF Accepts
    <3>2. HeldFds' = HeldFds \cup {NewFd} /\ HeldFds' \cap forgotten' = {}
          /\ IsFiniteSet(netHeld') /\ \A g, h \in netHeld' : g.fd = h.fd => g = h
      BY <1>11, <2>1, <3>1, HoldsMore DEF Accepts, ReturnsFd
    <3>3. QED  BY <1>11, <2>1, <3>1, <3>2 DEF Accepts, ReturnsFd, NetInv
  <2>4. QED  BY <2>2, <2>3
<1>12. CASE Fdopens
  <2>1. HeldFds' = HeldFds \cup {fd} /\ HeldFds' \cap forgotten' = {}
        /\ IsFiniteSet(netHeld') /\ \A g, h \in netHeld' : g.fd = h.fd => g = h
    BY <1>12, HoldsMore DEF Fdopens, ReturnsFd, NetInv
  <2>2. QED  BY <1>12, <2>1 DEF Fdopens, ReturnsFd, NetInv
<1>13. CASE FdopenFails
  <2>1. UNCHANGED netHeld /\ forgotten' = forgotten \cup {fd} /\ at' = "none" /\ at = "fdopen"
        /\ UNCHANGED <<open, infos>> /\ netFaults' \in Nat
    BY <1>2, <1>13 DEF FdopenFails, GivesUp
  <2>2. HeldFds' = HeldFds
    BY <2>1 DEF HeldFds
  <2>3. QED  BY <2>1, <2>2 DEF NetInv
<1>14. CASE ProgramCloses
  <2>1. PICK h \in netHeld : netHeld' = netHeld \ {h} /\ open' = open \ {h.fd}
    BY <1>14 DEF ProgramCloses
  <2>2. called = "none" /\ at = "none" /\ UNCHANGED <<infos, called, at, fd, netFaults, forgotten>>
    BY <1>14 DEF ProgramCloses, NetInv
  <2>3. HeldFds' = HeldFds \ {h.fd} /\ h.fd \in HeldFds
    BY <2>1 DEF HeldFds, NetInv
  <2>4. IsFiniteSet(netHeld')
    BY <2>1, FS_RemoveElement DEF NetInv
  <2>5. QED  BY <2>1, <2>2, <2>3, <2>4 DEF NetInv
<1>15. CASE UNCHANGED netVars
  BY <1>15, NetInvStays DEF netVars, NetInv
<1>16. QED
  BY <1>3, <1>4, <1>5, <1>6, <1>7, <1>8, <1>9, <1>10, <1>11, <1>12, <1>13, <1>14, <1>15
     DEF NetNext

LEMMA NetInvIsHeld == NetInv => DescriptorsAreHeld
<1> SUFFICES ASSUME NetInv, called = "none" 
             PROVE  /\ infos = 0 /\ HeldFds \subseteq open /\ open = HeldFds \cup forgotten
                    /\ Cardinality(netHeld) = Cardinality(HeldFds)
  BY DEF DescriptorsAreHeld, HeldFds
<1>1. at = "none" /\ infos = 0 /\ open = HeldFds \cup forgotten
  BY DEF NetInv
<1>2. Cardinality(netHeld) = Cardinality(HeldFds)
  <2> DEFINE f == [h \in netHeld |-> h.fd]
  <2>1. f \in Bijection(netHeld, HeldFds)
    BY DEF Bijection, Injection, Surjection, IsInjective, HeldFds, NetInv
  <2>2. ExistsBijection(netHeld, HeldFds) /\ IsFiniteSet(netHeld)
    BY <2>1 DEF ExistsBijection, NetInv
  <2>3. QED  BY <2>2, FS_Bijection
<1>3. QED  BY <1>1, <1>2

-----------------------------------------------------------------------------
(* Descriptors: a program that is run with pipes.                          *)

\* The end of a pipe that the child is given, and the one the caller keeps.
ChildEnd(field) == IF field = "in" THEN ReadEnd(field) ELSE WriteEnd(field)
KeptEnd(field) == IF field = "in" THEN WriteEnd(field) ELSE ReadEnd(field)

\* The fields that have been seen to, and how many descriptors the others need.
SetUp == CASE parentAt = "err" -> {}
           [] parentAt = "out" -> {"err"}
           [] parentAt = "in"  -> {"err", "out"}
           [] OTHER            -> Fields
Needed == CASE parentAt = "err" -> 6
            [] parentAt = "out" -> 4
            [] parentAt = "in"  -> 2
            [] OTHER            -> 0

\* A table in which a field is set up: what is meant for the child is behind the
\* child's descriptor, and no other descriptor stands for either end of its pipe.
Right(fds, field) ==
  /\ child_side[field] \in DOMAIN fds /\ fds[child_side[field]] = Meant(field)
  /\ child_side[field] # NoPipeEnd
  /\ io[field] # NoPipeEnd => io[field] \in DOMAIN fds /\ fds[io[field]] = KeptEnd(field)
  /\ \A e \in DOMAIN fds : /\ fds[e] = KeptEnd(field) => e = io[field]
                           /\ fds[e] = ChildEnd(field) => e = child_side[field]

\* One in which it is not.
Untouched(fds, field) ==
  /\ io[field] = wanted_io[field] /\ child_side[field] = NoPipeEnd
  /\ io[field] # NoPipeEnd => io[field] \in DOMAIN fds /\ fds[io[field]] = Own(io[field])
  /\ \A e \in DOMAIN fds : fds[e] \notin {KeptEnd(field), ChildEnd(field)}

PipeTypeOK ==
  /\ parentAt \in {"err", "out", "in", "fork", "close", "exit"}
  /\ childAt \in {"none", "close", "err", "out", "in", "runs", "exited"}
  /\ wanted_io \in [Fields -> Nat \cup {NoPipeEnd}]
  /\ io \in [Fields -> Nat \cup {NoPipeEnd}] /\ child_side \in [Fields -> Nat \cup {NoPipeEnd}]
  /\ DOMAIN parentFds \subseteq 0..MaxDescriptor
  /\ Cardinality(DOMAIN parentFds) + Needed <= MaxDescriptor + 1

\* The child after it has closed the caller's ends, and what the dup2(2) it has
\* gone on from were of.
ChildIsRight ==
  /\ \A field \in Fields : \A e \in DOMAIN childFds : childFds[e] # KeptEnd(field)
  /\ childAt \in {"err", "out", "in"} =>
       \A field \in Fields :
         child_side[field] \in DOMAIN childFds /\ childFds[child_side[field]] = Meant(field)
  /\ childAt \in {"out", "in"} => child_side["err"] = Stdio["err"]
  /\ childAt = "in" => child_side["out"] = Stdio["out"]
  /\ childAt = "runs" => \A field \in Fields : childFds[Stdio[field]] = Meant(field)
  /\ childAt = "exited" => ~(wanted_io["out"] = 1 /\ wanted_io["err"] = 2)

\* As long as each pipe(2) has made its pipe.
PipeInv ==
  /\ PipeTypeOK
  /\ parentAt \in {"err", "out", "in", "fork"} => childAt = "none"
  /\ \A field \in SetUp : wanted_io[field] # NoPipeEnd => child_side[field] = wanted_io[field]
  /\ parentAt \notin {"close", "exit"} => \A field \in SetUp : Right(parentFds, field)
  /\ parentAt \notin {"close", "exit"} => \A field \in Fields \ SetUp : Untouched(parentFds, field)
  /\ parentAt = "close" => \A field \in Fields : Right(parentFds, field)
  /\ parentAt = "exit" =>
       \A field \in Fields : \A e \in DOMAIN parentFds : parentFds[e] # ChildEnd(field)
  /\ childAt = "close" => \A field \in Fields : Right(childFds, field)
  /\ childAt \notin {"none", "close"} => ChildIsRight

LEMMA TheFields == /\ Fields = {"in", "out", "err"}
                   /\ Stdio["in"] = 0 /\ Stdio["out"] = 1 /\ Stdio["err"] = 2
BY DEF Fields, Stdio

\* No file is another's.
LEMMA FilesDiffer ==
  ASSUME NEW f \in Fields, NEW g \in Fields
  PROVE  /\ KeptEnd(f) # ChildEnd(g) /\ (KeptEnd(f) = KeptEnd(g) => f = g)
         /\ (ChildEnd(f) = ChildEnd(g) => f = g) /\ Meant(f) # KeptEnd(g)
         /\ Meant(f) = IF wanted_io[f] = NoPipeEnd THEN ChildEnd(f) ELSE Own(wanted_io[f])
         /\ \A d : Own(d) # KeptEnd(g) /\ Own(d) # ChildEnd(g)
BY TheFields DEF KeptEnd, ChildEnd, Meant, Own, ReadEnd, WriteEnd

\* pipe(2) finds two descriptors that are free.
LEMMA TwoAreFree ==
  ASSUME DOMAIN parentFds \subseteq 0..MaxDescriptor,
         Cardinality(DOMAIN parentFds) + 2 <= MaxDescriptor + 1
  PROVE  /\ FirstFree \in 0..MaxDescriptor \ DOMAIN parentFds
         /\ SecondFree \in 0..MaxDescriptor \ DOMAIN parentFds /\ FirstFree # SecondFree
         /\ Cardinality(DOMAIN parentFds \cup {FirstFree, SecondFree})
              = Cardinality(DOMAIN parentFds) + 2
<1> DEFINE P == DOMAIN parentFds
           all == 0..MaxDescriptor
<1>1. IsFiniteSet(all) /\ Cardinality(all) = MaxDescriptor + 1 /\ MaxDescriptor \in Nat
  BY PipeAssumption, FS_Interval, SMTT(30)
<1>2. IsFiniteSet(P) /\ Cardinality(P) \in Nat
  BY <1>1, FS_Subset, FS_CardinalityType
<1>3. FreeFds = all \ P
  BY DEF FreeFds
<1>4. IsFiniteSet(FreeFds) /\ Cardinality(FreeFds) = (MaxDescriptor + 1) - Cardinality(P)
  <2>1. all \cap P = P
    OBVIOUS
  <2>2. IsFiniteSet(all \ P) /\ Cardinality(all \ P) = Cardinality(all) - Cardinality(all \cap P)
    BY <1>1, FS_Difference
  <2>3. IsFiniteSet(FreeFds) /\ Cardinality(FreeFds) = Cardinality(all) - Cardinality(P)
    BY <1>3, <2>1, <2>2
  <2>4. QED  BY <1>1, <2>3
<1>5. Cardinality(FreeFds) >= 2 /\ FreeFds \subseteq Nat
  BY <1>1, <1>2, <1>3, <1>4
<1>6. FreeFds # {}
  BY <1>4, <1>5, FS_EmptySet
<1>7. FirstFree \in FreeFds
  <2>1. \E d \in FreeFds : \A other \in FreeFds : d <= other
    BY <1>5, <1>6, LeastElement
  <2>2. QED  BY <2>1 DEF FirstFree
<1>8. IsFiniteSet(FreeFds \ {FirstFree}) /\ Cardinality(FreeFds \ {FirstFree}) = Cardinality(FreeFds) - 1
  BY <1>4, <1>7, FS_RemoveElement
<1>9. FreeFds \ {FirstFree} # {} /\ FreeFds \ {FirstFree} \subseteq Nat
  <2>1. Cardinality(FreeFds) - 1 # 0
    BY <1>1, <1>2, <1>4, <1>5
  <2>2. QED  BY <1>5, <1>8, <2>1, FS_EmptySet
<1>10. SecondFree \in FreeFds \ {FirstFree}
  <2>1. \E d \in FreeFds \ {FirstFree} : \A other \in FreeFds \ {FirstFree} : d <= other
    BY <1>9, LeastElement
  <2>2. QED  BY <2>1 DEF SecondFree
<1>11. /\ IsFiniteSet(P \cup {FirstFree})
       /\ Cardinality(P \cup {FirstFree}) = Cardinality(P) + 1
  BY <1>2, <1>3, <1>7, FS_AddElement
<1>12. Cardinality((P \cup {FirstFree}) \cup {SecondFree}) = Cardinality(P) + 1 + 1
  BY <1>3, <1>10, <1>11, FS_AddElement
<1>13. (P \cup {FirstFree}) \cup {SecondFree} = P \cup {FirstFree, SecondFree}
  OBVIOUS
<1>14. Cardinality(P) + 1 + 1 = Cardinality(P) + 2
  BY <1>2
<1>15. QED  BY <1>3, <1>7, <1>10, <1>12, <1>13, <1>14

\* The caller has finitely many descriptors.
LEMMA TableIsFinite ==
  ASSUME DOMAIN parentFds \subseteq 0..MaxDescriptor
  PROVE  /\ IsFiniteSet(DOMAIN parentFds) /\ Cardinality(DOMAIN parentFds) \in Nat
         /\ MaxDescriptor \in Nat
<1>1. IsFiniteSet(0..MaxDescriptor) /\ MaxDescriptor \in Nat
  BY PipeAssumption, FS_Interval
<1>2. QED  BY <1>1, FS_Subset, FS_CardinalityType

\* setup_pipe of one field.
LEMMA SetupKeeps ==
  ASSUME PipeInv, NEW f \in Fields, NEW next, SetupPipe(f, next), f \notin SetUp,
         SetUp' = SetUp \cup {f}, Needed = Needed' + 2, Needed' \in Nat,
         parentAt \in {"err", "out", "in"}, next \in {"out", "in", "fork"}
  PROVE  PipeInv'
<1>1. /\ parentAt' = next /\ UNCHANGED <<wanted_io, childFds, childAt>> /\ childAt = "none"
      /\ PipeTypeOK /\ io[f] \in Nat \cup {NoPipeEnd}
      /\ wanted_io \in [Fields -> Nat \cup {NoPipeEnd}]
      /\ io \in [Fields -> Nat \cup {NoPipeEnd}] /\ child_side \in [Fields -> Nat \cup {NoPipeEnd}]
      /\ \A g \in SetUp : wanted_io[g] # NoPipeEnd => child_side[g] = wanted_io[g]
      /\ \A g \in SetUp : Right(parentFds, g)
      /\ \A g \in Fields \ SetUp : Untouched(parentFds, g)
  BY DEF PipeInv, PipeTypeOK, SetupPipe
<1>2. Untouched(parentFds, f) /\ io[f] = wanted_io[f]
  BY <1>1 DEF Untouched
<1>3. io[f] < 0 <=> io[f] = NoPipeEnd
  BY <1>1 DEF NoPipeEnd
<1>4. CASE io[f] # NoPipeEnd
  <2>1. /\ child_side' = [child_side EXCEPT ![f] = io[f]]
        /\ io' = [io EXCEPT ![f] = NoPipeEnd] /\ UNCHANGED parentFds
    BY <1>3, <1>4 DEF SetupPipe
  <2>2. PipeTypeOK'
    <3>1. Cardinality(DOMAIN parentFds) \in Nat /\ MaxDescriptor \in Nat
          /\ Cardinality(DOMAIN parentFds) + Needed <= MaxDescriptor + 1
      BY <1>1, TableIsFinite DEF PipeTypeOK
    <3>2. Cardinality(DOMAIN parentFds') + Needed' <= MaxDescriptor + 1
      BY <2>1, <3>1
    <3>3. io' \in [Fields -> Nat \cup {NoPipeEnd}] /\ child_side' \in [Fields -> Nat \cup {NoPipeEnd}]
      BY <1>1, <2>1
    <3>4. QED  BY <1>1, <2>1, <3>2, <3>3 DEF PipeTypeOK
  <2>3. io'[f] = NoPipeEnd /\ child_side'[f] = wanted_io[f]
        /\ \A g \in Fields : g # f => io'[g] = io[g] /\ child_side'[g] = child_side[g]
    BY <1>1, <1>2, <2>1
  <2>4. Right(parentFds, f)'
    <3>1. NoPipeEnd \notin DOMAIN parentFds
      BY <1>1 DEF PipeTypeOK, NoPipeEnd
    <3>2. /\ wanted_io[f] \in DOMAIN parentFds /\ parentFds[wanted_io[f]] = Own(wanted_io[f])
          /\ \A e \in DOMAIN parentFds : parentFds[e] \notin {KeptEnd(f), ChildEnd(f)}
      BY <1>2, <1>4 DEF Untouched
    <3>3. Meant(f)' = Own(wanted_io[f])
      BY <1>1, <1>2, <1>4 DEF Meant
    <3>4. QED  BY <1>1, <2>1, <2>3, <3>1, <3>2, <3>3 DEF Right, KeptEnd, ChildEnd
  <2>5. ASSUME NEW g \in SetUp PROVE Right(parentFds, g)'
    <3>1. g \in Fields /\ g # f
      BY TheFields DEF SetUp
    <3>2. Meant(g)' = Meant(g)
      BY <1>1 DEF Meant
    <3>3. QED  BY <1>1, <2>1, <2>3, <3>1, <3>2 DEF Right, KeptEnd, ChildEnd
  <2>6. ASSUME NEW g \in Fields \ SetUp, g # f PROVE Untouched(parentFds, g)'
    BY <1>1, <2>1, <2>3, <2>6 DEF Untouched, KeptEnd, ChildEnd
  <2>7. \A g \in SetUp' : (wanted_io[g] # NoPipeEnd => child_side[g] = wanted_io[g])'
    BY <1>1, <2>3, TheFields DEF SetUp
  <2>8. QED  BY <1>1, <2>2, <2>4, <2>5, <2>6, <2>7 DEF PipeInv
<1>5. CASE io[f] = NoPipeEnd
  <2> DEFINE a == FirstFree
             b == SecondFree
             kept == IF f = "in" THEN b ELSE a
             side == IF f = "in" THEN a ELSE b
  <2>1. /\ parentFds' = WithFile(WithFile(parentFds, a, ReadEnd(f)), b, WriteEnd(f))
        /\ io' = [io EXCEPT ![f] = kept] /\ child_side' = [child_side EXCEPT ![f] = side]
    BY <1>3, <1>5 DEF SetupPipe
  <2>2. /\ DOMAIN parentFds \subseteq 0..MaxDescriptor
        /\ Cardinality(DOMAIN parentFds) + Needed <= MaxDescriptor + 1
    BY <1>1 DEF PipeTypeOK
  <2>3. Cardinality(DOMAIN parentFds) \in Nat /\ MaxDescriptor \in Nat
    BY <2>2, TableIsFinite
  <2>4. Cardinality(DOMAIN parentFds) + 2 <= MaxDescriptor + 1
    BY <2>2, <2>3
  <2>5. /\ a \in 0..MaxDescriptor /\ b \in 0..MaxDescriptor /\ a # b
        /\ a \notin DOMAIN parentFds /\ b \notin DOMAIN parentFds
        /\ Cardinality(DOMAIN parentFds \cup {a, b}) = Cardinality(DOMAIN parentFds) + 2
    BY <2>2, <2>4, TwoAreFree
  <2> HIDE DEF a, b
  <2>6. /\ DOMAIN parentFds' = DOMAIN parentFds \cup {a, b}
        /\ parentFds'[kept] = KeptEnd(f) /\ parentFds'[side] = ChildEnd(f)
        /\ {kept, side} = {a, b} /\ kept # side
        /\ \A e \in DOMAIN parentFds : parentFds'[e] = parentFds[e]
    BY <2>1, <2>5 DEF WithFile, KeptEnd, ChildEnd
  <2>7. kept \in Nat /\ side \in Nat
    BY <2>3, <2>5
  <2> HIDE DEF kept, side
  <2>8. PipeTypeOK'
    <3>1. io' \in [Fields -> Nat \cup {NoPipeEnd}] /\ child_side' \in [Fields -> Nat \cup {NoPipeEnd}]
      BY <1>1, <2>1, <2>7
    <3>2. DOMAIN parentFds' \subseteq 0..MaxDescriptor
      BY <2>2, <2>5, <2>6
    <3>3. Cardinality(DOMAIN parentFds') + Needed' <= MaxDescriptor + 1
      BY <2>2, <2>3, <2>5, <2>6
    <3>4. QED  BY <1>1, <3>1, <3>2, <3>3 DEF PipeTypeOK
  <2>9. io'[f] = kept /\ child_side'[f] = side
        /\ \A g \in Fields : g # f => io'[g] = io[g] /\ child_side'[g] = child_side[g]
    BY <1>1, <2>1
  <2>10. Meant(f)' = ChildEnd(f) /\ \A g \in Fields : Meant(g)' = Meant(g)
    BY <1>1, <1>2, <1>5 DEF Meant, ChildEnd
  <2>11. Right(parentFds, f)'
    <3>1. \A e \in DOMAIN parentFds : parentFds[e] \notin {KeptEnd(f), ChildEnd(f)}
      BY <1>2 DEF Untouched
    <3>2. KeptEnd(f) # ChildEnd(f)
      BY FilesDiffer
    <3>3. kept # NoPipeEnd /\ side # NoPipeEnd /\ kept \in DOMAIN parentFds' /\ side \in DOMAIN parentFds'
      BY <2>6, <2>7 DEF NoPipeEnd
    <3>4. QED  BY <2>6, <2>9, <2>10, <3>1, <3>2, <3>3 DEF Right, KeptEnd, ChildEnd
  <2>12. ASSUME NEW g \in Fields, g # f
         PROVE  /\ KeptEnd(f) \notin {KeptEnd(g), ChildEnd(g)}
                /\ ChildEnd(f) \notin {KeptEnd(g), ChildEnd(g)}
    BY <2>12, FilesDiffer
  <2>13. ASSUME NEW g \in SetUp PROVE Right(parentFds, g)'
    <3>1. g \in Fields /\ g # f
      BY TheFields DEF SetUp
    <3>2. Right(parentFds, g) /\ NoPipeEnd \notin {a, b}
      BY <1>1, <2>5 DEF NoPipeEnd
    <3>3. QED  BY <2>6, <2>9, <2>10, <2>12, <3>1, <3>2 DEF Right, KeptEnd, ChildEnd
  <2>14. ASSUME NEW g \in Fields \ SetUp, g # f PROVE Untouched(parentFds, g)'
    <3>1. Untouched(parentFds, g)
      BY <1>1, <2>14
    <3>2. QED  BY <1>1, <2>6, <2>9, <2>12, <2>14, <3>1 DEF Untouched, KeptEnd, ChildEnd
  <2>15. \A g \in SetUp' : (wanted_io[g] # NoPipeEnd => child_side[g] = wanted_io[g])'
    BY <1>1, <1>2, <1>5, <2>9, TheFields DEF SetUp
  <2>16. QED  BY <1>1, <2>8, <2>11, <2>13, <2>14, <2>15 DEF PipeInv
<1>6. QED  BY <1>4, <1>5

\* The child closes what the caller keeps, and then nothing it has stands for it.
LEMMA ChildClosesRight ==
  ASSUME PipeInv, ChildCloses
  PROVE  PipeInv'
<1>1. /\ childAt = "close" /\ childAt' = "err" /\ childFds' = WithoutEnds(childFds, io)
      /\ UNCHANGED <<wanted_io, io, child_side, parentFds, parentAt>>
      /\ \A f \in Fields : Right(childFds, f)
      /\ io \in [Fields -> Nat \cup {NoPipeEnd}]
  BY DEF ChildCloses, PipeInv, PipeTypeOK
<1>2. /\ DOMAIN childFds' = DOMAIN childFds \ {io[f] : f \in Fields}
      /\ \A e \in DOMAIN childFds' : childFds'[e] = childFds[e]
  BY <1>1 DEF WithoutEnds, Restrict, Range
<1>3. \A f \in Fields : \A e \in DOMAIN childFds' : childFds'[e] # KeptEnd(f)
  BY <1>1, <1>2 DEF Right
<1>4. ASSUME NEW f \in Fields
      PROVE  child_side[f] \in DOMAIN childFds' /\ childFds'[child_side[f]] = Meant(f)
  <2>1. child_side[f] \in DOMAIN childFds /\ childFds[child_side[f]] = Meant(f)
    BY <1>1 DEF Right
  <2>2. ASSUME NEW g \in Fields PROVE child_side[f] # io[g]
    BY <1>1, <2>1, FilesDiffer DEF Right
  <2>3. QED  BY <1>2, <2>1, <2>2
<1>5. \A f \in Fields : Meant(f)' = Meant(f) /\ KeptEnd(f)' = KeptEnd(f)
  BY <1>1 DEF Meant, KeptEnd
<1>6. ChildIsRight'
  BY <1>1, <1>3, <1>4, <1>5 DEF ChildIsRight
<1>7. PipeTypeOK' /\ SetUp' = SetUp
  BY <1>1 DEF PipeInv, PipeTypeOK, Needed, SetUp
<1>8. /\ \A f \in Fields : Right(parentFds, f) => Right(parentFds, f)'
      /\ \A f \in Fields : Untouched(parentFds, f) => Untouched(parentFds, f)'
  BY <1>1, <1>5 DEF Right, Untouched, KeptEnd, ChildEnd
<1>9. SetUp \subseteq Fields
  BY TheFields DEF SetUp
<1>10. QED  BY <1>1, <1>6, <1>7, <1>8, <1>9 DEF PipeInv, ChildEnd

\* A dup2(2) from which the child goes on.
LEMMA DuplicateKeeps ==
  ASSUME PipeInv, NEW f \in Fields, NEW next, Duplicates(f, next),
         <<f, next>> \in {<<"err", "out">>, <<"out", "in">>, <<"in", "runs">>}
  PROVE  PipeInv'
<1> DEFINE from == child_side[f]
           to == Stdio[f]
<1>1. /\ childAt = f /\ UNCHANGED <<wanted_io, io, child_side, parentFds, parentAt>>
  BY DEF Duplicates
<1>2. ChildIsRight /\ childAt \in {"err", "out", "in"} /\ parentAt \in {"close", "exit"}
      /\ PipeTypeOK
  BY <1>1, TheFields DEF PipeInv, PipeTypeOK
<1>3. \A g \in Fields : child_side[g] \in DOMAIN childFds /\ childFds[child_side[g]] = Meant(g)
  BY <1>2 DEF ChildIsRight
<1>4. \A g \in Fields : Meant(g)' = Meant(g) /\ KeptEnd(g)' = KeptEnd(g)
  BY <1>1 DEF Meant, KeptEnd
<1>5. /\ childFds' = IF from = to THEN childFds ELSE WithFile(childFds, to, childFds[from])
      /\ childAt' = IF from # to /\ to # 0 THEN "exited" ELSE next
  BY <1>3 DEF Duplicates
<1>6. /\ to \in DOMAIN childFds' /\ childFds'[to] = Meant(f)
      /\ \A e \in DOMAIN childFds : e # to => e \in DOMAIN childFds' /\ childFds'[e] = childFds[e]
      /\ \A e \in DOMAIN childFds' : \/ e \in DOMAIN childFds /\ childFds'[e] = childFds[e]
                                     \/ childFds'[e] = Meant(f)
  <2>1. from \in DOMAIN childFds /\ childFds[from] = Meant(f)
    BY <1>3
  <2> HIDE DEF from, to
  <2>2. QED  BY <1>5, <2>1 DEF WithFile
<1>7. \A g \in Fields : \A e \in DOMAIN childFds' : childFds'[e] # KeptEnd(g)
  BY <1>2, <1>6, FilesDiffer DEF ChildIsRight
<1>8. \A g \in Fields : wanted_io[g] # NoPipeEnd => child_side[g] = wanted_io[g]
  <2>1. SetUp = Fields
    BY <1>2 DEF SetUp
  <2>2. QED  BY <2>1 DEF PipeInv
<1>9. ChildIsRight'
  <2>1. CASE f = "err"
    <3>1. childAt' = "exited" => child_side["err"] # 2
      BY <1>5, <2>1, TheFields
    <3>2. wanted_io["err"] = 2 => child_side["err"] = 2
      BY <1>8, TheFields DEF NoPipeEnd
    <3>3. childAt' = "out" => child_side["err"] = 2 /\ childFds' = childFds
      BY <1>1, <1>5, <2>1, TheFields
    <3>4. childAt' \in {"exited", "out"}
      BY <1>1, <1>5, <2>1
    <3>5. QED  BY <1>1, <1>3, <1>4, <1>7, <3>1, <3>2, <3>3, <3>4, TheFields DEF ChildIsRight
  <2>2. CASE f = "out"
    <3>1. childAt' = "exited" => child_side["out"] # 1
      BY <1>5, <2>2, TheFields
    <3>2. wanted_io["out"] = 1 => child_side["out"] = 1
      BY <1>8, TheFields DEF NoPipeEnd
    <3>3. childAt' = "in" => child_side["out"] = 1 /\ childFds' = childFds
      BY <1>1, <1>5, <2>2, TheFields
    <3>4. childAt' \in {"exited", "in"} /\ child_side["err"] = Stdio["err"]
      BY <1>1, <1>2, <1>5, <2>2 DEF ChildIsRight
    <3>5. QED  BY <1>1, <1>3, <1>4, <1>7, <3>1, <3>2, <3>3, <3>4, TheFields DEF ChildIsRight
  <2>3. CASE f = "in"
    <3>1. childAt' = "runs" /\ child_side["err"] = 2 /\ child_side["out"] = 1 /\ to = 0
      BY <1>1, <1>2, <1>5, <2>3, TheFields DEF ChildIsRight
    <3>2. childFds'[0] = Meant("in")
      BY <1>6, <2>3, <3>1
    <3>3. childFds'[1] = Meant("out") /\ childFds'[2] = Meant("err")
      BY <1>3, <1>6, <3>1, TheFields
    <3>4. \A g \in Fields : childFds'[Stdio[g]] = Meant(g)
      BY <3>2, <3>3, TheFields
    <3>5. QED  BY <1>1, <1>4, <1>7, <3>1, <3>4 DEF ChildIsRight
  <2>4. QED  BY <2>1, <2>2, <2>3
<1>10. PipeTypeOK' /\ SetUp' = SetUp /\ childAt' \notin {"none", "close"}
  BY <1>1, <1>2, <1>5 DEF PipeTypeOK, Needed, SetUp
<1>11. \A g \in Fields : Right(parentFds, g) => Right(parentFds, g)'
  BY <1>1, <1>4 DEF Right, KeptEnd, ChildEnd
<1>12. QED  BY <1>1, <1>2, <1>8, <1>9, <1>10, <1>11 DEF PipeInv, ChildEnd

LEMMA PipeInvIsInductive ==
  /\ PipeInit => (unmade = {} => PipeInv)
  /\ (unmade = {} => PipeInv) /\ [PipeNext]_pipeVars => (unmade = {} => PipeInv)'
<1>1. ASSUME PipeInit PROVE PipeInv
  <2>1. PICK table \in CallerTables : /\ parentFds = [d \in table |-> Own(d)]
                                      /\ wanted_io \in [Fields -> table \cup {NoPipeEnd}]
    BY <1>1 DEF PipeInit
  <2>2. /\ io = wanted_io /\ child_side = [field \in Fields |-> NoPipeEnd]
        /\ parentAt = "err" /\ childAt = "none"
    BY <1>1 DEF PipeInit
  <2>3. table \subseteq 0..MaxDescriptor /\ Cardinality(table) + 6 <= MaxDescriptor + 1
        /\ MaxDescriptor \in Nat
    BY PipeAssumption
  <2>4. PipeTypeOK /\ SetUp = {}
    BY <2>1, <2>2, <2>3 DEF PipeTypeOK, Needed, SetUp
  <2>5. ASSUME NEW f \in Fields PROVE Untouched(parentFds, f)
    BY <2>1, <2>2, FilesDiffer DEF Untouched
  <2>6. QED  BY <2>2, <2>4, <2>5 DEF PipeInv
<1> SUFFICES ASSUME unmade = {} => PipeInv, [PipeNext]_pipeVars, unmade' = {} PROVE PipeInv'
  BY <1>1
<1>2. /\ \A f, next : ~SetupPipeFails(f, next)
      /\ PipeInv
  <2>1. \A f, next : ~SetupPipeFails(f, next)
    BY DEF SetupPipeFails
  <2>2. UNCHANGED unmade
    BY <2>1 DEF PipeNext, SetupPipe, Forks, ForkFails, ChildCloses, ParentCloses, Duplicates, pipeVars
  <2>3. QED  BY <2>1, <2>2
<1>3. CASE SetupPipe("err", "out")
  <2>1. /\ parentAt = "err" /\ parentAt' = "out" /\ SetUp = {} /\ SetUp' = {"err"}
        /\ Needed = 6 /\ Needed' = 4
    BY <1>3 DEF SetupPipe, SetUp, Needed
  <2>2. "err" \in Fields /\ "err" \notin SetUp /\ SetUp' = SetUp \cup {"err"}
        /\ Needed = Needed' + 2 /\ Needed' \in Nat
    BY <2>1, TheFields
  <2>3. QED  BY <1>3, <1>2, <2>1, <2>2, SetupKeeps
<1>4. CASE SetupPipe("out", "in")
  <2>1. /\ parentAt = "out" /\ parentAt' = "in" /\ SetUp = {"err"} /\ SetUp' = {"err", "out"}
        /\ Needed = 4 /\ Needed' = 2
    BY <1>4 DEF SetupPipe, SetUp, Needed
  <2>2. "out" \in Fields /\ "out" \notin SetUp /\ SetUp' = SetUp \cup {"out"}
        /\ Needed = Needed' + 2 /\ Needed' \in Nat
    BY <2>1, TheFields
  <2>3. QED  BY <1>4, <1>2, <2>1, <2>2, SetupKeeps
<1>5. CASE SetupPipe("in", "fork")
  <2>1. /\ parentAt = "in" /\ parentAt' = "fork" /\ SetUp = {"err", "out"} /\ SetUp' = Fields
        /\ Needed = 2 /\ Needed' = 0
    BY <1>5 DEF SetupPipe, SetUp, Needed
  <2>2. "in" \in Fields /\ "in" \notin SetUp /\ SetUp' = SetUp \cup {"in"}
        /\ Needed = Needed' + 2 /\ Needed' \in Nat
    BY <2>1, TheFields
  <2>3. QED  BY <1>5, <1>2, <2>1, <2>2, SetupKeeps
<1>6. CASE Forks
  <2>1. /\ parentAt = "fork" /\ parentAt' = "close" /\ childFds' = parentFds /\ childAt' = "close"
        /\ UNCHANGED <<wanted_io, io, child_side, parentFds>>
    BY <1>6 DEF Forks
  <2>2. SetUp = Fields /\ SetUp' = Fields /\ Needed = 0 /\ Needed' = 0
    BY <2>1 DEF SetUp, Needed
  <2>3. \A f \in Fields : Right(parentFds, f)
    BY <1>2, <2>1, <2>2 DEF PipeInv
  <2>4. \A f \in Fields : Right(parentFds, f)' /\ Right(childFds, f)'
    BY <2>1, <2>3 DEF Right, Meant, KeptEnd, ChildEnd
  <2>5. QED  BY <1>2, <2>1, <2>2, <2>4 DEF PipeInv, PipeTypeOK
<1>7. CASE ForkFails
  <2>1. /\ parentAt = "fork" /\ parentAt' = "close" /\ childAt = "none" /\ childAt' = "none"
        /\ UNCHANGED <<wanted_io, io, child_side, parentFds, childFds>>
    BY <1>2, <1>7 DEF ForkFails, PipeInv
  <2>2. SetUp = Fields /\ SetUp' = Fields /\ Needed = 0 /\ Needed' = 0
    BY <2>1 DEF SetUp, Needed
  <2>3. \A f \in Fields : Right(parentFds, f)
    BY <1>2, <2>1, <2>2 DEF PipeInv
  <2>4. \A f \in Fields : Right(parentFds, f)'
    BY <2>1, <2>3 DEF Right, Meant, KeptEnd, ChildEnd
  <2>5. QED  BY <1>2, <2>1, <2>2, <2>4 DEF PipeInv, PipeTypeOK
<1>8. CASE ChildCloses
  BY <1>8, <1>2, ChildClosesRight
<1>9. CASE ParentCloses
  <2>1. /\ parentAt = "close" /\ parentAt' = "exit" /\ parentFds' = WithoutEnds(parentFds, child_side)
        /\ UNCHANGED <<wanted_io, io, child_side, childFds, childAt>>
        /\ \A f \in Fields : Right(parentFds, f)
        /\ child_side \in [Fields -> Nat \cup {NoPipeEnd}] /\ PipeTypeOK
    BY <1>9, <1>2 DEF ParentCloses, PipeInv, PipeTypeOK
  <2>2. /\ DOMAIN parentFds' = DOMAIN parentFds \ {child_side[f] : f \in Fields}
        /\ \A e \in DOMAIN parentFds' : parentFds'[e] = parentFds[e]
    BY <2>1 DEF WithoutEnds, Restrict, Range
  <2>3. \A f \in Fields : \A e \in DOMAIN parentFds' : parentFds'[e] # ChildEnd(f)
    BY <2>1, <2>2 DEF Right
  <2>4. SetUp = Fields /\ SetUp' = Fields /\ Needed = 0 /\ Needed' = 0
    BY <2>1 DEF SetUp, Needed
  <2>5. PipeTypeOK'
    <3>1. Cardinality(DOMAIN parentFds') <= Cardinality(DOMAIN parentFds)
          /\ Cardinality(DOMAIN parentFds') \in Nat
      <4>1. IsFiniteSet(DOMAIN parentFds)
        BY <2>1, TableIsFinite DEF PipeTypeOK
      <4>2. QED  BY <2>2, <4>1, FS_Subset, FS_CardinalityType
    <3>2. Cardinality(DOMAIN parentFds) \in Nat /\ MaxDescriptor \in Nat
      BY <2>1, TableIsFinite DEF PipeTypeOK
    <3>3. Cardinality(DOMAIN parentFds') + 0 <= MaxDescriptor + 1
      BY <2>1, <2>4, <3>1, <3>2 DEF PipeTypeOK
    <3>4. QED  BY <2>1, <2>2, <2>4, <3>3 DEF PipeTypeOK
  <2>6. childAt = "close" => \A f \in Fields : Right(childFds, f)'
    BY <1>2, <2>1 DEF PipeInv, Right, Meant, KeptEnd, ChildEnd
  <2>7. childAt \notin {"none", "close"} => ChildIsRight'
    BY <1>2, <2>1 DEF PipeInv, ChildIsRight, Meant, KeptEnd
  <2>8. QED  BY <1>2, <2>1, <2>3, <2>4, <2>5, <2>6, <2>7 DEF PipeInv, ChildEnd
<1>10. CASE Duplicates("err", "out") \/ Duplicates("out", "in") \/ Duplicates("in", "runs")
  BY <1>10, <1>2, DuplicateKeeps, TheFields
<1>11. CASE UNCHANGED pipeVars
  <2>1. UNCHANGED <<wanted_io, io, child_side, parentFds, childFds, parentAt, childAt>>
    BY <1>11 DEF pipeVars
  <2>2. QED
    BY <1>2, <2>1 DEF PipeInv, PipeTypeOK, Needed, SetUp, Right, Untouched, ChildIsRight, Meant, KeptEnd,
                ChildEnd
<1>12. QED
  BY <1>3, <1>4, <1>5, <1>6, <1>8, <1>9, <1>10, <1>11, <1>2, <1>7 DEF PipeNext

LEMMA PipeInvIsRight == (unmade = {} => PipeInv) => ProgramHasItsPipes
<1> SUFFICES ASSUME unmade = {}, PipeInv PROVE ProgramHasItsPipes
  BY DEF ProgramHasItsPipes
<1>1. /\ KeptEnd("in") = WriteEnd("in") /\ KeptEnd("out") = ReadEnd("out")
      /\ KeptEnd("err") = ReadEnd("err") /\ ChildEnd("in") = ReadEnd("in")
      /\ ChildEnd("out") = WriteEnd("out") /\ ChildEnd("err") = WriteEnd("err")
  BY DEF KeptEnd, ChildEnd
<1>2. ASSUME childAt = "runs"
      PROVE  /\ \A f \in Fields : childFds[Stdio[f]] = Meant(f)
             /\ Range(childFds) \cap {WriteEnd("in"), ReadEnd("out"), ReadEnd("err")} = {}
  <2>1. ChildIsRight
    BY <1>2 DEF PipeInv
  <2>2. QED  BY <1>1, <1>2, <2>1, TheFields DEF ChildIsRight, Range
<1>3. ASSUME parentAt = "exit"
      PROVE  Range(parentFds) \cap {ReadEnd("in"), WriteEnd("out"), WriteEnd("err")} = {}
  BY <1>1, <1>3, TheFields DEF PipeInv, Range
<1>4. wanted_io["out"] = 1 /\ wanted_io["err"] = 2 => childAt # "exited"
  BY DEF PipeInv, ChildIsRight
<1>5. QED  BY <1>2, <1>3, <1>4 DEF ProgramHasItsPipes

\* After every call of the network library the program holds each open
\* descriptor, once, and no list of addresses is left; and, as long as no pipe(2)
\* has failed, a program that runs in pipes has what was meant for it, and neither
\* side keeps the other's ends.
THEOREM DescriptorsStay == NetSpec /\ PipeSpec => []DescriptorsAreKept
<1>1. NetSpec => []NetInv
  BY NetInvIsInductive, PTL DEF NetSpec
<1>2. PipeSpec => [](unmade = {} => PipeInv)
  BY PipeInvIsInductive, PTL DEF PipeSpec
<1>3. NetInv /\ (unmade = {} => PipeInv) => DescriptorsAreKept
  BY NetInvIsHeld, PipeInvIsRight DEF DescriptorsAreKept
<1>4. QED  BY <1>1, <1>2, <1>3, PTL

-----------------------------------------------------------------------------
(* The string functions of libc/.                                          *)

IsMemory(m) == Cardinality(DOMAIN m) \in Nat /\ m \in [0..Cardinality(DOMAIN m) - 1 -> Nat]

\* A string that ends has one length: from its start to its first zero.
LEMMA LengthOfString ==
  ASSUME NEW m, IsMemory(m), NEW q \in Nat, IsString(m, q)
  PROVE  /\ Strlen(m, q) \in Nat /\ q + Strlen(m, q) \in DOMAIN m
         /\ m[q + Strlen(m, q)] = 0 /\ \A i \in 0..Strlen(m, q) - 1 : m[q + i] # 0
<1> DEFINE C == Cardinality(DOMAIN m)
           Ends == {n \in 0..C : q + n \in DOMAIN m /\ m[q + n] = 0}
           Is(n) == m[q + n] = 0 /\ \A i \in 0..n - 1 : m[q + i] # 0
<1>1. C \in Nat /\ DOMAIN m = 0..C - 1
  BY DEF IsMemory
<1>2. PICK z \in DOMAIN m : q <= z /\ m[z] = 0
  BY DEF IsString
<1>3. z - q \in 0..C /\ q + (z - q) = z
  BY <1>1, <1>2
<1>4. z - q \in Ends
  BY <1>2, <1>3
<1>5. PICK n \in Ends : \A other \in Ends : n <= other
  <2>1. Ends \subseteq Nat /\ Ends # {}
    BY <1>1, <1>4
  <2>2. QED  BY <2>1, LeastElement
<1>6. n \in 0..C /\ q + n \in DOMAIN m /\ m[q + n] = 0
  BY <1>5
<1>7. \A i \in 0..n - 1 : m[q + i] # 0
  <2> SUFFICES ASSUME NEW i \in 0..n - 1, m[q + i] = 0 PROVE FALSE
    OBVIOUS
  <2>1. i \in 0..C /\ q + i \in DOMAIN m /\ ~(n <= i)
    BY <1>1, <1>6
  <2>2. i \in Ends
    BY <2>1
  <2>3. QED  BY <1>5, <2>1, <2>2
<1> DEFINE len == Strlen(m, q)
<1>8. len \in 0..C /\ Is(len)
  <2>1. \E l \in 0..C : Is(l)
    BY <1>6, <1>7
  <2> HIDE DEF Is
  <2>2. (CHOOSE l \in 0..C : Is(l)) \in 0..C /\ Is(CHOOSE l \in 0..C : Is(l))
    BY <2>1
  <2>3. len = CHOOSE l \in 0..C : Is(l)
    BY DEF Strlen, Is
  <2>4. QED  BY <2>2, <2>3
<1>9. len <= n
  <2>1. CASE n < len
    <3>1. n \in 0..len - 1
      BY <1>1, <1>6, <1>8, <2>1
    <3>2. QED  BY <1>6, <1>8, <3>1
  <2>2. QED  BY <1>1, <1>6, <1>8, <2>1
<1>10. q + len \in DOMAIN m
  <2> HIDE DEF C, len
  <2>1. QED  BY <1>1, <1>6, <1>8, <1>9
<1>11. QED  BY <1>1, <1>8, <1>10

\* A zero with none before it is the end of the string.
LEMMA LengthIs ==
  ASSUME NEW m, IsMemory(m), NEW q \in Nat, NEW len \in Nat, q + len \in DOMAIN m,
         m[q + len] = 0, \A i \in 0..len - 1 : m[q + i] # 0
  PROVE  Strlen(m, q) = len
<1>1. IsString(m, q)
  <2>1. q <= q + len
    OBVIOUS
  <2>2. QED  BY <2>1 DEF IsString
<1>2. /\ Strlen(m, q) \in Nat
      /\ m[q + Strlen(m, q)] = 0 /\ \A i \in 0..Strlen(m, q) - 1 : m[q + i] # 0
  BY <1>1, LengthOfString
<1> DEFINE other == Strlen(m, q)
<1>3. ~(other < len)
  <2> HIDE DEF other
  <2> SUFFICES ASSUME other < len PROVE FALSE
    OBVIOUS
  <2>1. other \in 0..len - 1
    BY <1>2 DEF other
  <2>2. QED  BY <1>2, <2>1 DEF other
<1>4. ~(len < other)
  <2> SUFFICES ASSUME len < other PROVE FALSE
    OBVIOUS
  <2>1. len \in 0..other - 1
    BY <1>2
  <2>2. QED  BY <1>2, <2>1
<1>5. QED  BY <1>2, <1>3, <1>4

\* Where two strings are equal up to a place, and differ there or end there, the
\* bytes of that place put them in their order.
LEMMA OrderOfStrings ==
  ASSUME NEW m, IsMemory(m), NEW q \in Nat, NEW r \in Nat, IsString(m, q), IsString(m, r),
         NEW k \in Nat, \A i \in 0..k - 1 : m[q + i] = m[r + i] /\ m[q + i] # 0,
         m[q + k] = m[r + k] => m[q + k] = 0
  PROVE  /\ m[q + k] \in Nat /\ m[r + k] \in Nat
         /\ m[q + k] < m[r + k] <=> IsBefore(StringAt(m, q), StringAt(m, r))
<1> DEFINE L == Strlen(m, q)
           R == Strlen(m, r)
           sq == [i \in 1..L |-> m[q + i - 1]]
           sr == [i \in 1..R |-> m[r + i - 1]]
<1>1. /\ L \in Nat /\ q + L \in DOMAIN m /\ m[q + L] = 0 /\ \A i \in 0..L - 1 : m[q + i] # 0
      /\ R \in Nat /\ r + R \in DOMAIN m /\ m[r + R] = 0 /\ \A i \in 0..R - 1 : m[r + i] # 0
  BY LengthOfString
<1>2. StringAt(m, q) = sq /\ StringAt(m, r) = sr
  BY DEF StringAt
<1> HIDE DEF L, R
<1>3. Cardinality(DOMAIN sq) = L
  <2>1. DOMAIN sq = 1..L
    OBVIOUS
  <2>2. Cardinality(1..L) = IF 1 > L THEN 0 ELSE L - 1 + 1
    BY <1>1, FS_Interval
  <2>3. QED  BY <1>1, <2>1, <2>2
<1>4. k <= L /\ k <= R
  <2>1. ~(L < k)
    <3> SUFFICES ASSUME L < k PROVE FALSE
      OBVIOUS
    <3>1. L \in 0..k - 1
      BY <1>1
    <3>2. QED  BY <1>1, <3>1
  <2>2. ~(R < k)
    <3> SUFFICES ASSUME R < k PROVE FALSE
      OBVIOUS
    <3>1. R \in 0..k - 1
      BY <1>1
    <3>2. QED  BY <1>1, <3>1
  <2>3. QED  BY <1>1, <2>1, <2>2
<1>5. q + k \in DOMAIN m /\ r + k \in DOMAIN m
  BY <1>1, <1>4, SMTT(30) DEF IsMemory
<1>6. m[q + k] \in Nat /\ m[r + k] \in Nat
  BY <1>5 DEF IsMemory
<1>7. \A i \in Nat : /\ i + 1 \in DOMAIN sq <=> i < L
                     /\ i + 1 \in DOMAIN sr <=> i < R
                     /\ i < L => sq[i + 1] = m[q + i]
                     /\ i < R => sr[i + 1] = m[r + i]
  <2> TAKE i \in Nat
  <2>1. (i + 1 \in 1..L <=> i < L) /\ (i + 1 \in 1..R <=> i < R)
        /\ q + (i + 1) - 1 = q + i /\ r + (i + 1) - 1 = r + i
    BY <1>1
  <2>2. QED  BY <2>1
<1>8. (k < L <=> m[q + k] # 0) /\ (k < R <=> m[r + k] # 0)
  <2>1. k < L => k \in 0..L - 1
    BY <1>1
  <2>2. k < R => k \in 0..R - 1
    BY <1>1
  <2>3. QED  BY <1>1, <1>4, <2>1, <2>2
<1>9. ASSUME m[q + k] < m[r + k] PROVE IsBefore(sq, sr)
  <2>1. k \in 0..Cardinality(DOMAIN sq)
    BY <1>1, <1>3, <1>4
  <2>2. m[r + k] # 0
    BY <1>6, <1>9
  <2>3. k < R
    BY <1>8, <2>2
  <2>4. \A i \in 1..k : i \in DOMAIN sr /\ sq[i] = sr[i]
    <3> TAKE i \in 1..k
    <3>1. i - 1 \in Nat /\ i - 1 \in 0..k - 1 /\ i - 1 < L /\ i - 1 < R /\ (i - 1) + 1 = i
      BY <1>1, <1>4
    <3>2. sq[i] = m[q + (i - 1)] /\ sr[i] = m[r + (i - 1)] /\ i \in DOMAIN sr
      BY <1>7, <3>1
    <3>3. QED  BY <3>1, <3>2
  <2>5. k + 1 \in DOMAIN sr /\ (k + 1 \in DOMAIN sq => sq[k + 1] < sr[k + 1])
    BY <1>7, <1>9, <2>3
  <2> HIDE DEF sq, sr
  <2>6. QED  BY <2>1, <2>4, <2>5 DEF IsBefore
<1>10. ASSUME IsBefore(sq, sr) PROVE m[q + k] < m[r + k]
  <2> HIDE DEF sq, sr
  <2>1. PICK j \in 0..L : /\ \A i \in 1..j : i \in DOMAIN sr /\ sq[i] = sr[i]
                          /\ j + 1 \in DOMAIN sr /\ (j + 1 \in DOMAIN sq => sq[j + 1] < sr[j + 1])
    BY <1>3, <1>10 DEF IsBefore
  <2>2. j \in Nat /\ j < R
    BY <1>1, <1>7, <2>1
  <2>3. CASE j < k
    <3>1. j < L /\ j \in 0..k - 1
      BY <1>1, <1>4, <2>2, <2>3
    <3>2. m[q + j] < m[r + j]
      BY <1>7, <2>1, <2>2, <3>1
    <3>3. m[q + j] = m[r + j] /\ m[q + j] \in Nat
      <4>1. q + j \in DOMAIN m
        BY <1>1, <3>1 DEF IsMemory
      <4>2. QED  BY <3>1, <4>1 DEF IsMemory
    <3>4. QED  BY <3>2, <3>3
  <2>4. CASE j = k
    <3>1. CASE k < L
      BY <1>7, <2>1, <2>2, <2>4, <3>1
    <3>2. CASE ~(k < L)
      BY <1>6, <1>8, <2>2, <2>4, <3>2
    <3>3. QED  BY <3>1, <3>2
  <2>5. CASE k < j
    <3>1. k + 1 \in 1..j /\ k < L /\ k < R
      BY <1>1, <2>1, <2>2, <2>5
    <3>2. sq[k + 1] = sr[k + 1]
      BY <2>1, <3>1
    <3>3. QED  BY <1>7, <1>8, <3>1, <3>2
  <2>6. QED  BY <2>2, <2>3, <2>4, <2>5
<1>11. QED  BY <1>2, <1>6, <1>9, <1>10

\* Where the loops are: k bytes on from where they began, of `length`.
OnBy(k, length) ==
  ptr = [to |-> libcCall.to + k, from |-> libcCall.from + k, n |-> length - k]
\* The memory after the first k bytes are copied.
MovedBytes(k) ==
  [a \in DOMAIN libcCall.memory |->
     IF a \in libcCall.to..libcCall.to + k - 1
     THEN libcCall.memory[libcCall.from + (a - libcCall.to)] ELSE libcCall.memory[a]]
EqualBytes(k) ==
  \A i \in 0..k - 1 :
    libcCall.memory[libcCall.from + i] = libcCall.memory[libcCall.to + i]

Copies(k) ==
  /\ k \in 0..Copied /\ OnBy(k, Copied) /\ bytes = MovedBytes(k)
  /\ libc = "copied" => k = Copied
Compares(k) ==
  /\ k \in 0..libcCall.n /\ OnBy(k, libcCall.n) /\ bytes = libcCall.memory /\ EqualBytes(k)
ComparesUpTo(k) ==
  /\ OnBy(k, libcCall.n) /\ bytes = libcCall.memory /\ EqualBytes(k)
  /\ \A i \in 0..k - 1 : libcCall.memory[libcCall.from + i] # 0
  /\ libcCall.name # "strcmp" => k = 0

Copyings == DOMAIN Following \cup {"copied"}
Comparings == {"compare bytes", "compare words"}

LibcInv ==
  /\ libcCall \in LibcCalls
  /\ libc \in {"called", "NULL", "done"} \cup Copyings \cup Comparings
  /\ libc = "called" => \E k \in Nat : ComparesUpTo(k)
  /\ libc \in Copyings => libcCall.name \in Copying /\ \E k \in 0..Copied : Copies(k)
  /\ libc \in Comparings => libcCall.name = "memcmp_length" /\ \E k \in 0..libcCall.n : Compares(k)
  /\ libc = "NULL" => bytes = libcCall.memory
  /\ libc = "done" => BytesAreMoved

\* What a program calls them with.
LEMMA CallIsLegal ==
  ASSUME libcCall \in LibcCalls
  PROVE  /\ IsMemory(libcCall.memory)
         /\ libcCall.to \in Nat /\ libcCall.from \in Nat /\ libcCall.n \in Nat
         /\ libcCall.name \in Copying =>
              /\ Copied \in Nat
              /\ Area(libcCall.from, Copied) \subseteq DOMAIN libcCall.memory
              /\ Area(libcCall.to, Copied) \subseteq DOMAIN libcCall.memory
              /\ Area(libcCall.from, Copied) \cap Area(libcCall.to, Copied) = {}
              /\ libcCall.name # "memcpy" =>
                   /\ Copied = SourceLength /\ IsString(libcCall.memory, libcCall.from)
              /\ libcCall.name \in {"strcpy", "strdup"} =>
                   libcCall.to + Copied \in DOMAIN libcCall.memory
              /\ libcCall.name = "strncpy" =>
                   Area(libcCall.to, libcCall.n) \subseteq DOMAIN libcCall.memory
         /\ libcCall.name = "memcmp_length" =>
              /\ Area(libcCall.from, libcCall.n) \subseteq DOMAIN libcCall.memory
              /\ Area(libcCall.to, libcCall.n) \subseteq DOMAIN libcCall.memory
         /\ libcCall.name = "strcmp" =>
              IsString(libcCall.memory, libcCall.from) /\ IsString(libcCall.memory, libcCall.to)
<1> DEFINE m == libcCall.memory
<1>1. IsMemory(m)
  BY CallsAssumption DEF IsMemory
<1>2. libcCall.to \in Nat /\ libcCall.from \in Nat /\ libcCall.n \in Nat
  BY CallsAssumption
<1>3. /\ libcCall.name \in {"memcpy", "memcmp_length"} =>
           Area(libcCall.from, libcCall.n) \cup Area(libcCall.to, libcCall.n) \subseteq DOMAIN m
      /\ libcCall.name \in {"strcpy", "strncpy", "strdup", "strcmp"} => IsString(m, libcCall.from)
      /\ libcCall.name = "strcmp" => IsString(m, libcCall.to)
  BY CallsAssumption
<1>4. Copied = CopyLength(libcCall)
  BY DEF Copied, CopyLength, SourceLength
<1>5. /\ libcCall.name \in Copying =>
           Area(libcCall.from, Copied) \cap Area(libcCall.to, Copied) = {}
      /\ libcCall.name \in {"strcpy", "strdup"} => Area(libcCall.to, Copied + 1) \subseteq DOMAIN m
      /\ libcCall.name = "strncpy" =>
           Area(libcCall.to, Copied) \cup Area(libcCall.to, libcCall.n) \subseteq DOMAIN m
  BY <1>4, CallsAssumption
<1>6. ASSUME libcCall.name \in Copying
      PROVE  /\ Copied \in Nat /\ Area(libcCall.from, Copied) \subseteq DOMAIN m
             /\ Area(libcCall.to, Copied) \subseteq DOMAIN m
             /\ libcCall.name # "memcpy" => Copied = SourceLength /\ IsString(m, libcCall.from)
             /\ libcCall.name \in {"strcpy", "strdup"} => libcCall.to + Copied \in DOMAIN m
  <2>1. CASE libcCall.name = "memcpy"
    BY <1>2, <1>3, <2>1 DEF Copied
  <2>2. CASE libcCall.name # "memcpy"
    <3>1. IsString(m, libcCall.from) /\ libcCall.name \in {"strcpy", "strncpy", "strdup"}
      BY <1>3, <1>6, <2>2 DEF Copying
    <3>2. Copied = SourceLength /\ Copied = Strlen(m, libcCall.from)
      BY <2>2 DEF Copied, SourceLength
    <3>3. Copied \in Nat /\ libcCall.from + Copied \in DOMAIN m
      BY <1>1, <1>2, <3>1, <3>2, LengthOfString
    <3>4. Area(libcCall.from, Copied) \subseteq DOMAIN m
      BY <1>1, <1>2, <3>3 DEF Area, IsMemory
    <3>5. libcCall.name \in {"strcpy", "strdup"} =>
            libcCall.to + Copied \in DOMAIN m /\ Area(libcCall.to, Copied) \subseteq DOMAIN m
      BY <1>2, <1>5, <3>3 DEF Area
    <3>6. QED  BY <1>5, <3>1, <3>2, <3>3, <3>4, <3>5
  <2>3. QED  BY <2>1, <2>2
<1>7. QED  BY <1>1, <1>2, <1>3, <1>5, <1>6

\* What is nothing of the loops leaves where they are.
LEMMA CallsAreDistinct ==
  /\ Copyings = {"align", "unrolled", "words", "bytes", "copied"}
  /\ "called" \notin Copyings /\ "NULL" \notin Copyings /\ "done" \notin Copyings
  /\ Comparings \cap Copyings = {} /\ "called" \notin Comparings
  /\ "NULL" \notin Comparings /\ "done" \notin Comparings
BY DEF Copyings, Comparings, Following

LEMMA LibcInitHolds == LibcInit => LibcInv
<1> SUFFICES ASSUME LibcInit PROVE LibcInv
  OBVIOUS
<1>1. libcCall \in LibcCalls /\ bytes = libcCall.memory /\ libc = "called"
      /\ ptr = [to |-> libcCall.to, from |-> libcCall.from, n |-> libcCall.n]
  BY DEF LibcInit
<1>2. libcCall.to \in Nat /\ libcCall.from \in Nat /\ libcCall.n \in Nat
  BY <1>1, CallIsLegal
<1>3. ComparesUpTo(0)
  BY <1>1, <1>2 DEF ComparesUpTo, OnBy, EqualBytes
<1>4. QED  BY <1>1, <1>3, CallsAreDistinct DEF LibcInv

\* The steps of copying.
LEMMA StartsCopyKeeps == LibcInv /\ StartsCopy => LibcInv'
<1> SUFFICES ASSUME LibcInv, StartsCopy PROVE LibcInv'
  OBVIOUS
<1>1. /\ libc = "called" /\ libcCall.name \in Copying /\ libc' = "align"
      /\ ptr' = [ptr EXCEPT !.n = IF libcCall.name = "memcpy" THEN @ ELSE SourceLength]
      /\ UNCHANGED <<libcCall, bytes, libcReturned>>
  BY DEF StartsCopy
<1>2. ComparesUpTo(0) /\ libcCall \in LibcCalls
  BY <1>1, CallsAreDistinct DEF LibcInv, ComparesUpTo, Copying
<1>3. libcCall.to \in Nat /\ libcCall.from \in Nat /\ libcCall.n \in Nat /\ Copied \in Nat
  BY <1>1, <1>2, CallIsLegal
<1>4. ptr = [to |-> libcCall.to, from |-> libcCall.from, n |-> libcCall.n]
  BY <1>2, <1>3 DEF ComparesUpTo, OnBy
<1>5. ptr' = [to |-> libcCall.to + 0, from |-> libcCall.from + 0, n |-> Copied - 0]
  BY <1>1, <1>3, <1>4 DEF Copied
<1>6. bytes = MovedBytes(0)
  <2>1. IsMemory(libcCall.memory) /\ bytes = libcCall.memory
    BY <1>2, CallIsLegal DEF ComparesUpTo
  <2>2. libcCall.to..libcCall.to + 0 - 1 = {}
    BY <1>3
  <2>3. QED  BY <2>1, <2>2 DEF MovedBytes, IsMemory
<1>7. Copied' = Copied
  BY <1>1 DEF Copied, SourceLength
<1>8. Copies(0)'
  <2>1. libcCall' = libcCall /\ bytes' = bytes /\ libc' # "copied" /\ 0 \in 0..Copied
    BY <1>1, <1>3
  <2>2. bytes' = [a \in DOMAIN libcCall.memory |->
                    IF a \in libcCall.to..libcCall.to + 0 - 1
                    THEN libcCall.memory[libcCall.from + (a - libcCall.to)]
                    ELSE libcCall.memory[a]]
    BY <1>6, <2>1 DEF MovedBytes
  <2>3. OnBy(0, Copied)'
    BY <1>5, <1>7, <2>1 DEF OnBy
  <2>4. QED  BY <1>7, <2>1, <2>2, <2>3 DEF Copies, MovedBytes
<1>9. QED  BY <1>1, <1>2, <1>3, <1>7, <1>8, CallsAreDistinct DEF LibcInv

LEMMA MovesOnKeeps == LibcInv /\ MovesOn => LibcInv'
<1> SUFFICES ASSUME LibcInv, MovesOn PROVE LibcInv'
  OBVIOUS
<1> DEFINE s == Stride[libc]
           m == libcCall.memory
           from == libcCall.from
           to == libcCall.to
           n == Copied
<1>1. /\ libc \in DOMAIN Following /\ GoesOn
      /\ bytes' = [a \in DOMAIN bytes |->
                     IF a \in ptr.to..ptr.to + s - 1 THEN bytes[ptr.from + (a - ptr.to)]
                     ELSE bytes[a]]
      /\ ptr' = [to |-> ptr.to + s, from |-> ptr.from + s, n |-> ptr.n - s]
      /\ UNCHANGED <<libcCall, libc, libcReturned>>
  BY DEF MovesOn, Advance
<1>2. libcCall \in LibcCalls /\ libc \in Copyings /\ libc # "copied"
  BY <1>1 DEF LibcInv, Copyings, Following
<1>3. libcCall.name \in Copying
  BY <1>2 DEF LibcInv
<1>4. PICK k \in 0..n : Copies(k)
  BY <1>2 DEF LibcInv
<1>5. /\ IsMemory(m) /\ to \in Nat /\ from \in Nat /\ n \in Nat
      /\ Area(from, n) \subseteq DOMAIN m /\ Area(to, n) \subseteq DOMAIN m
      /\ Area(from, n) \cap Area(to, n) = {}
  BY <1>2, <1>3, CallIsLegal
<1>6. ptr.to = to + k /\ ptr.from = from + k /\ ptr.n = n - k /\ bytes = MovedBytes(k)
  BY <1>4 DEF Copies, OnBy
<1> HIDE DEF n, m, from, to
<1>7. s \in Nat /\ k + s <= n /\ k + s \in 0..n
  <2>1. WordSize \in Nat /\ 4 * WordSize \in Nat /\ k \in Nat /\ n - k \in Nat
    BY <1>4, <1>5, WordAssumption
  <2>2. s \in Nat /\ s <= n - k
    <3>1. CASE libc = "align"
      BY <1>1, <1>6, <2>1, <3>1 DEF GoesOn, Stride
    <3>2. CASE libc = "bytes"
      BY <1>1, <1>6, <2>1, <3>2 DEF GoesOn, Stride
    <3>3. CASE libc \in {"unrolled", "words"}
      <4>1. n - k > s
        BY <1>1, <1>6, <3>3 DEF GoesOn
      <4>2. s \in Nat
        BY <2>1, <3>3 DEF Stride
      <4>3. QED  BY <2>1, <4>1, <4>2
    <3>4. QED  BY <1>1, <3>1, <3>2, <3>3 DEF Following
  <2> HIDE DEF s
  <2>3. QED  BY <1>5, <2>1, <2>2
<1>8. ptr' = [to |-> to + (k + s), from |-> from + (k + s), n |-> n - (k + s)]
  <2> HIDE DEF s
  <2>1. to + k + s = to + (k + s) /\ from + k + s = from + (k + s) /\ n - k - s = n - (k + s)
    BY <1>4, <1>5, <1>7
  <2>2. QED  BY <1>1, <1>6, <2>1
<1>9. bytes' = [a \in DOMAIN m |-> IF a \in to..to + (k + s) - 1 THEN m[from + (a - to)] ELSE m[a]]
  <2> HIDE DEF s
  <2>1. /\ DOMAIN bytes = DOMAIN m
        /\ \A a \in DOMAIN m : bytes[a] = IF a \in to..to + k - 1 THEN m[from + (a - to)] ELSE m[a]
    BY <1>6 DEF MovedBytes, m, to, from
  <2>2. ASSUME NEW a \in DOMAIN m
        PROVE  bytes'[a] = IF a \in to..to + (k + s) - 1 THEN m[from + (a - to)] ELSE m[a]
    <3>1. bytes'[a] = IF a \in to + k..to + k + s - 1 THEN bytes[from + k + (a - (to + k))]
                      ELSE bytes[a]
      BY <1>1, <1>6, <2>1, <2>2
    <3>2. a \in Nat /\ k \in Nat
      BY <1>4, <1>5, <2>2 DEF IsMemory
    <3>3. CASE a \in to + k..to + k + s - 1
      <4>1. from + k + (a - (to + k)) = from + (a - to) /\ a \in to..to + (k + s) - 1
        BY <1>5, <1>7, <3>2, <3>3
      <4>2. from + (a - to) \in from..from + n - 1
        BY <1>5, <1>7, <3>2, <3>3
      <4>3. from + (a - to) \in DOMAIN m /\ from + (a - to) \notin to..to + k - 1
        <5>1. from + (a - to) \in DOMAIN m /\ from + (a - to) \notin to..to + n - 1
          BY <1>5, <4>2 DEF Area
        <5>2. to + k - 1 <= to + n - 1
          BY <1>4, <1>5
        <5>3. QED  BY <1>4, <1>5, <3>2, <5>1, <5>2
      <4>4. QED  BY <2>1, <3>1, <3>3, <4>1, <4>3
    <3>4. CASE a \notin to + k..to + k + s - 1
      <4>1. a \in to..to + k - 1 <=> a \in to..to + (k + s) - 1
        BY <1>5, <1>7, <3>2, <3>4
      <4>2. QED  BY <2>1, <2>2, <3>1, <3>4, <4>1
    <3>5. QED  BY <3>3, <3>4
  <2>3. DOMAIN bytes' = DOMAIN m /\ bytes' = [a \in DOMAIN bytes' |-> bytes'[a]]
    BY <1>1, <2>1
  <2>4. QED  BY <2>2, <2>3
<1>10. Copied' = Copied /\ MovedBytes(k + s) = [a \in DOMAIN m |->
           IF a \in to..to + (k + s) - 1 THEN m[from + (a - to)] ELSE m[a]]
  BY <1>1 DEF Copied, SourceLength, MovedBytes, m, to, from
<1>10a. PICK j \in Nat : j = k + s
  BY <1>7
<1>11. Copies(j)'
  <2>1. bytes' = MovedBytes(j)
    BY <1>9, <1>10, <1>10a
  <2>2. libcCall' = libcCall /\ libc' # "copied"
    BY <1>1, <1>2
  <2>3. j \in 0..Copied /\ ptr' = [to |-> libcCall.to + j, from |-> libcCall.from + j, n |-> Copied - j]
    BY <1>7, <1>8, <1>10a DEF n, to, from
  <2>4. QED  BY <1>10, <2>1, <2>2, <2>3 DEF Copies, OnBy, MovedBytes
<1>12. j \in 0..Copied'
  BY <1>7, <1>10, <1>10a DEF n
<1>13. libcCall' = libcCall /\ libc' \in Copyings
  BY <1>1, <1>2
<1>14. QED  BY <1>2, <1>3, <1>11, <1>12, <1>13, CallsAreDistinct DEF LibcInv

LEMMA LoopEndsKeeps == LibcInv /\ LoopEnds => LibcInv'
<1> SUFFICES ASSUME LibcInv, LoopEnds PROVE LibcInv'
  OBVIOUS
<1>1. /\ libc \in DOMAIN Following /\ ~GoesOn /\ libc' = Following[libc]
      /\ UNCHANGED <<libcCall, bytes, ptr, libcReturned>>
  BY DEF LoopEnds
<1>2. libc \in Copyings /\ libc' \in Copyings
  BY <1>1 DEF Copyings, Following
<1>3. libcCall \in LibcCalls /\ libcCall.name \in Copying
  BY <1>2 DEF LibcInv
<1>4. PICK k \in 0..Copied : Copies(k)
  BY <1>2 DEF LibcInv
<1>5. Copied \in Nat
  BY <1>3, CallIsLegal
<1>6. libc' = "copied" => k = Copied
  <2> SUFFICES ASSUME libc' = "copied" PROVE k = Copied
    OBVIOUS
  <2>1. libc = "bytes"
    BY <1>1 DEF Following
  <2>2. ~(ptr.n > 0) /\ ptr.n = Copied - k
    BY <1>1, <1>4, <2>1 DEF GoesOn, Copies, OnBy
  <2>3. QED  BY <1>4, <1>5, <2>2
<1>7. Copied' = Copied
  BY <1>1 DEF Copied, SourceLength
<1>8. Copies(k)'
  BY <1>1, <1>4, <1>6, <1>7 DEF Copies, OnBy, MovedBytes
<1>9. QED  BY <1>1, <1>2, <1>3, <1>7, <1>8, CallsAreDistinct DEF LibcInv

\* What was copied, and what is written behind it, is what there was to be.
LEMMA EndsCopyMoves == LibcInv /\ EndsCopy => BytesAreMoved'
<1> SUFFICES ASSUME LibcInv, EndsCopy PROVE BytesAreMoved'
  OBVIOUS
<1> DEFINE m == libcCall.memory
           from == libcCall.from
           to == libcCall.to
           n == Copied
           E == Ending
<1>1. /\ libc = "copied" /\ libc' = "done"
      /\ bytes' = [a \in DOMAIN bytes |-> IF a \in Ending THEN 0 ELSE bytes[a]]
      /\ UNCHANGED <<libcCall, ptr, libcReturned>>
  BY DEF EndsCopy
<1>2. libcCall \in LibcCalls /\ libcCall.name \in Copying /\ bytes = MovedBytes(Copied)
  BY <1>1, CallsAreDistinct DEF LibcInv, Copies
<1>3. /\ IsMemory(m) /\ to \in Nat /\ from \in Nat /\ n \in Nat
      /\ Area(from, n) \subseteq DOMAIN m /\ Area(to, n) \subseteq DOMAIN m
      /\ libcCall.name # "memcpy" => n = SourceLength /\ IsString(m, from)
      /\ libcCall.name \in {"strcpy", "strdup"} => to + n \in DOMAIN m
      /\ libcCall.name = "strncpy" => Area(to, libcCall.n) \subseteq DOMAIN m
      /\ libcCall.n \in Nat
  BY <1>2, CallIsLegal
<1>4. /\ E \subseteq DOMAIN m
      /\ \A a \in E : a >= to + n
      /\ libcCall.name \in {"strcpy", "strdup"} => E = {to + n}
  <2>1. CASE libcCall.name = "memcpy"
    BY <2>1 DEF Ending
  <2>2. CASE libcCall.name = "strncpy"
    <3>1. E = to + n..to + libcCall.n - 1
      BY <1>3, <2>2 DEF Ending
    <3>2. E \subseteq Area(to, libcCall.n)
      BY <1>3, <3>1 DEF Area
    <3> HIDE DEF E, n, to
    <3>3. QED  BY <1>3, <2>2, <3>1, <3>2
  <2>3. CASE libcCall.name \in {"strcpy", "strdup"}
    <3>1. E = {to + n}
      BY <1>3, <2>3 DEF Ending
    <3> HIDE DEF E, n, to
    <3>2. QED  BY <1>3, <2>3, <3>1
  <2>4. QED  BY <1>2, <2>1, <2>2, <2>3 DEF Copying
<1>5. DOMAIN bytes' = DOMAIN m
  BY <1>1, <1>2 DEF MovedBytes
<1>6. \A a \in DOMAIN m : bytes'[a] = IF a \in E THEN 0
                                      ELSE IF a \in to..to + n - 1 THEN m[from + (a - to)] ELSE m[a]
  BY <1>1, <1>2 DEF MovedBytes
<1>7. Copied' = n /\ Ending' = E /\ Destination' = (to..to + n - 1) \cup E /\ libcCall' = libcCall
  BY <1>1 DEF Copied, Ending, SourceLength, Destination
<1> HIDE DEF m, from, to, n, E
<1>8. \A a \in DOMAIN m : a \notin (to..to + n - 1) \cup E => bytes'[a] = m[a]
  BY <1>6
<1>9. \A i \in 0..n - 1 : to + i \in DOMAIN m /\ bytes'[to + i] = m[from + i]
  <2> TAKE i \in 0..n - 1
  <2>1. to + i \in to..to + n - 1 /\ from + ((to + i) - to) = from + i /\ ~(to + i >= to + n)
    BY <1>3
  <2>2. to + i \in DOMAIN m /\ to + i \notin E
    BY <1>3, <1>4, <2>1 DEF Area
  <2>3. QED  BY <1>6, <2>1, <2>2
<1>10. \A a \in E : bytes'[a] = 0
  BY <1>4, <1>6
<1>11. ASSUME libcCall.name \in {"strcpy", "strdup"}
       PROVE  StringAt(bytes', to) = StringAt(m, from)
  <2>1. n = Strlen(m, from) /\ \A i \in 0..n - 1 : m[from + i] # 0
    <3>1. n = Strlen(m, from) /\ IsString(m, from)
      BY <1>3, <1>11 DEF SourceLength, m, from
    <3>2. QED  BY <1>3, <3>1, LengthOfString
  <2>2. IsMemory(bytes')
    <3>1. \A a \in DOMAIN m : bytes'[a] \in Nat
      <4> TAKE a \in DOMAIN m
      <4>1. CASE a \in to..to + n - 1
        <5>1. from + (a - to) \in Area(from, n)
          BY <1>3, <4>1 DEF Area
        <5>2. QED  BY <1>3, <1>6, <5>1, SMTT(30) DEF IsMemory
      <4>2. CASE a \notin to..to + n - 1
        BY <1>3, <1>6, <4>2 DEF IsMemory
      <4>3. QED  BY <4>1, <4>2
    <3>2. bytes' = [a \in DOMAIN bytes' |-> bytes'[a]]
      BY <1>1
    <3>3. QED  BY <1>3, <1>5, <3>1, <3>2 DEF IsMemory
  <2>3. to + n \in DOMAIN bytes' /\ bytes'[to + n] = 0
    BY <1>3, <1>4, <1>5, <1>10, <1>11
  <2>4. \A i \in 0..n - 1 : bytes'[to + i] # 0
    BY <1>9, <2>1
  <2>5. PICK after : after = bytes'
    OBVIOUS
  <2>6. Strlen(after, to) = n
    BY <1>3, <2>2, <2>3, <2>4, <2>5, LengthIs
  <2>7. \A i \in 1..n : after[to + i - 1] = m[from + i - 1]
    <3> TAKE i \in 1..n
    <3>1. i - 1 \in 0..n - 1 /\ to + (i - 1) = to + i - 1 /\ from + (i - 1) = from + i - 1
      BY <1>3
    <3>2. QED  BY <1>9, <2>5, <3>1
  <2>8. StringAt(after, to) = StringAt(m, from)
    BY <2>1, <2>6, <2>7 DEF StringAt
  <2>9. QED  BY <2>5, <2>8
<1>12. libcCall.name # "memcmp_length" /\ libcCall.name # "strcmp"
  BY <1>2 DEF Copying
<1>13. QED
  BY <1>1, <1>2, <1>5, <1>7, <1>8, <1>9, <1>10, <1>11, <1>12 DEF BytesAreMoved, m, from, to

-----------------------------------------------------------------------------
\* memcmp_length.  From the first byte that differs on, there is one answer.
LEMMA EqualLengthIs ==
  ASSUME libcCall \in LibcCalls, libcCall.name = "memcmp_length", bytes = libcCall.memory
  PROVE  /\ EqualLength \in 0..libcCall.n
         /\ \A i \in 0..EqualLength - 1 : bytes[libcCall.from + i] = bytes[libcCall.to + i]
         /\ EqualLength < libcCall.n =>
              bytes[libcCall.from + EqualLength] # bytes[libcCall.to + EqualLength]
<1> DEFINE n == libcCall.n
           Same(i) == bytes[libcCall.from + i] = bytes[libcCall.to + i]
           Is(k) == (\A i \in 0..k - 1 : Same(i)) /\ (k < n => ~Same(k))
           Ends == {k \in 0..n : k = n \/ ~Same(k)}
<1>1. n \in Nat
  BY CallIsLegal
<1> HIDE DEF n, Same
<1>2. PICK k \in Ends : \A other \in Ends : k <= other
  <2>1. n \in Ends /\ Ends \subseteq Nat
    BY <1>1
  <2> HIDE DEF Ends
  <2>2. QED  BY <2>1, LeastElement
<1>3. k \in 0..n /\ Is(k)
  <2>1. \A i \in 0..k - 1 : i \in 0..n /\ i # n /\ ~(k <= i)
    BY <1>1, <1>2
  <2>2. QED  BY <1>1, <1>2, <2>1
<1> HIDE DEF Is, Ends
<1>4. (CHOOSE j \in 0..n : Is(j)) \in 0..n /\ Is(CHOOSE j \in 0..n : Is(j))
  BY <1>3
<1>5. EqualLength = CHOOSE j \in 0..n : Is(j)
  BY DEF EqualLength, Is, n, Same
<1>6. EqualLength \in 0..n /\ Is(EqualLength)
  BY <1>4, <1>5
<1>7. QED  BY <1>6 DEF Is, n, Same

\* The comparison ends where bytes differ, or less than a word before.
LEMMA ComparisonReturns ==
  ASSUME libcCall \in LibcCalls, libcCall.name = "memcmp_length", NEW k \in 0..libcCall.n,
         Compares(k), LibcReturns(Compared),
         libcCall.n - k < WordSize \/ \E w \in 0..WordSize - 1 : w < libcCall.n - k /\
            libcCall.memory[libcCall.from + (k + w)] # libcCall.memory[libcCall.to + (k + w)]
  PROVE  BytesAreMoved'
<1>1. /\ libc' = "done" /\ libcReturned' = libcCall.n - ptr.n
      /\ UNCHANGED <<libcCall, bytes, ptr>>
  BY DEF LibcReturns, Compared
<1>2. bytes = libcCall.memory /\ ptr.n = libcCall.n - k /\ EqualBytes(k)
  BY DEF Compares, OnBy
<1>3. libcCall.n \in Nat /\ WordSize \in Nat /\ WordSize > 0
  BY CallIsLegal, WordAssumption
<1>4. libcReturned' = k /\ k \in Nat
  BY <1>1, <1>2, <1>3
<1> DEFINE e == EqualLength
<1>5. /\ e \in 0..libcCall.n
      /\ \A i \in 0..e - 1 : bytes[libcCall.from + i] = bytes[libcCall.to + i]
      /\ e < libcCall.n => bytes[libcCall.from + e] # bytes[libcCall.to + e]
  BY <1>2, EqualLengthIs
<1>6. EqualLength' = e
  BY <1>1 DEF EqualLength
<1> HIDE DEF e
<1>7. k <= e
  <2>1. CASE e < k
    <3>1. e \in 0..k - 1 /\ e < libcCall.n
      BY <1>3, <1>5, <2>1
    <3>2. QED  BY <1>2, <1>5, <3>1 DEF EqualBytes
  <2>2. QED  BY <1>4, <1>5, <2>1
<1>8. e - k < WordSize
  <2>1. CASE libcCall.n - k < WordSize
    BY <1>3, <1>4, <1>5, <2>1
  <2>2. ASSUME NEW w \in 0..WordSize - 1,
               libcCall.memory[libcCall.from + (k + w)] # libcCall.memory[libcCall.to + (k + w)]
        PROVE  e - k < WordSize
    <3>1. k + w \notin 0..e - 1
      BY <1>2, <1>5, <2>2
    <3>2. QED  BY <1>3, <1>4, <1>5, <2>2, <3>1
  <2>3. QED  BY <2>1, <2>2
<1>9. "memcmp_length" \notin Copying
  BY DEF Copying
<1>10. QED  BY <1>1, <1>2, <1>4, <1>6, <1>7, <1>8, <1>9 DEF BytesAreMoved

LEMMA StartsComparisonKeeps == LibcInv /\ StartsComparison => LibcInv'
<1> SUFFICES ASSUME LibcInv, StartsComparison PROVE LibcInv'
  OBVIOUS
<1>1. /\ libc = "called" /\ libcCall.name = "memcmp_length" /\ libc' = "compare bytes"
      /\ UNCHANGED <<libcCall, bytes, ptr, libcReturned>>
  BY DEF StartsComparison
<1>2. ComparesUpTo(0) /\ libcCall \in LibcCalls
  BY <1>1 DEF LibcInv, ComparesUpTo
<1>3. libcCall.n \in Nat
  BY <1>2, CallIsLegal
<1>3a. libcCall' = libcCall /\ bytes' = bytes /\ ptr' = ptr
  BY <1>1
<1>4. Compares(0)'
  BY <1>2, <1>3, <1>3a DEF Compares, ComparesUpTo, OnBy, EqualBytes
<1>5. libc' \in Comparings /\ 0 \in 0..libcCall'.n
  <2>1. 0 \in 0..libcCall.n
    BY <1>3
  <2>2. QED  BY <1>1, <1>3a, <2>1 DEF Comparings
<1>6. QED  BY <1>1, <1>2, <1>4, <1>5, CallsAreDistinct DEF LibcInv

\* A byte, or a word, that does not differ is counted.
LEMMA CountsOn ==
  ASSUME LibcInv, libc \in Comparings, NEW k \in 0..libcCall.n, Compares(k),
         NEW w \in Nat, k + w <= libcCall.n, ~Differ(w), Advance(w),
         UNCHANGED <<libcCall, bytes, libc, libcReturned>>
  PROVE  LibcInv'
<1>1. /\ libcCall \in LibcCalls /\ libcCall.name = "memcmp_length"
      /\ bytes = libcCall.memory /\ EqualBytes(k)
      /\ ptr = [to |-> libcCall.to + k, from |-> libcCall.from + k, n |-> libcCall.n - k]
  BY DEF LibcInv, Compares, OnBy
<1>2. libcCall.n \in Nat /\ libcCall.to \in Nat /\ libcCall.from \in Nat
  BY <1>1, CallIsLegal
<1>3. \A i \in 0..w - 1 : bytes[libcCall.from + k + i] = bytes[libcCall.to + k + i]
  BY <1>1 DEF Differ
<1>4. PICK j \in Nat : j = k + w
  BY <1>2
<1>5. \A i \in 0..j - 1 : bytes[libcCall.from + i] = bytes[libcCall.to + i]
  <2> TAKE i \in 0..j - 1
  <2>1. CASE i < k
    BY <1>1, <1>2, <2>1 DEF EqualBytes
  <2>2. CASE ~(i < k)
    <3>1. i - k \in 0..w - 1 /\ libcCall.from + k + (i - k) = libcCall.from + i
          /\ libcCall.to + k + (i - k) = libcCall.to + i
      BY <1>2, <1>4, <2>2
    <3>2. QED  BY <1>3, <3>1
  <2>3. QED  BY <2>1, <2>2
<1>6. ptr' = [to |-> libcCall.to + j, from |-> libcCall.from + j, n |-> libcCall.n - j]
  <2>1. /\ libcCall.to + k + w = libcCall.to + j /\ libcCall.from + k + w = libcCall.from + j
        /\ libcCall.n - k - w = libcCall.n - j
    BY <1>2, <1>4
  <2>2. ptr' = [to |-> libcCall.to + k + w, from |-> libcCall.from + k + w,
                n |-> libcCall.n - k - w]
    BY <1>1 DEF Advance
  <2>3. QED  BY <2>1, <2>2
<1>7. j \in 0..libcCall.n
  BY <1>2, <1>4
<1>8. Compares(j)'
  BY <1>1, <1>5, <1>6, <1>7 DEF Compares, OnBy, EqualBytes
<1>9. QED  BY <1>1, <1>7, <1>8, CallsAreDistinct DEF LibcInv, Comparings

LEMMA ComparesByteKeeps == LibcInv /\ ComparesByte => LibcInv'
<1> SUFFICES ASSUME LibcInv, ComparesByte PROVE LibcInv'
  OBVIOUS
<1>1. libc = "compare bytes"
  BY DEF ComparesByte
<1>2. libc \in Comparings
  BY <1>1 DEF Comparings
<1>3. libcCall \in LibcCalls /\ libcCall.name = "memcmp_length"
  BY <1>2 DEF LibcInv
<1>4. PICK k \in 0..libcCall.n : Compares(k)
  BY <1>2 DEF LibcInv
<1>5. /\ libcCall.n \in Nat /\ libcCall.to \in Nat /\ libcCall.from \in Nat
      /\ WordSize \in Nat /\ WordSize > 0
  BY <1>3, CallIsLegal, WordAssumption
<1>6. /\ ptr.n = libcCall.n - k /\ ptr.from = libcCall.from + k /\ ptr.to = libcCall.to + k
      /\ bytes = libcCall.memory
  BY <1>4 DEF Compares, OnBy
<1>7. CASE ptr.from % WordSize = 0 \/ ptr.n = 0
  <2>1. libc' = "compare words" /\ UNCHANGED <<libcCall, bytes, ptr, libcReturned>>
    BY <1>1, <1>7 DEF ComparesByte
  <2>2. Compares(k)' /\ libc' \in Comparings /\ k \in 0..libcCall'.n
    BY <1>4, <2>1 DEF Compares, OnBy, EqualBytes, Comparings
  <2>3. QED  BY <1>3, <2>1, <2>2, CallsAreDistinct DEF LibcInv
<1>8. CASE ~(ptr.from % WordSize = 0 \/ ptr.n = 0)
  <2>1. k + 1 <= libcCall.n
    BY <1>5, <1>6, <1>8
  <2>2. CASE Differ(1)
    <3>1. LibcReturns(Compared)
      BY <1>1, <1>8, <2>2 DEF ComparesByte
    <3>2. bytes[libcCall.from + (k + 0)] # bytes[libcCall.to + (k + 0)]
      <4>1. \A i \in 0..1 - 1 : i = 0
        OBVIOUS
      <4>2. libcCall.from + k + 0 = libcCall.from + (k + 0)
            /\ libcCall.to + k + 0 = libcCall.to + (k + 0)
        BY <1>5
      <4>3. QED  BY <1>6, <2>2, <4>1, <4>2 DEF Differ
    <3>3. 0 \in 0..WordSize - 1 /\ 0 < libcCall.n - k
      BY <1>5, <2>1
    <3>4. BytesAreMoved'
      BY <1>3, <1>4, <1>6, <3>1, <3>2, <3>3, ComparisonReturns
    <3>5. libcCall' = libcCall /\ libc' = "done"
      BY <3>1 DEF LibcReturns
    <3>6. QED  BY <1>3, <3>4, <3>5, CallsAreDistinct DEF LibcInv
  <2>3. CASE ~Differ(1)
    <3>1. Advance(1) /\ UNCHANGED <<libcCall, bytes, libc, libcReturned>>
      BY <1>1, <1>8, <2>3 DEF ComparesByte
    <3>2. QED  BY <1>2, <1>4, <2>1, <2>3, <3>1, CountsOn
  <2>4. QED  BY <2>2, <2>3
<1>9. QED  BY <1>7, <1>8

LEMMA ComparesWordKeeps == LibcInv /\ ComparesWord => LibcInv'
<1> SUFFICES ASSUME LibcInv, ComparesWord PROVE LibcInv'
  OBVIOUS
<1>1. libc = "compare words"
  BY DEF ComparesWord
<1>2. libc \in Comparings
  BY <1>1 DEF Comparings
<1>3. libcCall \in LibcCalls /\ libcCall.name = "memcmp_length"
  BY <1>2 DEF LibcInv
<1>4. PICK k \in 0..libcCall.n : Compares(k)
  BY <1>2 DEF LibcInv
<1>5. /\ libcCall.n \in Nat /\ libcCall.to \in Nat /\ libcCall.from \in Nat
      /\ WordSize \in Nat /\ WordSize > 0
  BY <1>3, CallIsLegal, WordAssumption
<1>6. /\ ptr.n = libcCall.n - k /\ ptr.from = libcCall.from + k /\ ptr.to = libcCall.to + k
      /\ bytes = libcCall.memory
  BY <1>4 DEF Compares, OnBy
<1>7. CASE ptr.n < WordSize \/ Differ(WordSize)
  <2>1. LibcReturns(Compared)
    BY <1>1, <1>7 DEF ComparesWord
  <2>2. libcCall.n - k < WordSize \/ \E w \in 0..WordSize - 1 : w < libcCall.n - k /\
          libcCall.memory[libcCall.from + (k + w)] # libcCall.memory[libcCall.to + (k + w)]
    <3>1. CASE ptr.n < WordSize
      BY <1>6, <3>1
    <3>2. CASE ~(ptr.n < WordSize)
      <4>1. PICK w \in 0..WordSize - 1 : bytes[ptr.from + w] # bytes[ptr.to + w]
        BY <1>7, <3>2 DEF Differ
      <4>2. /\ libcCall.from + k + w = libcCall.from + (k + w)
            /\ libcCall.to + k + w = libcCall.to + (k + w) /\ w < libcCall.n - k
        BY <1>5, <1>6, <3>2
      <4>3. QED  BY <1>6, <4>1, <4>2
    <3>3. QED  BY <3>1, <3>2
  <2>3. BytesAreMoved'
    BY <1>3, <1>4, <2>1, <2>2, ComparisonReturns
  <2>4. libcCall' = libcCall /\ libc' = "done"
    BY <2>1 DEF LibcReturns
  <2>5. QED  BY <1>3, <2>3, <2>4, CallsAreDistinct DEF LibcInv
<1>8. CASE ~(ptr.n < WordSize \/ Differ(WordSize))
  <2>1. Advance(WordSize) /\ UNCHANGED <<libcCall, bytes, libc, libcReturned>>
    BY <1>1, <1>8 DEF ComparesWord
  <2>2. k + WordSize <= libcCall.n
    BY <1>5, <1>6, <1>8
  <2>3. QED  BY <1>2, <1>4, <1>5, <1>8, <2>1, <2>2, CountsOn
<1>9. QED  BY <1>7, <1>8

-----------------------------------------------------------------------------
\* strcmp.
LEMMA ComparesStringsKeeps == LibcInv /\ ComparesStrings => LibcInv'
<1> SUFFICES ASSUME LibcInv, ComparesStrings PROVE LibcInv'
  OBVIOUS
<1> DEFINE m == libcCall.memory
           from == libcCall.from
           to == libcCall.to
<1>1. libc = "called" /\ libcCall.name = "strcmp" /\ libcCall \in LibcCalls
  BY DEF ComparesStrings, LibcInv
<1>2. PICK k \in Nat : ComparesUpTo(k)
  BY <1>1 DEF LibcInv
<1>3. /\ IsMemory(m) /\ from \in Nat /\ to \in Nat /\ IsString(m, from) /\ IsString(m, to)
      /\ libcCall.n \in Nat
  BY <1>1, CallIsLegal
<1>4. /\ ptr = [to |-> to + k, from |-> from + k, n |-> libcCall.n - k] /\ bytes = m
      /\ \A i \in 0..k - 1 : m[from + i] = m[to + i] /\ m[from + i] # 0
  BY <1>2 DEF ComparesUpTo, OnBy, EqualBytes
<1>5. Differ(1) <=> m[from + k] # m[to + k]
  <2>1. \A i \in 0..1 - 1 : i = 0
    OBVIOUS
  <2>2. from + k + 0 = from + k /\ to + k + 0 = to + k /\ 0 \in 0..1 - 1
    BY <1>3
  <2> HIDE DEF m, from, to
  <2>3. QED  BY <1>4, <2>1, <2>2 DEF Differ
<1>6. CASE Differ(1) \/ bytes[ptr.to] = 0
  <2>1. LibcReturns(m[from + k] - m[to + k])
    <3>1. LibcReturns(bytes[ptr.from] - bytes[ptr.to])
      BY <1>1, <1>6 DEF ComparesStrings
    <3>2. QED  BY <1>4, <3>1
  <2>2. /\ libc' = "done" /\ libcReturned' = m[from + k] - m[to + k]
        /\ libcCall' = libcCall /\ bytes' = m
    BY <1>4, <2>1 DEF LibcReturns
  <2> HIDE DEF m, from, to
  <2>3. m[from + k] = m[to + k] => m[from + k] = 0 /\ m[to + k] = 0
    BY <1>4, <1>5, <1>6
  <2>4. \A i \in 0..k - 1 : m[to + i] = m[from + i] /\ m[to + i] # 0
    BY <1>4
  <2>5. /\ m[from + k] \in Nat /\ m[to + k] \in Nat
        /\ m[from + k] < m[to + k] <=> IsBefore(StringAt(m, from), StringAt(m, to))
    BY <1>3, <1>4, <2>3, OrderOfStrings
  <2>6. m[to + k] < m[from + k] <=> IsBefore(StringAt(m, to), StringAt(m, from))
    BY <1>3, <2>3, <2>4, OrderOfStrings
  <2>7. /\ libcReturned' < 0 <=> IsBefore(StringAt(m, from), StringAt(m, to))
        /\ libcReturned' > 0 <=> IsBefore(StringAt(m, to), StringAt(m, from))
    BY <2>2, <2>5, <2>6
  <2>8. "strcmp" \notin Copying
    BY DEF Copying
  <2>9. BytesAreMoved'
    BY <1>1, <2>2, <2>7, <2>8 DEF BytesAreMoved, m, from, to
  <2>10. QED  BY <1>1, <2>2, <2>9, CallsAreDistinct DEF LibcInv
<1>7. CASE ~(Differ(1) \/ bytes[ptr.to] = 0)
  <2>1. /\ ptr' = [to |-> ptr.to + 1, from |-> ptr.from + 1, n |-> ptr.n - 1]
        /\ UNCHANGED <<libcCall, bytes, libc, libcReturned>>
    BY <1>1, <1>7 DEF ComparesStrings, Advance
  <2>2. m[from + k] = m[to + k] /\ m[to + k] # 0
    BY <1>4, <1>5, <1>7
  <2>3. PICK j \in Nat : j = k + 1
    OBVIOUS
  <2> HIDE DEF m, from, to
  <2>4. ptr' = [to |-> to + j, from |-> from + j, n |-> libcCall.n - j]
    <3>1. to + k + 1 = to + j /\ from + k + 1 = from + j /\ libcCall.n - k - 1 = libcCall.n - j
      BY <1>3, <2>3
    <3>2. QED  BY <1>4, <2>1, <3>1
  <2>5. \A i \in 0..j - 1 : m[from + i] = m[to + i] /\ m[from + i] # 0
    BY <1>4, <2>2, <2>3
  <2>6. ComparesUpTo(j)'
    BY <1>1, <1>4, <2>1, <2>4, <2>5 DEF ComparesUpTo, OnBy, EqualBytes, m, from, to
  <2>7. QED  BY <1>1, <2>1, <2>6, CallsAreDistinct DEF LibcInv
<1>8. QED  BY <1>6, <1>7

-----------------------------------------------------------------------------
LEMMA LibcKeeps == LibcInv /\ [LibcNext]_libcVars => LibcInv'
<1> SUFFICES ASSUME LibcInv, [LibcNext]_libcVars PROVE LibcInv'
  OBVIOUS
<1>1. CASE MallocFails
  <2>1. libc = "called" /\ libc' = "NULL" /\ UNCHANGED <<libcCall, bytes, ptr, libcReturned>>
    BY <1>1 DEF MallocFails
  <2>2. bytes = libcCall.memory /\ libcCall \in LibcCalls
    BY <2>1 DEF LibcInv, ComparesUpTo
  <2>3. QED  BY <2>1, <2>2, CallsAreDistinct DEF LibcInv
<1>2. CASE EndsCopy
  <2>1. libc' = "done" /\ libcCall' = libcCall /\ BytesAreMoved'
    BY <1>2, EndsCopyMoves DEF EndsCopy
  <2>2. QED  BY <2>1, CallsAreDistinct DEF LibcInv
<1>3. CASE UNCHANGED libcVars
  <2>1. UNCHANGED <<libcCall, bytes, ptr, libc, libcReturned>>
    BY <1>3 DEF libcVars
  <2>2. QED
    BY <2>1 DEF LibcInv, ComparesUpTo, Copies, Compares, OnBy, EqualBytes, MovedBytes, Copied,
                SourceLength, BytesAreMoved, Destination, Ending, EqualLength
<1>4. QED
  BY <1>1, <1>2, <1>3, StartsCopyKeeps, MovesOnKeeps, LoopEndsKeeps, StartsComparisonKeeps,
     ComparesByteKeeps, ComparesWordKeeps, ComparesStringsKeeps DEF LibcNext

\* At no step is anything but the destination changed.
LEMMA LibcInvImplies == LibcInv => BytesAreMoved
<1> SUFFICES ASSUME LibcInv, libc # "done" PROVE BytesAreMoved
  BY DEF LibcInv
<1>1. CASE libc \in Copyings
  <2>1. PICK k \in 0..Copied : Copies(k)
    BY <1>1 DEF LibcInv
  <2>2. libcCall \in LibcCalls /\ libcCall.name \in Copying
    BY <1>1 DEF LibcInv
  <2>3. /\ IsMemory(libcCall.memory) /\ Copied \in Nat /\ libcCall.to \in Nat
    BY <2>2, CallIsLegal
  <2>4. bytes = MovedBytes(k)
    BY <2>1 DEF Copies
  <2>5. \A a \in DOMAIN bytes : a \notin Destination => bytes[a] = libcCall.memory[a]
    <3> SUFFICES ASSUME NEW a \in DOMAIN bytes, a \notin libcCall.to..libcCall.to + Copied - 1
                 PROVE  bytes[a] = libcCall.memory[a]
      BY DEF Destination
    <3>1. a \in DOMAIN libcCall.memory /\ a \in Nat
      BY <2>3, <2>4 DEF MovedBytes, IsMemory
    <3>2. a \notin libcCall.to..libcCall.to + k - 1
      BY <2>3, <3>1
    <3>3. QED  BY <2>4, <3>1, <3>2 DEF MovedBytes
  <2>6. QED  BY <2>2, <2>5 DEF BytesAreMoved
<1>2. CASE libc \notin Copyings
  <2>1. bytes = libcCall.memory
    BY <1>2 DEF LibcInv, ComparesUpTo, Compares
  <2>2. QED  BY <2>1 DEF BytesAreMoved
<1>3. QED  BY <1>1, <1>2

\* The string functions write what they are to write and nothing else, at every
\* alignment and of every length, whatever size a word has; memcmp_length counts
\* what is equal and strcmp puts strings in their order, for every call that C
\* allows (memcpy.c:27-64, memcmp_length.c:22-53, strcmp.c).
THEOREM LibcMovesBytes == LibcSpec => []BytesAreMoved
<1>1. LibcInit => LibcInv
  BY LibcInitHolds
<1>2. LibcInv /\ [LibcNext]_libcVars => LibcInv'
  BY LibcKeeps
<1>3. LibcInv => BytesAreMoved
  BY LibcInvImplies
<1>4. QED  BY <1>1, <1>2, <1>3, PTL DEF LibcSpec

-----------------------------------------------------------------------------
(* The lines of a buffer: LineReader.                                      *)

\* A newline is one of the bytes.
LEMMA NewlineIsByte == Newline \in LineBytes /\ <<Newline>> \in Seq(LineBytes)
<1>1. Newline \in LineBytes
  BY DEF LineBytes
<1>2. \A b \in LineBytes : <<b>> \in Seq(LineBytes)
  OBVIOUS
<1>3. QED  BY <1>1, <1>2

\* A text is in two parts at any place.
LEMMA TextParts ==
  ASSUME NEW text \in Seq(LineBytes), NEW upto \in Nat, NEW end \in Nat,
         upto <= end, end <= Len(text)
  PROVE  /\ SubSeq(text, 1, upto) \in Seq(LineBytes)
         /\ SubSeq(text, upto + 1, end) \in Seq(LineBytes)
         /\ SubSeq(text, 1, upto) \o SubSeq(text, upto + 1, end) = SubSeq(text, 1, end)
<1>1. 0 \in Nat /\ 0 <= upto /\ upto <= Len(text) /\ 0 + 1 = 1
  BY LenProperties
<1>2. SubSeq(text, 0 + 1, upto) \o SubSeq(text, upto + 1, end) = SubSeq(text, 0 + 1, end)
  BY <1>1, Adjacent
<1>3. SubSeq(text, 0 + 1, upto) \in Seq(LineBytes) /\ SubSeq(text, upto + 1, end) \in Seq(LineBytes)
  BY <1>1, Piece
<1>4. QED  BY <1>1, <1>2, <1>3

\* What joins the lines grows with each of them.
LEMMA JoinedNext ==
  ASSUME NEW read \in Seq(Seq(LineBytes)), NEW next \in Seq(LineBytes)
  PROVE  /\ Joined(read) \in Seq(LineBytes)
         /\ Joined(Append(read, next)) = IF read = <<>> THEN next
                                         ELSE Append(Joined(read), Newline) \o next
<1> DEFINE Parts(ls) == [n \in DOMAIN ls |-> IF n = 1 THEN ls[n] ELSE <<Newline>> \o ls[n]]
           all == Append(read, next)
           k == Len(read)
<1>1. k \in Nat /\ read \in [1..k -> Seq(LineBytes)]
  BY LenProperties
<1>2. /\ all \in Seq(Seq(LineBytes)) /\ Len(all) = k + 1
      /\ \A n \in 1..k : all[n] = read[n]
      /\ all[k + 1] = next
  BY AppendProperties
<1>3. DOMAIN all = 1..k + 1 /\ \A n \in 1..k + 1 : all[n] \in Seq(LineBytes)
  BY <1>2, LenProperties, ElementOfSeq
<1> HIDE DEF all, k
<1>4. <<Newline>> \in Seq(LineBytes)
  BY NewlineIsByte
<1>5. \A part \in Seq(LineBytes) : <<Newline>> \o part \in Seq(LineBytes)
  BY <1>4, ConcatProperties
<1> DEFINE s == Parts(all)
           r == Parts(read)
<1>6. /\ s \in Seq(Seq(LineBytes)) /\ Len(s) = k + 1
      /\ s[k + 1] = IF k + 1 = 1 THEN next ELSE <<Newline>> \o next
  <2>1. s \in [1..k + 1 -> Seq(LineBytes)]
    BY <1>3, <1>5
  <2>2. k + 1 \in Nat /\ k + 1 \in 1..k + 1
    BY <1>1
  <2>4. s[k + 1] = IF k + 1 = 1 THEN next ELSE <<Newline>> \o next
    BY <1>2, <1>3, <2>2
  <2> HIDE DEF s
  <2>3. s \in Seq(Seq(LineBytes)) /\ Len(s) = k + 1
    BY <2>1, <2>2, SMTT(30)
  <2>5. QED  BY <2>3, <2>4
<1>7. /\ r \in Seq(Seq(LineBytes)) /\ Len(r) = k
      /\ \A n \in 1..k : r[n] = s[n]
  <2>1. DOMAIN read = 1..k /\ \A n \in 1..k : read[n] \in Seq(LineBytes)
    BY <1>1
  <2>2. r \in [1..k -> Seq(LineBytes)]
    BY <2>1, <1>5
  <2>3. r \in Seq(Seq(LineBytes)) /\ Len(r) = k
    BY <1>1, <2>2
  <2>4. \A n \in 1..k : n \in 1..k + 1
    BY <1>1
  <2>5. QED  BY <1>2, <1>3, <2>1, <2>3, <2>4
<1> HIDE DEF s, r
<1>8. SubSeq(s, 1, k + 1) = s
  BY <1>6, SubSeqFull
<1>9. SubSeq(s, 1, k) = r
  <2>1. k <= Len(s) /\ 0 <= k
    BY <1>1, <1>6
  <2>2. /\ SubSeq(s, 0 + 1, k) \in Seq(Seq(LineBytes)) /\ Len(SubSeq(s, 0 + 1, k)) = k - 0
        /\ \A n \in 1..k - 0 : SubSeq(s, 0 + 1, k)[n] = s[0 + n]
    BY <1>1, <1>6, <2>1, Piece
  <2>3. /\ SubSeq(s, 1, k) \in Seq(Seq(LineBytes)) /\ Len(SubSeq(s, 1, k)) = k
        /\ \A n \in 1..k : SubSeq(s, 1, k)[n] = s[n]
    BY <1>1, <2>2
  <2>4. QED  BY <1>7, <2>3, SeqEqual
<1>10. FlattenSeq(r) \in Seq(LineBytes) /\ FlattenSeq(s) = FlattenSeq(r) \o s[k + 1]
  <2>1. PICK m : m = k + 1
    OBVIOUS
  <2>2. s \in Seq(Seq(LineBytes)) /\ m \in 1..Len(s) /\ m - 1 = k
    BY <1>1, <1>6, <2>1
  <2>3. /\ FlattenSeq(SubSeq(s, 1, m - 1)) \in Seq(LineBytes)
        /\ FlattenSeq(SubSeq(s, 1, m)) = FlattenSeq(SubSeq(s, 1, m - 1)) \o s[m]
    BY <2>2, FlattenNext
  <2>4. QED  BY <1>8, <1>9, <2>1, <2>2, <2>3
<1>11. Joined(read) = FlattenSeq(r) /\ Joined(Append(read, next)) = FlattenSeq(s)
  BY DEF Joined, r, s, all
<1>12. CASE read = <<>>
  <2>1. k = 0 /\ r = <<>>
    BY <1>7, <1>12 DEF k
  <2>2. FlattenSeq(<<>>) = <<>>
    BY DEF FlattenSeq
  <2>3. <<>> \o next = next
    BY ConcatEmptySeq
  <2>4. QED  BY <1>6, <1>10, <1>11, <1>12, <2>1, <2>2, <2>3
<1>13. CASE read # <<>>
  <2>1. k # 0
    BY <1>13 DEF k
  <2>2. k + 1 # 1
    BY <1>1, <2>1
  <2>3. FlattenSeq(s) = FlattenSeq(r) \o (<<Newline>> \o next)
    BY <1>6, <1>10, <2>2
  <2>4. (FlattenSeq(r) \o <<Newline>>) \o next = FlattenSeq(r) \o (<<Newline>> \o next)
    BY <1>4, <1>10, ConcatAssociative
  <2>5. Append(FlattenSeq(r), Newline) = FlattenSeq(r) \o <<Newline>>
    BY <1>10, AppendIsConcat DEF LineBytes
  <2>6. QED  BY <1>10, <1>11, <1>13, <2>3, <2>4, <2>5
<1>14. QED  BY <1>12, <1>13

\* The next line begins at a place of a text: the lines before it, and a newline,
\* are what comes before that place.
Placed(read, text, upto) ==
  IF read = <<>> THEN upto = 0
  ELSE SubSeq(text, 1, upto) = Append(Joined(read), Newline)

\* A line that goes on from there joins the others.
LEMMA LineAfter ==
  ASSUME NEW text \in Seq(LineBytes), NEW read \in Seq(Seq(LineBytes)), NEW upto \in Nat,
         NEW end \in Nat, upto <= end, end <= Len(text), Placed(read, text, upto)
  PROVE  Joined(Append(read, SubSeq(text, upto + 1, end))) = SubSeq(text, 1, end)
<1>1. SubSeq(text, upto + 1, end) \in Seq(LineBytes)
  BY Piece
<1>2. CASE read = <<>>
  <2>1. upto = 0 /\ upto + 1 = 1
    BY <1>2 DEF Placed
  <2>2. QED  BY <1>1, <1>2, <2>1, JoinedNext
<1>3. CASE read # <<>>
  <2>1. SubSeq(text, 1, upto) \o SubSeq(text, upto + 1, end) = SubSeq(text, 1, end)
    BY TextParts
  <2>2. SubSeq(text, 1, upto) = Append(Joined(read), Newline)
    BY <1>3 DEF Placed
  <2>3. Joined(Append(read, SubSeq(text, upto + 1, end)))
          = Append(Joined(read), Newline) \o SubSeq(text, upto + 1, end)
    BY <1>1, <1>3, JoinedNext
  <2>4. QED  BY <2>1, <2>2, <2>3
<1>4. QED  BY <1>2, <1>3

\* After a newline there is the place of the next line.
LEMMA PlacedAfter ==
  ASSUME NEW text \in Seq(LineBytes), NEW read \in Seq(Seq(LineBytes)), NEW end \in Nat,
         end < Len(text), read # <<>>, Joined(read) = SubSeq(text, 1, end),
         text[end + 1] = Newline
  PROVE  Placed(read, text, end + 1)
<1>1. 1 \in 1..Len(text) /\ end + 1 \in 1..Len(text) /\ end + 1 - 1 = end
  BY LenProperties
<1>2. SubSeq(text, 1, end + 1) = SubSeq(text, 1, end) \o <<Newline>>
  BY <1>1, SubSeqRecursiveSecond
<1>3. Append(Joined(read), Newline) = Joined(read) \o <<Newline>>
  <2>1. Joined(read) \in Seq(LineBytes)
    BY EmptySeq, JoinedNext
  <2>2. QED  BY <2>1, AppendIsConcat DEF LineBytes
<1>4. QED  BY <1>2, <1>3 DEF Placed

\* A piece of a text that begins it is a prefix of it.
LEMMA BeginningIsPrefix ==
  ASSUME NEW text \in Seq(LineBytes), NEW upto \in Nat, upto <= Len(text)
  PROVE  IsPrefix(SubSeq(text, 1, upto), text)
<1>1. Len(text) \in Nat /\ Len(text) <= Len(text) /\ SubSeq(text, 1, Len(text)) = text
  BY LenProperties, SubSeqFull
<1>2. /\ SubSeq(text, 1, upto) \in Seq(LineBytes)
      /\ SubSeq(text, upto + 1, Len(text)) \in Seq(LineBytes)
      /\ SubSeq(text, 1, upto) \o SubSeq(text, upto + 1, Len(text)) = SubSeq(text, 1, Len(text))
  BY <1>1, TextParts
<1>3. QED  BY <1>1, <1>2, PrefixOf

LEMMA PlacedIsFirst ==
  ASSUME NEW text \in Seq(LineBytes), NEW read \in Seq(Seq(LineBytes)), NEW upto \in Nat,
         upto <= Len(text), Placed(read, text, upto)
  PROVE  FirstLines(read, text)
BY BeginningIsPrefix DEF Placed, FirstLines

\* So are the lines without their last.
LEMMA FrontIsFirst ==
  ASSUME NEW text \in Seq(LineBytes), NEW read \in Seq(Seq(LineBytes)), NEW upto \in Nat,
         upto <= Len(text), Placed(read, text, upto)
  PROVE  FirstLines(SubSeq(read, 1, Len(read) - 1), text)
<1> DEFINE front == SubSeq(read, 1, Len(read) - 1)
<1>1. Len(read) \in Nat
  BY LenProperties
<1>2. SUFFICES ASSUME front # <<>>
               PROVE  IsPrefix(Append(Joined(front), Newline), text)
  BY DEF FirstLines
<1>3. Len(read) > 1
  <2>1. CASE Len(read) - 1 < 1
    BY <1>1, <1>2, <2>1, SubSeqEmpty
  <2>2. QED  BY <1>1, <2>1
<1>4. Len(read) - 1 \in Nat /\ Len(read) \in 1..Len(read) /\ 1 \in 1..Len(read)
  BY <1>1, <1>3
<1> DEFINE last == read[Len(read)]
<1>5. front \in Seq(Seq(LineBytes)) /\ last \in Seq(LineBytes)
  <2>1. SubSeq(read, 0 + 1, Len(read) - 1) \in Seq(Seq(LineBytes))
    BY <1>1, <1>4, Piece
  <2>2. QED  BY <1>4, <2>1, ElementOfSeq
<1>6. read = Append(front, last)
  <2>1. SubSeq(read, 1, Len(read)) = front \o <<last>>
    BY <1>4, SubSeqRecursiveSecond
  <2>2. Append(front, last) = front \o <<last>>
    BY <1>5, AppendIsConcat
  <2>3. QED  BY <2>1, <2>2, SubSeqFull
<1> HIDE DEF front, last
<1>7. /\ Joined(front) \in Seq(LineBytes)
      /\ Joined(Append(front, last)) = Append(Joined(front), Newline) \o last
  BY <1>2, <1>5, JoinedNext
<1> DEFINE first == Append(Joined(front), Newline)
           rest == SubSeq(text, upto + 1, Len(text))
<1>8. Newline \in LineBytes /\ <<Newline>> \in Seq(LineBytes)
  BY NewlineIsByte
<1>9. first \in Seq(LineBytes) /\ rest \in Seq(LineBytes) /\ Len(text) \in Nat /\ Len(text) <= Len(text)
  <2>1. Len(text) \in Nat /\ Len(text) <= Len(text)
    BY LenProperties
  <2>2. rest \in Seq(LineBytes)
    BY <2>1, Piece
  <2>3. first \in Seq(LineBytes)
    BY <1>7, <1>8, AppendProperties
  <2>4. QED  BY <2>1, <2>2, <2>3
<1>10. SubSeq(text, 1, upto) = (first \o last) \o <<Newline>>
  <2>1. read # <<>>
    BY <1>3
  <2>2. SubSeq(text, 1, upto) = Append(Joined(read), Newline)
    BY <2>1 DEF Placed
  <2>3. Joined(read) = first \o last
    BY <1>6, <1>7
  <2>4. first \o last \in Seq(LineBytes)
    BY <1>5, <1>9, ConcatProperties
  <2>5. Append(first \o last, Newline) = (first \o last) \o <<Newline>>
    BY <1>8, <2>4, AppendIsConcat
  <2>6. QED  BY <2>2, <2>3, <2>5
<1>11. SubSeq(text, 1, upto) \o rest = text
  <2>1. SubSeq(text, 1, upto) \o SubSeq(text, upto + 1, Len(text)) = SubSeq(text, 1, Len(text))
    BY <1>9, TextParts
  <2>2. SubSeq(text, 1, Len(text)) = text
    BY SubSeqFull
  <2>3. QED  BY <2>1, <2>2 DEF rest
<1> HIDE DEF first, rest
<1>12. text = first \o (last \o (<<Newline>> \o rest))
  <2>1. /\ first \o last \in Seq(LineBytes) /\ <<Newline>> \o rest \in Seq(LineBytes)
    BY <1>5, <1>8, <1>9, ConcatProperties
  <2>2. ((first \o last) \o <<Newline>>) \o rest = (first \o last) \o (<<Newline>> \o rest)
    BY <1>8, <1>9, <2>1, ConcatAssociative, SMTT(30)
  <2>3. (first \o last) \o (<<Newline>> \o rest) = first \o (last \o (<<Newline>> \o rest))
    <3> DEFINE end == <<Newline>> \o rest
    <3>1. end \in Seq(LineBytes)
      BY <2>1
    <3> HIDE DEF end
    <3>2. (first \o last) \o end = first \o (last \o end)
      <4>1. first \in Seq(LineBytes) /\ last \in Seq(LineBytes)
        BY <1>5, <1>9
      <4>2. QED  BY <3>1, <4>1, ConcatAssociative, SMTT(30)
    <3>3. QED  BY <3>2 DEF end
  <2>4. QED  BY <1>10, <1>11, <2>2, <2>3
<1>13. last \o (<<Newline>> \o rest) \in Seq(LineBytes)
  BY <1>5, <1>8, <1>9, ConcatProperties
<1>14. IsPrefix(first, first \o (last \o (<<Newline>> \o rest)))
  BY <1>9, <1>13, PrefixOf
<1>15. QED  BY <1>12, <1>14 DEF first

\* A piece of what the buffer holds is a piece of the text.
LEMMA PieceOfBuffer ==
  ASSUME NEW text \in Seq(LineBytes), NEW off \in Nat, NEW taken \in Nat,
         off <= taken, taken <= Len(text),
         NEW from \in Nat, NEW end \in Nat, from <= end, end <= taken - off
  PROVE  SubSeq(SubSeq(text, off + 1, taken), from + 1, end) = SubSeq(text, off + from + 1, off + end)
<1>1. PICK buffer : buffer = SubSeq(text, off + 1, taken)
  OBVIOUS
<1>2. /\ buffer \in Seq(LineBytes) /\ Len(buffer) = taken - off
      /\ \A i \in 1..taken - off : buffer[i] = text[off + i]
  BY <1>1, Piece
<1>3. end <= Len(buffer) /\ from <= Len(buffer)
  BY <1>2
<1>4. PICK piece : piece = SubSeq(buffer, from + 1, end)
  OBVIOUS
<1>5. /\ piece \in Seq(LineBytes) /\ Len(piece) = end - from
      /\ \A i \in 1..end - from : piece[i] = buffer[from + i]
  BY <1>2, <1>3, <1>4, Piece
<1>6. PICK lo \in Nat, hi \in Nat : lo = off + from /\ hi = off + end
  OBVIOUS
<1>7. lo <= hi /\ hi <= Len(text) /\ hi - lo = end - from
  BY <1>6, LenProperties
<1>8. PICK other : other = SubSeq(text, lo + 1, hi)
  OBVIOUS
<1>9. /\ other \in Seq(LineBytes) /\ Len(other) = end - from
      /\ \A i \in 1..end - from : other[i] = text[lo + i]
  BY <1>7, <1>8, Piece
<1>10. \A i \in 1..end - from : piece[i] = other[i]
  <2> TAKE i \in 1..end - from
  <2>1. from + i \in 1..taken - off /\ off + (from + i) = lo + i
    BY <1>6
  <2>2. QED  BY <1>2, <1>5, <1>9, <2>1
<1>11. piece = other
  BY <1>5, <1>9, <1>10, SeqEqual
<1>12. QED  BY <1>1, <1>4, <1>6, <1>8, <1>11

\* There is no NUL in it that is not in the text.
LEMMA PieceHasNoNul ==
  ASSUME NEW text \in Seq(LineBytes), NEW off \in Nat, NEW taken \in Nat,
         off <= taken, taken <= Len(text), Nul \notin Range(text)
  PROVE  Nul \notin Range(SubSeq(text, off + 1, taken))
<1>1. PICK buffer : buffer = SubSeq(text, off + 1, taken)
  OBVIOUS
<1>2. /\ buffer \in Seq(LineBytes) /\ Len(buffer) = taken - off
      /\ \A i \in 1..taken - off : buffer[i] = text[off + i]
  BY <1>1, Piece
<1>3. ASSUME NEW j \in DOMAIN buffer PROVE buffer[j] # Nul
  <2>1. j \in 1..taken - off
    BY <1>2, LenProperties
  <2>2. off + j \in DOMAIN text
    BY <2>1, LenProperties
  <2>3. QED  BY <1>2, <2>1, <2>2 DEF Range
<1>4. QED  BY <1>1, <1>3 DEF Range

\* What strstr finds ends a line of the buffer.
LEMMA FoundEndsLine ==
  ASSUME NEW buffer \in Seq(LineBytes), NEW from \in Nat, NEW end \in Found(buffer, from)
  PROVE  /\ end \in Nat /\ from <= end /\ end < Len(buffer) /\ buffer[end + 1] = Newline
         /\ SubSeq(buffer, from + 1, end) \in Seq(LineBytes)
         /\ Newline \notin Range(SubSeq(buffer, from + 1, end))
<1>1. /\ Len(buffer) \in Nat /\ end \in Nat /\ from <= end /\ end < Len(buffer)
      /\ buffer[end + 1] = Newline
      /\ \A j \in from..end - 1 : buffer[j + 1] \notin {Newline, Nul}
  BY LenProperties DEF Found
<1>2. PICK l : l = SubSeq(buffer, from + 1, end)
  OBVIOUS
<1>3. /\ l \in Seq(LineBytes) /\ Len(l) = end - from
      /\ \A i \in 1..end - from : l[i] = buffer[from + i]
  BY <1>1, <1>2, Piece
<1>4. Newline \notin Range(l)
  <2> SUFFICES ASSUME NEW i \in DOMAIN l PROVE l[i] # Newline
    BY DEF Range
  <2>1. i \in 1..end - from
    BY <1>3, LenProperties
  <2>2. from + i - 1 \in from..end - 1 /\ from + i - 1 + 1 = from + i
    BY <1>1, <2>1
  <2>3. buffer[from + i] # Newline
    BY <1>1, <2>2
  <2>4. QED  BY <1>3, <2>1, <2>3
<1>5. QED  BY <1>1, <1>2, <1>3, <1>4

\* If it finds none there is none, unless a NUL hides it.
LEMMA NothingFound ==
  ASSUME NEW buffer \in Seq(LineBytes), NEW from \in Nat, Found(buffer, from) = {},
         Nul \notin Range(buffer)
  PROVE  \A i \in from..Len(buffer) - 1 : buffer[i + 1] # Newline
<1> DEFINE Newlines == {i \in from..Len(buffer) - 1 : buffer[i + 1] = Newline}
<1>1. Len(buffer) \in Nat /\ DOMAIN buffer = 1..Len(buffer)
  BY LenProperties
<1>2. SUFFICES ASSUME Newlines # {} PROVE FALSE
  OBVIOUS
<1>3. PICK end \in Newlines : \A i \in Newlines : end <= i
  <2>1. Newlines \subseteq Nat
    BY <1>1
  <2> HIDE DEF Newlines
  <2>2. QED  BY <1>2, <2>1, LeastElement
<1>4. end \in from..Len(buffer) - 1 /\ buffer[end + 1] = Newline
  OBVIOUS
<1>5. ASSUME NEW j \in from..end - 1 PROVE buffer[j + 1] \notin {Newline, Nul}
  <2>1. j \in from..Len(buffer) - 1 /\ ~(end <= j) /\ j + 1 \in DOMAIN buffer
    BY <1>1, <1>4
  <2>2. buffer[j + 1] # Newline
    BY <1>3, <2>1
  <2>3. buffer[j + 1] # Nul
    BY <2>1 DEF Range
  <2>4. QED  BY <2>2, <2>3
<1>6. end \in Found(buffer, from)
  BY <1>4, <1>5 DEF Found
<1>7. QED  BY <1>6

-----------------------------------------------------------------------------
\* Where in the text the buffer begins.
LineOffset == lineTaken - Len(lineBuffer)

LineTypeOK ==
  /\ lineText \in LineTexts /\ lineTaken \in Nat /\ lineTaken <= Len(lineText)
  /\ lineBuffer \in Seq(LineBytes) /\ lineMax \in Nat
  /\ linesRead \in Seq(Seq(LineBytes)) /\ line \in Nat \X Nat
  /\ linePc \in {"client", "reading", "ended"} /\ lineErrors \in Nat

\* The buffer holds what was read last.
BufferIsText ==
  Len(lineBuffer) <= lineTaken /\ lineBuffer = SubSeq(lineText, LineOffset + 1, lineTaken)

\* While it is read there is no newline in it, unless a NUL hides it, and the next
\* line begins with it.
ReadingInv ==
  /\ Placed(linesRead, lineText, LineOffset)
  /\ Nul \notin Range(lineText) => Newline \notin Range(lineBuffer)

\* The line that was returned ends at a newline, or with the text.
ClientInv ==
  IF lineBuffer = <<>> THEN lineTaken = 0 /\ linesRead = <<>>
  ELSE /\ linesRead # <<>> /\ line[2] <= Len(lineBuffer)
       /\ Joined(linesRead) = SubSeq(lineText, 1, LineOffset + line[2])
       /\ IF line[2] < Len(lineBuffer) THEN lineBuffer[line[2] + 1] = Newline
          ELSE lineTaken = Len(lineText) /\ Last(linesRead) # <<>>

\* After an error no more is read.
AfterError ==
  /\ linePc # "reading"
  /\ linePc = "client" => lineBuffer # <<>> /\ line[2] = Len(lineBuffer)
  /\ FirstLines(SureLines, lineText)

NoNewlines(read, text) ==
  Nul \notin Range(text) => \A n \in DOMAIN read : Newline \notin Range(read[n])

LineInv ==
  /\ LineTypeOK
  /\ NoNewlines(SureLines, lineText)
  /\ IF lineErrors = 0
     THEN /\ BufferIsText
          /\ linePc = "reading" => ReadingInv
          /\ linePc = "client" => ClientInv
          /\ linePc = "ended" => AllLines(linesRead, lineText)
     ELSE AfterError

\* The invariant says what is promised.
LEMMA LineInvImplies == LineInv => LinesAreText
<1> SUFFICES ASSUME LineInv PROVE LinesAreText
  OBVIOUS
<1>1. lineText \in Seq(LineBytes) /\ Len(lineText) \in Nat
  BY LineAssumption, LenProperties DEF LineInv, LineTypeOK
<1>2. CASE lineErrors # 0
  BY <1>2 DEF LineInv, AfterError, LinesAreText, NoNewlines
<1>3. CASE lineErrors = 0
  <2>1. SureLines = linesRead
    BY <1>3 DEF SureLines
  <2>2. LineOffset \in Nat /\ LineOffset <= Len(lineText) /\ Len(lineBuffer) \in Nat
        /\ LineOffset + Len(lineBuffer) = lineTaken
    BY <1>1, <1>3, LenProperties DEF LineInv, LineTypeOK, BufferIsText, LineOffset
  <2>3. FirstLines(linesRead, lineText)
    <3>1. CASE linePc = "reading"
      <4>1. Placed(linesRead, lineText, LineOffset) /\ linesRead \in Seq(Seq(LineBytes))
        BY <1>3, <3>1 DEF LineInv, LineTypeOK, ReadingInv
      <4>2. QED  BY <1>1, <2>2, <4>1, PlacedIsFirst
    <3>2. CASE linePc = "client"
      <4>1. CASE lineBuffer = <<>>
        BY <1>3, <3>2, <4>1 DEF LineInv, ClientInv, FirstLines
      <4>2. CASE lineBuffer # <<>> /\ line[2] < Len(lineBuffer)
        <5>1. /\ linesRead \in Seq(Seq(LineBytes)) /\ linesRead # <<>> /\ line[2] \in Nat
              /\ Joined(linesRead) = SubSeq(lineText, 1, LineOffset + line[2])
              /\ lineBuffer[line[2] + 1] = Newline
              /\ lineBuffer = SubSeq(lineText, LineOffset + 1, lineTaken)
              /\ lineTaken \in Nat /\ lineTaken <= Len(lineText)
          BY <1>3, <3>2, <4>2 DEF LineInv, LineTypeOK, ClientInv, BufferIsText
        <5>2. PICK upto \in Nat : upto = LineOffset + line[2]
          BY <2>2, <5>1
        <5>3. upto < Len(lineText) /\ upto + 1 \in Nat /\ upto + 1 <= Len(lineText)
          <6>1. PICK i \in Nat : i = line[2]
            BY <5>1
          <6>2. upto < lineTaken
            BY <2>2, <4>2, <5>2, <6>1
          <6>3. lineTaken \in Nat /\ lineTaken <= Len(lineText)
            BY <5>1
          <6>4. QED  BY <1>1, <6>2, <6>3
        <5>4. lineText[upto + 1] = Newline
          <6>1. PICK i \in Nat : i = line[2]
            BY <5>1
          <6>2. lineTaken - LineOffset = Len(lineBuffer) /\ i < Len(lineBuffer)
            <7>1. lineTaken - LineOffset = Len(lineBuffer)
              BY <2>2
            <7>2. QED  BY <4>2, <6>1, <7>1
          <6>3. i + 1 \in 1..Len(lineBuffer) /\ LineOffset + (i + 1) = upto + 1
            <7>1. LineOffset \in Nat /\ Len(lineBuffer) \in Nat /\ i \in Nat
              BY <2>2, <6>1
            <7>2. i + 1 \in 1..Len(lineBuffer)
              BY <6>2, <7>1
            <7>3. upto = LineOffset + i
              BY <5>2, <6>1
            <7>4. QED  BY <7>1, <7>2, <7>3
          <6>4. \A j \in 1..lineTaken - LineOffset :
                  SubSeq(lineText, LineOffset + 1, lineTaken)[j] = lineText[LineOffset + j]
            <7>1. lineText \in Seq(LineBytes)
              BY <1>1
            <7>2. lineTaken \in Nat /\ lineTaken <= Len(lineText)
              BY <5>1
            <7>3. LineOffset \in Nat /\ LineOffset <= lineTaken
              BY <2>2, <7>2
            <7>4. QED  BY <7>1, <7>2, <7>3, Piece
          <6>5. lineBuffer[i + 1] = lineText[LineOffset + (i + 1)]
            BY <5>1, <6>2, <6>3, <6>4
          <6>6. QED  BY <5>1, <6>1, <6>3, <6>5
        <5>5. Placed(linesRead, lineText, upto + 1)
          BY <1>1, <5>1, <5>2, <5>3, <5>4, PlacedAfter
        <5>6. QED  BY <1>1, <5>1, <5>3, <5>5, PlacedIsFirst
      <4>3. CASE lineBuffer # <<>> /\ ~(line[2] < Len(lineBuffer))
        <5>1. /\ line[2] <= Len(lineBuffer) /\ line[2] \in Nat
              /\ Joined(linesRead) = SubSeq(lineText, 1, LineOffset + line[2])
              /\ lineTaken = Len(lineText) /\ Last(linesRead) # <<>>
          BY <1>3, <3>2, <4>3 DEF LineInv, LineTypeOK, ClientInv
        <5>2. LineOffset + line[2] = Len(lineText)
          BY <1>1, <2>2, <4>3, <5>1
        <5>3. Joined(linesRead) = lineText
          BY <1>1, <5>1, <5>2, SubSeqFull
        <5>4. QED  BY <5>1, <5>3 DEF FirstLines
      <4>4. QED  BY <4>1, <4>2, <4>3
    <3>3. CASE linePc = "ended"
      <4>1. AllLines(linesRead, lineText) /\ linesRead \in Seq(Seq(LineBytes))
        BY <1>3, <3>3 DEF LineInv, LineTypeOK
      <4>2. CASE linesRead = <<>>
        BY <4>2 DEF FirstLines
      <4>3. CASE lineText = Append(Joined(linesRead), Newline)
        <5>1. IsPrefix(lineText, lineText)
          BY DEF IsPrefix
        <5>2. QED  BY <4>3, <5>1 DEF FirstLines
      <4>4. CASE lineText = Joined(linesRead) /\ Last(linesRead) # <<>>
        BY <4>4 DEF FirstLines
      <4>5. QED  BY <4>1, <4>2, <4>3, <4>4 DEF AllLines
    <3>4. QED  BY <3>1, <3>2, <3>3 DEF LineInv, LineTypeOK
  <2>4. QED  BY <1>3, <2>1, <2>3 DEF LineInv, LinesAreText, NoNewlines
<1>4. QED  BY <1>2, <1>3

\* One more line has no newline either.
LEMMA NoNewlinesAppend ==
  ASSUME NEW text, NEW read \in Seq(Seq(LineBytes)), NEW next \in Seq(LineBytes),
         NoNewlines(read, text), Nul \notin Range(text) => Newline \notin Range(next)
  PROVE  NoNewlines(Append(read, next), text)
<1> SUFFICES ASSUME Nul \notin Range(text), NEW n \in DOMAIN Append(read, next)
             PROVE  Newline \notin Range(Append(read, next)[n])
  BY DEF NoNewlines
<1>1. /\ Len(read) \in Nat /\ DOMAIN read = 1..Len(read)
      /\ Append(read, next) \in Seq(Seq(LineBytes)) /\ Len(Append(read, next)) = Len(read) + 1
      /\ \A i \in 1..Len(read) : Append(read, next)[i] = read[i]
      /\ Append(read, next)[Len(read) + 1] = next
  BY AppendProperties, LenProperties
<1>2. n \in 1..Len(read) + 1
  BY <1>1, LenProperties
<1>3. CASE n = Len(read) + 1
  BY <1>1, <1>3
<1>4. CASE n # Len(read) + 1
  <2>1. n \in 1..Len(read)
    BY <1>1, <1>2, <1>4
  <2>2. Newline \notin Range(read[n])
    BY <1>1, <2>1 DEF NoNewlines
  <2>3. QED  BY <1>1, <2>1, <2>2
<1>5. QED  BY <1>3, <1>4

\* What every step may rely on.
LEMMA LineFacts ==
  ASSUME LineInv
  PROVE  /\ lineText \in Seq(LineBytes) /\ Len(lineText) \in Nat
         /\ lineTaken \in Nat /\ lineTaken <= Len(lineText)
         /\ lineBuffer \in Seq(LineBytes) /\ Len(lineBuffer) \in Nat
         /\ linesRead \in Seq(Seq(LineBytes)) /\ line[2] \in Nat
BY LineAssumption, LenProperties DEF LineInv, LineTypeOK

LEMMA LineInitHolds == LineInit => LineInv
<1> SUFFICES ASSUME LineInit PROVE LineInv
  OBVIOUS
<1>1. /\ lineText \in LineTexts /\ lineText \in Seq(LineBytes) /\ lineTaken = 0
      /\ lineBuffer = <<>> /\ lineMax = 0 /\ line = <<0, 0>> /\ linesRead = <<>>
      /\ linePc = "client" /\ lineErrors = 0
  BY LineAssumption DEF LineInit
<1>2. Len(lineText) \in Nat /\ Len(lineBuffer) = 0 /\ LineOffset = 0
  <2>1. Len(lineText) \in Nat
    BY <1>1, LenProperties
  <2>2. Len(lineBuffer) = 0
    BY <1>1
  <2>3. LineOffset = 0
    <3>1. lineTaken = 0
      BY <1>1
    <3>2. QED  BY <2>2, <3>1 DEF LineOffset
  <2>4. QED  BY <2>1, <2>2, <2>3
<1>3. LineTypeOK
  <2>1. lineBuffer \in Seq(LineBytes) /\ linesRead \in Seq(Seq(LineBytes))
    BY <1>1, EmptySeq
  <2>2. line \in Nat \X Nat
    BY <1>1
  <2>3. QED  BY <1>1, <1>2, <2>1, <2>2 DEF LineTypeOK
<1>4. SureLines = <<>>
  BY <1>1 DEF SureLines
<1>5. NoNewlines(SureLines, lineText)
  <2>1. DOMAIN <<>> = {}
    OBVIOUS
  <2>2. QED  BY <1>4, <2>1 DEF NoNewlines
<1>6. BufferIsText
  <2>1. SubSeq(lineText, 1, 0) = <<>>
    BY SubSeqEmpty
  <2>2. QED  BY <1>1, <1>2, <2>1 DEF BufferIsText
<1>7. ClientInv
  BY <1>1 DEF ClientInv
<1>8. QED  BY <1>1, <1>3, <1>5, <1>6, <1>7 DEF LineInv

LEMMA CallsOnEmptyKeeps == LineInv /\ CallsOnEmpty => LineInv'
<1> SUFFICES ASSUME LineInv, CallsOnEmpty PROVE LineInv'
  OBVIOUS
<1>1. /\ linePc = "client" /\ lineBuffer = <<>> /\ linePc' = "reading"
      /\ UNCHANGED <<lineText, lineTaken, lineBuffer, lineMax, line, linesRead, lineErrors>>
  BY DEF CallsOnEmpty
<1>2. lineErrors = 0
  BY <1>1 DEF LineInv, AfterError
<1>3. lineTaken = 0 /\ linesRead = <<>>
  BY <1>1, <1>2 DEF LineInv, ClientInv
<1>4. ReadingInv'
  <2>0. Len(lineBuffer) = 0
    BY <1>1
  <2>1. LineOffset' = 0
    <3>1. lineTaken' = 0 /\ Len(lineBuffer') = 0
      BY <1>1, <1>3, <2>0
    <3>2. QED  BY <3>1 DEF LineOffset
  <2>2. Newline \notin Range(lineBuffer')
    BY <1>1 DEF Range
  <2>3. QED  BY <1>1, <1>3, <2>1, <2>2 DEF ReadingInv, Placed
<1>5. LineTypeOK' /\ BufferIsText' /\ NoNewlines(SureLines, lineText)'
  BY <1>1, <1>2 DEF LineInv, LineTypeOK, BufferIsText, LineOffset, NoNewlines, SureLines
<1>6. QED  BY <1>1, <1>2, <1>4, <1>5 DEF LineInv

LEMMA CallsAtEndKeeps == LineInv /\ CallsAtEnd => LineInv'
<1> SUFFICES ASSUME LineInv, CallsAtEnd PROVE LineInv'
  OBVIOUS
<1>1. /\ linePc = "client" /\ lineBuffer # <<>> /\ line[2] + 1 > Len(lineBuffer)
      /\ linePc' = "ended"
      /\ UNCHANGED <<lineText, lineTaken, lineBuffer, lineMax, line, linesRead, lineErrors>>
  BY DEF CallsAtEnd, NextLine, ReturnFalse
<1>2. LineTypeOK' /\ (SureLines' = SureLines)
  BY <1>1 DEF LineInv, LineTypeOK, SureLines
<1>3. NoNewlines(SureLines, lineText)'
  BY <1>1, <1>2 DEF LineInv, NoNewlines
<1>4. CASE lineErrors # 0
  <2>1. AfterError'
    BY <1>1, <1>2, <1>4 DEF LineInv, AfterError
  <2>2. QED  BY <1>1, <1>2, <1>3, <1>4, <2>1 DEF LineInv
<1>5. CASE lineErrors = 0
  <2>1. BufferIsText'
    BY <1>1, <1>5 DEF LineInv, BufferIsText, LineOffset
  <2>2. /\ linesRead # <<>> /\ line[2] <= Len(lineBuffer) /\ Last(linesRead) # <<>>
        /\ Joined(linesRead) = SubSeq(lineText, 1, LineOffset + line[2])
        /\ lineTaken = Len(lineText)
    BY <1>1, <1>5, LineFacts DEF LineInv, ClientInv
  <2>3. line[2] = Len(lineBuffer)
    BY <1>1, <2>2, LineFacts
  <2>4. LineOffset + line[2] = Len(lineText)
    BY <2>2, <2>3, LineFacts DEF LineOffset
  <2>5. Joined(linesRead) = lineText
    BY <2>2, <2>4, LineFacts, SubSeqFull
  <2>6. AllLines(linesRead, lineText)'
    BY <1>1, <2>2, <2>5 DEF AllLines
  <2>7. QED  BY <1>1, <1>2, <1>3, <1>5, <2>1, <2>6 DEF LineInv
<1>6. QED  BY <1>4, <1>5

\* A call that has a line before it goes on after its newline.
LEMMA ClientGoesOn ==
  ASSUME LineInv, linePc = "client", lineBuffer # <<>>, NextLine <= Len(lineBuffer)
  PROVE  /\ lineErrors = 0 /\ NextLine \in Nat
         /\ LineOffset \in Nat /\ LineOffset <= lineTaken
         /\ lineBuffer = SubSeq(lineText, LineOffset + 1, lineTaken)
         /\ Len(lineBuffer) = lineTaken - LineOffset
         /\ LineOffset + NextLine \in Nat
         /\ Placed(linesRead, lineText, LineOffset + NextLine)
<1>1. PICK i \in Nat : i = line[2]
  BY LineFacts
<1>2. NextLine = i + 1 /\ i < Len(lineBuffer) /\ Len(lineBuffer) \in Nat
  BY <1>1, LineFacts DEF NextLine
<1>3. lineErrors = 0
  BY <1>1, <1>2 DEF LineInv, AfterError
<1>4. /\ Len(lineBuffer) <= lineTaken
      /\ lineBuffer = SubSeq(lineText, LineOffset + 1, lineTaken)
  BY <1>3 DEF LineInv, BufferIsText
<1>5. LineOffset \in Nat /\ LineOffset <= lineTaken /\ Len(lineBuffer) = lineTaken - LineOffset
  BY <1>2, <1>4, LineFacts DEF LineOffset
<1>6. /\ linesRead # <<>> /\ Joined(linesRead) = SubSeq(lineText, 1, LineOffset + i)
      /\ lineBuffer[i + 1] = Newline
  BY <1>1, <1>2, <1>3 DEF LineInv, ClientInv
<1>7. PICK upto \in Nat : upto = LineOffset + i
  BY <1>5
<1>8. upto < lineTaken /\ lineTaken \in Nat /\ lineTaken <= Len(lineText) /\ Len(lineText) \in Nat
      /\ upto < Len(lineText)
  BY <1>2, <1>5, <1>7, LineFacts
<1>9. lineText[upto + 1] = Newline
  <2>1. i + 1 \in 1..lineTaken - LineOffset /\ LineOffset + (i + 1) = upto + 1
    BY <1>2, <1>5, <1>7
  <2>2. \A j \in 1..lineTaken - LineOffset :
          SubSeq(lineText, LineOffset + 1, lineTaken)[j] = lineText[LineOffset + j]
    BY <1>5, <1>8, LineFacts, Piece
  <2>3. lineBuffer[i + 1] = lineText[LineOffset + (i + 1)]
    BY <1>4, <2>1, <2>2
  <2>4. QED  BY <1>6, <2>1, <2>3
<1>10. Placed(linesRead, lineText, upto + 1)
  BY <1>6, <1>7, <1>8, <1>9, LineFacts, PlacedAfter
<1>11. LineOffset + NextLine = upto + 1 /\ NextLine \in Nat
  BY <1>2, <1>5, <1>7
<1>12. Placed(linesRead, lineText, LineOffset + NextLine) /\ LineOffset + NextLine \in Nat
  BY <1>10, <1>11
<1>13. QED  BY <1>3, <1>4, <1>5, <1>11, <1>12

\* A line that is found in the buffer is returned.
LEMMA ReturnKeeps ==
  ASSUME LineInv, lineErrors = 0, lineErrors' = 0, lineText' = lineText,
         lineTaken' \in Nat, lineTaken' <= Len(lineText), lineMax' \in Nat,
         LineOffset' = LineOffset, LineOffset \in Nat, LineOffset <= lineTaken',
         lineBuffer' = SubSeq(lineText, LineOffset + 1, lineTaken'),
         NEW from \in Nat, Placed(linesRead, lineText, LineOffset + from),
         NEW end, end \in Found(lineBuffer', from), Return(from, end, lineBuffer')
  PROVE  LineInv'
<1>1. PICK buffer, grown :
        buffer = lineBuffer' /\ grown = Append(linesRead, SubSeq(buffer, from + 1, end))
  OBVIOUS
<1>2. PICK off \in Nat, taken \in Nat : off = LineOffset /\ taken = lineTaken'
  OBVIOUS
<1>3. /\ line' = <<from, end>> /\ linesRead' = grown /\ linePc' = "client"
  BY <1>1 DEF Return
<1>4. /\ buffer = SubSeq(lineText, off + 1, taken) /\ off <= taken /\ taken <= Len(lineText)
      /\ Placed(linesRead, lineText, off + from) /\ end \in Found(buffer, from)
  BY <1>1, <1>2
<1>5. buffer \in Seq(LineBytes) /\ Len(buffer) = taken - off /\ Len(buffer) \in Nat
  BY <1>4, LineFacts, Piece, LenProperties
<1>6. NoNewlines(linesRead, lineText)
  BY DEF LineInv, SureLines
<1>7. /\ grown \in Seq(Seq(LineBytes)) /\ grown # <<>>
      /\ Joined(grown) = SubSeq(lineText, 1, off + end)
      /\ NoNewlines(grown, lineText)
      /\ end \in Nat /\ end < Len(buffer) /\ buffer[end + 1] = Newline
  <2>1. /\ end \in Nat /\ from <= end /\ end < Len(buffer) /\ buffer[end + 1] = Newline
        /\ SubSeq(buffer, from + 1, end) \in Seq(LineBytes)
        /\ Newline \notin Range(SubSeq(buffer, from + 1, end))
    BY <1>4, <1>5, FoundEndsLine
  <2>2. PICK next \in Seq(LineBytes) : next = SubSeq(buffer, from + 1, end)
    BY <2>1
  <2>3. end <= taken - off
    BY <1>5, <2>1
  <2>4. next = SubSeq(lineText, off + from + 1, off + end)
    BY <1>4, <2>1, <2>2, <2>3, LineFacts, PieceOfBuffer
  <2>5. PICK upto \in Nat, last \in Nat : upto = off + from /\ last = off + end
    BY <2>1
  <2>6. upto <= last /\ last <= Len(lineText)
    BY <1>4, <2>1, <2>3, <2>5, LineFacts
  <2>7. Joined(Append(linesRead, SubSeq(lineText, upto + 1, last))) = SubSeq(lineText, 1, last)
    <3>1. PICK text \in Seq(LineBytes), read \in Seq(Seq(LineBytes)) :
            text = lineText /\ read = linesRead
      BY LineFacts
    <3>2. Placed(read, text, upto)
      BY <1>4, <2>5, <3>1
    <3>3. upto <= last /\ last <= Len(text)
      BY <2>6, <3>1
    <3>4. Joined(Append(read, SubSeq(text, upto + 1, last))) = SubSeq(text, 1, last)
      BY <3>2, <3>3, LineAfter
    <3>5. QED  BY <3>1, <3>4
  <2>8. /\ Append(linesRead, next) \in Seq(Seq(LineBytes))
        /\ Len(Append(linesRead, next)) = Len(linesRead) + 1 /\ Len(linesRead) \in Nat
    BY LineFacts, AppendProperties, LenProperties
  <2>9. NoNewlines(Append(linesRead, next), lineText)
    BY <1>6, <2>1, <2>2, LineFacts, NoNewlinesAppend
  <2>10. grown = Append(linesRead, next)
    BY <1>1, <2>2
  <2>11. grown # <<>>
    <3>1. Len(grown) = Len(linesRead) + 1 /\ Len(linesRead) \in Nat
      BY <2>8, <2>10
    <3>2. QED  BY <3>1
  <2>12. Joined(grown) = SubSeq(lineText, 1, off + end)
    BY <2>4, <2>5, <2>7, <2>10
  <2>13. QED  BY <2>1, <2>8, <2>9, <2>10, <2>11, <2>12
<1>8. LineTypeOK'
  <2>1. line' \in Nat \X Nat /\ line'[2] = end
    BY <1>3, <1>7
  <2>2. linesRead' \in Seq(Seq(LineBytes)) /\ lineBuffer' \in Seq(LineBytes)
    BY <1>1, <1>3, <1>5, <1>7
  <2>3. QED  BY <1>3, <2>1, <2>2 DEF LineInv, LineTypeOK
<1>9. NoNewlines(SureLines, lineText)'
  BY <1>3, <1>7 DEF SureLines, NoNewlines
<1>10. BufferIsText'
  <2>1. Len(lineBuffer') <= lineTaken'
    <3>1. Len(buffer) <= taken
      BY <1>5
    <3>2. QED  BY <1>1, <1>2, <3>1
  <2>2. QED  BY <2>1 DEF BufferIsText
<1>11. ClientInv'
  <2>1. line'[2] = end /\ lineBuffer' # <<>> /\ linesRead' # <<>> /\ line'[2] < Len(lineBuffer')
    <3>1. line'[2] = end
      BY <1>3
    <3>2. buffer # <<>> /\ end <= Len(buffer)
      <4>1. end \in Nat /\ end < Len(buffer) /\ Len(buffer) \in Nat
        BY <1>5, <1>7
      <4>2. QED  BY <4>1
    <3>3. QED  BY <1>1, <1>3, <1>7, <3>1, <3>2
  <2>2. line'[2] <= Len(lineBuffer')
    <3>1. end \in Nat /\ end < Len(buffer) /\ Len(buffer) \in Nat
      BY <1>5, <1>7
    <3>2. end <= Len(buffer)
      BY <3>1
    <3>3. QED  BY <1>1, <2>1, <3>2
  <2>3. Joined(linesRead') = SubSeq(lineText', 1, LineOffset' + line'[2])
    BY <1>2, <1>3, <1>7, <2>1
  <2>4. lineBuffer'[line'[2] + 1] = Newline
    BY <1>1, <1>7, <2>1
  <2>5. QED  BY <2>1, <2>2, <2>3, <2>4 DEF ClientInv
<1>12. QED  BY <1>3, <1>8, <1>9, <1>10, <1>11 DEF LineInv

LEMMA CallFindsKeeps == LineInv /\ CallFinds => LineInv'
<1> SUFFICES ASSUME LineInv, CallFinds PROVE LineInv'
  OBVIOUS
<1>1. /\ linePc = "client" /\ lineBuffer # <<>> /\ NextLine <= Len(lineBuffer)
      /\ UNCHANGED <<lineText, lineTaken, lineBuffer, lineMax, lineErrors>>
  BY DEF CallFinds
<1>2. PICK end \in Found(lineBuffer, NextLine) : Return(NextLine, end, lineBuffer)
  BY DEF CallFinds
<1>3. /\ lineErrors = 0 /\ NextLine \in Nat
      /\ LineOffset \in Nat /\ LineOffset <= lineTaken
      /\ lineBuffer = SubSeq(lineText, LineOffset + 1, lineTaken)
      /\ Placed(linesRead, lineText, LineOffset + NextLine)
  BY <1>1, ClientGoesOn
<1>4. LineOffset' = LineOffset
  BY <1>1 DEF LineOffset
<1>5. lineMax' \in Nat /\ lineTaken' \in Nat /\ lineTaken' <= Len(lineText)
  BY <1>1, LineFacts DEF LineInv, LineTypeOK
<1>6. PICK from \in Nat : from = NextLine
  BY <1>3
<1>7. end \in Found(lineBuffer', from) /\ Return(from, end, lineBuffer')
  BY <1>1, <1>2, <1>6 DEF Return
<1>8. QED  BY <1>1, <1>3, <1>4, <1>5, <1>6, <1>7, ReturnKeeps

LEMMA CallShiftsKeeps == LineInv /\ CallShifts => LineInv'
<1> SUFFICES ASSUME LineInv, CallShifts PROVE LineInv'
  OBVIOUS
<1>1. /\ linePc = "client" /\ lineBuffer # <<>> /\ NextLine <= Len(lineBuffer)
      /\ Found(lineBuffer, NextLine) = {}
      /\ lineBuffer' = SubSeq(lineBuffer, NextLine + 1, Len(lineBuffer))
      /\ linePc' = "reading"
      /\ UNCHANGED <<lineText, lineTaken, lineMax, line, linesRead, lineErrors>>
  BY DEF CallShifts
<1>2. /\ lineErrors = 0 /\ NextLine \in Nat
      /\ LineOffset \in Nat /\ LineOffset <= lineTaken
      /\ lineBuffer = SubSeq(lineText, LineOffset + 1, lineTaken)
      /\ Len(lineBuffer) = lineTaken - LineOffset
      /\ LineOffset + NextLine \in Nat
      /\ Placed(linesRead, lineText, LineOffset + NextLine)
  BY <1>1, ClientGoesOn
<1>3. PICK off \in Nat, from \in Nat : off = LineOffset /\ from = NextLine
  BY <1>2
<1>4. PICK size \in Nat : size = Len(lineBuffer)
  BY LineFacts
<1>5. /\ from <= size /\ size = lineTaken - off /\ lineTaken \in Nat /\ lineTaken <= Len(lineText)
      /\ off + size = lineTaken
  BY <1>1, <1>2, <1>3, <1>4, LineFacts
<1>6. /\ lineBuffer' = SubSeq(lineBuffer, from + 1, size)
      /\ lineBuffer' \in Seq(LineBytes) /\ Len(lineBuffer') = size - from
      /\ \A i \in 1..size - from : lineBuffer'[i] = lineBuffer[from + i]
  <2>1. lineBuffer \in Seq(LineBytes) /\ size <= Len(lineBuffer)
    BY <1>4, LineFacts
  <2>2. /\ SubSeq(lineBuffer, from + 1, size) \in Seq(LineBytes)
        /\ Len(SubSeq(lineBuffer, from + 1, size)) = IF from <= size THEN size - from ELSE 0
        /\ \A i \in 1..size - from : SubSeq(lineBuffer, from + 1, size)[i] = lineBuffer[from + i]
    BY <2>1, Piece
  <2>3. lineBuffer' = SubSeq(lineBuffer, from + 1, size)
    BY <1>1, <1>3, <1>4
  <2>4. QED  BY <1>5, <2>2, <2>3
<1>7. LineOffset' = off + from
  BY <1>1, <1>5, <1>6 DEF LineOffset
<1>8. BufferIsText'
  <2>1. SubSeq(SubSeq(lineText, off + 1, lineTaken), from + 1, size)
          = SubSeq(lineText, off + from + 1, off + size)
    BY <1>2, <1>3, <1>5, LineFacts, PieceOfBuffer
  <2>2. lineBuffer' = SubSeq(lineText, off + from + 1, lineTaken)
    BY <1>2, <1>3, <1>5, <1>6, <2>1
  <2>3. Len(lineBuffer') <= lineTaken
    BY <1>5, <1>6
  <2>4. QED  BY <1>1, <1>7, <2>2, <2>3 DEF BufferIsText
<1>9. ReadingInv'
  <2>1. Placed(linesRead', lineText', LineOffset')
    BY <1>1, <1>2, <1>3, <1>7
  <2>2. ASSUME Nul \notin Range(lineText') PROVE Newline \notin Range(lineBuffer')
    <3>1. Nul \notin Range(lineBuffer)
      BY <1>1, <1>2, <1>5, <2>2, LineFacts, PieceHasNoNul
    <3>2. \A i \in from..size - 1 : lineBuffer[i + 1] # Newline
      BY <1>1, <1>3, <1>4, <3>1, LineFacts, NothingFound
    <3>3. ASSUME NEW j \in DOMAIN lineBuffer' PROVE lineBuffer'[j] # Newline
      <4>1. j \in 1..size - from
        BY <1>5, <1>6, LenProperties
      <4>2. from + j - 1 \in from..size - 1 /\ from + j - 1 + 1 = from + j
        BY <1>5, <4>1
      <4>3. lineBuffer[from + j] # Newline
        BY <3>2, <4>2
      <4>4. QED  BY <1>6, <4>1, <4>3
    <3>4. QED  BY <3>3 DEF Range
  <2>3. QED  BY <2>1, <2>2 DEF ReadingInv
<1>10. LineTypeOK' /\ NoNewlines(SureLines, lineText)'
  BY <1>1, <1>2, <1>6 DEF LineInv, LineTypeOK, NoNewlines, SureLines
<1>11. QED  BY <1>1, <1>2, <1>8, <1>9, <1>10 DEF LineInv

\* What a read may rely on, and the sizes it works with.
LEMMA ReadGoesOn ==
  ASSUME LineInv, linePc = "reading"
  PROVE  /\ lineErrors = 0 /\ LineOffset \in Nat /\ LineOffset <= lineTaken
         /\ lineBuffer = SubSeq(lineText, LineOffset + 1, lineTaken)
         /\ Len(lineBuffer) = lineTaken - LineOffset
         /\ Placed(linesRead, lineText, LineOffset)
         /\ Nul \notin Range(lineText) => Newline \notin Range(lineBuffer)
         /\ NoNewlines(linesRead, lineText)
<1>1. lineErrors = 0
  BY DEF LineInv, AfterError
<1>2. Len(lineBuffer) <= lineTaken /\ lineBuffer = SubSeq(lineText, LineOffset + 1, lineTaken)
  BY <1>1 DEF LineInv, BufferIsText
<1>3. LineOffset \in Nat /\ LineOffset <= lineTaken /\ Len(lineBuffer) = lineTaken - LineOffset
  BY <1>2, LineFacts DEF LineOffset
<1>4. /\ Placed(linesRead, lineText, LineOffset)
      /\ Nul \notin Range(lineText) => Newline \notin Range(lineBuffer)
  BY <1>1 DEF LineInv, ReadingInv
<1>5. NoNewlines(linesRead, lineText)
  BY <1>1 DEF LineInv, SureLines
<1>6. QED  BY <1>1, <1>2, <1>3, <1>4, <1>5

LEMMA SizesAreNumbers ==
  ASSUME LineInv
  PROVE  ReadSize \in Nat \ {0} /\ SizeAfter \in Nat
<1>1. PICK size \in Nat, max \in Nat : size = Len(lineBuffer) /\ max = lineMax
  BY LineFacts DEF LineInv, LineTypeOK
<1>2. lineBuffer # <<>> => size # 0
  <2>1. lineBuffer \in Seq(LineBytes)
    BY LineFacts
  <2>2. QED  BY <1>1, <2>1
<1>3. ReadSize \in Nat \ {0}
  <2>1. CASE HasSpace
    <3>1. max > 0 /\ size < max - 1 /\ ReadSize = max - 1 - size
      BY <1>1, <2>1 DEF HasSpace, ReadSize
    <3>2. QED  BY <3>1
  <2>2. CASE ~HasSpace
    BY <1>1, <1>2, <2>2, LineAssumption DEF ReadSize
  <2>3. QED  BY <2>1, <2>2
<1>4. SizeWanted \in Nat
  BY <1>1, <1>3 DEF SizeWanted
<1>5. \A a, b \in Nat : a * b \in Nat
  OBVIOUS
<1>6. LineGrowth * SizeWanted \in Nat
  BY <1>4, <1>5, LineAssumption
<1>7. SizeAfter \in Nat
  BY <1>1, <1>6 DEF SizeAfter
<1>8. QED  BY <1>3, <1>7

LEMMA ReadsOnKeeps == LineInv /\ ReadsOn => LineInv'
<1> SUFFICES ASSUME LineInv, ReadsOn PROVE LineInv'
  OBVIOUS
<1>1. linePc = "reading" /\ lineMax' = SizeAfter /\ lineText' = lineText /\ lineErrors' = lineErrors
  BY DEF ReadsOn
<1>2. PICK n \in 1..ReadSize :
        /\ lineTaken + n <= Len(lineText) /\ lineTaken' = lineTaken + n
        /\ lineBuffer' = lineBuffer \o SubSeq(lineText, lineTaken + 1, lineTaken + n)
  BY DEF ReadsOn
<1>3. /\ lineErrors = 0 /\ LineOffset \in Nat /\ LineOffset <= lineTaken
      /\ lineBuffer = SubSeq(lineText, LineOffset + 1, lineTaken)
      /\ Placed(linesRead, lineText, LineOffset) /\ NoNewlines(linesRead, lineText)
  BY <1>1, ReadGoesOn
<1>4. PICK off \in Nat : off = LineOffset
  BY <1>3
<1>5. PICK taken \in Nat : taken = lineTaken + n
  BY <1>2, LineFacts, SizesAreNumbers
<1>6. lineTaken \in Nat /\ off <= lineTaken /\ lineTaken <= taken /\ taken <= Len(lineText)
      /\ off <= taken /\ lineTaken' = taken
  <2>1. n \in Nat
    BY <1>2, SizesAreNumbers
  <2>2. lineTaken \in Nat /\ lineTaken <= taken
    BY <1>5, <2>1, LineFacts
  <2>3. QED  BY <1>2, <1>3, <1>4, <1>5, <2>2
<1>7. lineBuffer' = SubSeq(lineText, off + 1, taken)
  <2>1. SubSeq(lineText, off + 1, lineTaken) \o SubSeq(lineText, lineTaken + 1, taken)
          = SubSeq(lineText, off + 1, taken)
    BY <1>6, LineFacts, Adjacent
  <2>2. QED  BY <1>2, <1>3, <1>4, <1>5, <2>1
<1>8. PICK buffer : buffer = lineBuffer'
  OBVIOUS
<1>9. buffer \in Seq(LineBytes) /\ Len(buffer) = taken - off
  BY <1>6, <1>7, <1>8, LineFacts, Piece
<1>10. LineOffset' = off
  BY <1>6, <1>8, <1>9 DEF LineOffset
<1>11. lineMax' \in Nat
  BY <1>1, SizesAreNumbers
<1>12. CASE Found(lineBuffer', 0) # {}
  <2>1. PICK end : end \in Found(lineBuffer', 0) /\ Return(0, end, lineBuffer')
    BY <1>12 DEF ReadsOn
  <2>2. lineErrors = 0 /\ lineErrors' = 0 /\ lineText' = lineText
    BY <1>1, <1>3
  <2>3. lineTaken' \in Nat /\ lineTaken' <= Len(lineText) /\ LineOffset <= lineTaken'
    BY <1>4, <1>6
  <2>4. /\ LineOffset' = LineOffset
        /\ lineBuffer' = SubSeq(lineText, LineOffset + 1, lineTaken')
    BY <1>4, <1>6, <1>7, <1>10
  <2>5. PICK from \in Nat : from = 0
    OBVIOUS
  <2>6. Placed(linesRead, lineText, LineOffset + from)
    <3>1. LineOffset + from = LineOffset
      BY <1>3, <2>5
    <3>2. QED  BY <1>3, <3>1
  <2>7. end \in Found(lineBuffer', from) /\ Return(from, end, lineBuffer')
    BY <2>1, <2>5
  <2>8. QED  BY <1>3, <1>11, <2>2, <2>3, <2>4, <2>6, <2>7, ReturnKeeps
<1>13. CASE Found(lineBuffer', 0) = {}
  <2>1. line' = line /\ linesRead' = linesRead /\ linePc' = "reading"
    BY <1>1, <1>13 DEF ReadsOn
  <2>2. LineTypeOK'
    BY <1>1, <1>6, <1>8, <1>9, <1>11, <2>1 DEF LineInv, LineTypeOK
  <2>3. NoNewlines(SureLines, lineText)'
    BY <1>1, <1>3, <2>1 DEF NoNewlines, SureLines
  <2>4. BufferIsText'
    <3>1. Len(buffer) <= taken
      BY <1>9
    <3>2. QED  BY <1>1, <1>6, <1>7, <1>8, <1>10, <3>1 DEF BufferIsText
  <2>5. ReadingInv'
    <3>1. Placed(linesRead', lineText', LineOffset')
      BY <1>1, <1>3, <1>4, <1>10, <2>1
    <3>2. ASSUME Nul \notin Range(lineText) PROVE Newline \notin Range(buffer)
      <4>1. Nul \notin Range(buffer)
        BY <1>6, <1>7, <1>8, <3>2, LineFacts, PieceHasNoNul
      <4>2. \A i \in 0..Len(buffer) - 1 : buffer[i + 1] # Newline
        BY <1>8, <1>9, <1>13, <4>1, NothingFound
      <4>3. ASSUME NEW j \in DOMAIN buffer PROVE buffer[j] # Newline
        <5>1. j - 1 \in 0..Len(buffer) - 1 /\ j - 1 + 1 = j
          BY <1>9, LenProperties
        <5>2. QED  BY <4>2, <5>1
      <4>4. QED  BY <4>3 DEF Range
    <3>3. QED  BY <1>1, <1>8, <3>1, <3>2 DEF ReadingInv
  <2>6. QED  BY <1>1, <1>3, <2>1, <2>2, <2>3, <2>4, <2>5 DEF LineInv
<1>14. QED  BY <1>12, <1>13

LEMMA ReadEndsKeeps == LineInv /\ ReadEnds => LineInv'
<1> SUFFICES ASSUME LineInv, ReadEnds PROVE LineInv'
  OBVIOUS
<1>1. /\ linePc = "reading" /\ lineTaken = Len(lineText) /\ lineMax' = SizeAfter
      /\ Remainder(lineBuffer)
      /\ UNCHANGED <<lineText, lineTaken, lineBuffer, lineErrors>>
  BY DEF ReadEnds
<1>2. /\ lineErrors = 0 /\ LineOffset \in Nat /\ LineOffset <= lineTaken
      /\ lineBuffer = SubSeq(lineText, LineOffset + 1, lineTaken)
      /\ Len(lineBuffer) = lineTaken - LineOffset
      /\ Placed(linesRead, lineText, LineOffset)
      /\ Nul \notin Range(lineText) => Newline \notin Range(lineBuffer)
      /\ NoNewlines(linesRead, lineText)
  BY <1>1, ReadGoesOn
<1>3. lineMax' \in Nat
  BY <1>1, SizesAreNumbers
<1>4. BufferIsText' /\ LineOffset' = LineOffset
  BY <1>1, <1>2 DEF LineInv, BufferIsText, LineOffset
<1>5. CASE lineBuffer = <<>>
  <2>1. linePc' = "ended" /\ line' = line /\ linesRead' = linesRead
    BY <1>1, <1>5 DEF Remainder, ReturnFalse
  <2>2. LineOffset = Len(lineText)
    <3>1. Len(lineBuffer) = 0
      BY <1>5
    <3>2. QED  BY <1>1, <1>2, <3>1, LineFacts
  <2>3. AllLines(linesRead, lineText)
    <3>1. CASE linesRead = <<>>
      <4>1. Len(lineText) = 0
        BY <1>2, <2>2, <3>1 DEF Placed
      <4>2. lineText = <<>>
        BY <4>1, LineFacts
      <4>3. QED  BY <3>1, <4>2 DEF AllLines
    <3>2. CASE linesRead # <<>>
      <4>1. SubSeq(lineText, 1, Len(lineText)) = Append(Joined(linesRead), Newline)
        BY <1>2, <2>2, <3>2 DEF Placed
      <4>2. QED  BY <3>2, <4>1, LineFacts, SubSeqFull DEF AllLines
    <3>3. QED  BY <3>1, <3>2
  <2>4. LineTypeOK'
    BY <1>1, <1>3, <2>1 DEF LineInv, LineTypeOK
  <2>5. NoNewlines(SureLines, lineText)' /\ AllLines(linesRead, lineText)'
    BY <1>1, <1>2, <2>1, <2>3 DEF NoNewlines, SureLines, AllLines
  <2>6. QED  BY <1>1, <1>2, <1>4, <2>1, <2>4, <2>5 DEF LineInv
<1>6. CASE lineBuffer # <<>>
  <2>1. PICK off \in Nat, size \in Nat : off = LineOffset /\ size = Len(lineBuffer)
    BY <1>2, LineFacts
  <2>2. off + size = Len(lineText) /\ off <= Len(lineText) /\ size # 0 /\ Len(lineText) \in Nat
    <3>1. size # 0
      BY <1>6, <2>1, LineFacts
    <3>2. QED  BY <1>1, <1>2, <2>1, <3>1, LineFacts
  <2>3. /\ line' = <<0, size>> /\ linePc' = "client"
        /\ linesRead' = Append(linesRead, SubSeq(lineBuffer, 1, size))
    BY <1>1, <1>6, <2>1 DEF Remainder, Return
  <2>4. SubSeq(lineBuffer, 1, size) = lineBuffer
    BY <2>1, LineFacts, SubSeqFull
  <2>5. PICK grown : grown = Append(linesRead, lineBuffer)
    OBVIOUS
  <2>6. linesRead' = grown
    BY <2>3, <2>4, <2>5
  <2>7. Joined(grown) = lineText
    <3>1. Joined(Append(linesRead, SubSeq(lineText, off + 1, Len(lineText))))
            = SubSeq(lineText, 1, Len(lineText))
      <4>1. Placed(linesRead, lineText, off) /\ Len(lineText) <= Len(lineText)
        BY <1>2, <2>1, <2>2
      <4>2. QED  BY <2>2, <4>1, LineFacts, LineAfter
    <3>2. lineBuffer = SubSeq(lineText, off + 1, Len(lineText))
      BY <1>1, <1>2, <2>1
    <3>3. QED  BY <2>5, <3>1, <3>2, LineFacts, SubSeqFull
  <2>8. /\ grown \in Seq(Seq(LineBytes)) /\ Len(grown) = Len(linesRead) + 1
        /\ Len(linesRead) \in Nat /\ grown[Len(linesRead) + 1] = lineBuffer
    BY <2>5, LineFacts, AppendProperties, LenProperties
  <2>9. grown # <<>> /\ Last(grown) # <<>>
    BY <1>6, <2>8 DEF Last
  <2>10. NoNewlines(grown, lineText)
    BY <1>2, <2>5, LineFacts, NoNewlinesAppend
  <2>11. line' \in Nat \X Nat /\ line'[2] = size
    BY <2>3
  <2>12. LineTypeOK'
    BY <1>1, <1>3, <2>3, <2>6, <2>8, <2>11 DEF LineInv, LineTypeOK
  <2>13. NoNewlines(SureLines, lineText)'
    BY <1>1, <1>2, <2>6, <2>10 DEF NoNewlines, SureLines
  <2>14. ClientInv'
    <3>1. LineOffset' + line'[2] = Len(lineText)
      BY <1>4, <2>1, <2>2, <2>11
    <3>2. SubSeq(lineText, 1, Len(lineText)) = lineText
      BY LineFacts, SubSeqFull
    <3>3. Joined(linesRead') = SubSeq(lineText', 1, LineOffset' + line'[2])
      BY <1>1, <2>6, <2>7, <3>1, <3>2
    <3>4. line'[2] <= Len(lineBuffer') /\ ~(line'[2] < Len(lineBuffer'))
      BY <1>1, <2>1, <2>11
    <3>5. linesRead' # <<>> /\ lineBuffer' # <<>> /\ Last(linesRead') # <<>>
          /\ lineTaken' = Len(lineText')
      BY <1>1, <1>6, <2>6, <2>9
    <3>6. QED  BY <3>3, <3>4, <3>5 DEF ClientInv
  <2>15. QED  BY <1>1, <1>2, <1>4, <2>3, <2>12, <2>13, <2>14 DEF LineInv
<1>7. QED  BY <1>5, <1>6

LEMMA ReadBreaksKeeps == LineInv /\ ReadBreaks => LineInv'
<1> SUFFICES ASSUME LineInv, ReadBreaks PROVE LineInv'
  OBVIOUS
<1>1. /\ linePc = "reading" /\ lineErrors' = lineErrors + 1
      /\ lineText' = lineText /\ lineTaken' = lineTaken
      /\ Remainder(lineBuffer')
  BY DEF ReadBreaks
<1>2. /\ lineErrors = 0 /\ LineOffset \in Nat /\ LineOffset <= lineTaken
      /\ Placed(linesRead, lineText, LineOffset) /\ NoNewlines(linesRead, lineText)
  BY <1>1, ReadGoesOn
<1>3. lineErrors' = 1
  BY <1>1, <1>2
<1>4. lineBuffer' \in Seq(LineBytes) /\ lineMax' \in Nat
  <2>1. lineBuffer \o [i \in 1..ReadSize + 1 |-> Unset] \in Seq(LineBytes)
    <3>1. PICK k \in Nat : k = ReadSize + 1
      BY SizesAreNumbers
    <3>2. Unset \in LineBytes
      BY DEF LineBytes
    <3>3. [i \in 1..k |-> Unset] \in Seq(LineBytes)
      BY <3>2
    <3>4. QED  BY <3>1, <3>3, LineFacts, ConcatProperties
  <2>2. lineBuffer \in Seq(LineBytes) /\ lineMax \in Nat /\ SizeAfter \in Nat
    BY LineFacts, SizesAreNumbers DEF LineInv, LineTypeOK
  <2>3. QED  BY <2>1, <2>2 DEF ReadBreaks
<1>5. FirstLines(linesRead, lineText)
      /\ FirstLines(SubSeq(linesRead, 1, Len(linesRead) - 1), lineText)
  <2>1. LineOffset <= Len(lineText)
    BY <1>2, LineFacts
  <2>2. FirstLines(linesRead, lineText)
    BY <1>2, <2>1, LineFacts, PlacedIsFirst
  <2>3. FirstLines(SubSeq(linesRead, 1, Len(linesRead) - 1), lineText)
    BY <1>2, <2>1, LineFacts, FrontIsFirst
  <2>4. QED  BY <2>2, <2>3
<1>6. PICK k \in Nat : k = Len(linesRead)
  BY LineFacts, LenProperties
<1>7. CASE lineBuffer' = <<>>
  <2>1. linePc' = "ended" /\ line' = line /\ linesRead' = linesRead
    BY <1>1, <1>7 DEF Remainder, ReturnFalse
  <2>2. SureLines' = SubSeq(linesRead, 1, Len(linesRead) - 1)
    BY <1>3, <2>1 DEF SureLines
  <2>3. PICK front : front = SubSeq(linesRead, 1, k - 1)
    OBVIOUS
  <2>4. NoNewlines(front, lineText)
    <3>1. CASE k = 0
      <4>1. front = <<>>
        BY <2>3, <3>1, SubSeqEmpty
      <4>2. DOMAIN <<>> = {}
        OBVIOUS
      <4>3. QED  BY <4>1, <4>2 DEF NoNewlines
    <3>2. CASE k # 0
      <4>1. PICK m \in Nat : m = k - 1
        BY <3>2
      <4>2. m <= Len(linesRead) /\ 0 <= m /\ 0 + 1 = 1 /\ m - 0 = m
        BY <1>6, <4>1
      <4>3. /\ SubSeq(linesRead, 0 + 1, m) \in Seq(Seq(LineBytes))
            /\ Len(SubSeq(linesRead, 0 + 1, m)) = m - 0
            /\ \A i \in 1..m - 0 : SubSeq(linesRead, 0 + 1, m)[i] = linesRead[0 + i]
        BY <4>2, LineFacts, Piece
      <4>4. /\ front \in Seq(Seq(LineBytes)) /\ Len(front) = m
            /\ \A i \in 1..m : front[i] = linesRead[i]
        BY <2>3, <4>1, <4>2, <4>3
      <4>5. \A i \in DOMAIN front : i \in 1..m /\ i \in DOMAIN linesRead
        BY <1>6, <4>1, <4>4, LineFacts, LenProperties, SMTT(30)
      <4>6. QED  BY <1>2, <4>4, <4>5 DEF NoNewlines
    <3>3. QED  BY <3>1, <3>2
  <2>5. NoNewlines(SureLines', lineText')
    BY <1>1, <1>6, <2>2, <2>3, <2>4
  <2>6. FirstLines(SureLines', lineText')
    BY <1>1, <1>5, <2>2
  <2>7. LineTypeOK'
    BY <1>1, <1>3, <1>4, <2>1 DEF LineInv, LineTypeOK
  <2>8. AfterError'
    BY <2>1, <2>6 DEF AfterError
  <2>9. QED  BY <1>3, <2>5, <2>7, <2>8 DEF LineInv
<1>8. CASE lineBuffer' # <<>>
  <2>1. PICK buffer \in Seq(LineBytes) : buffer = lineBuffer'
    BY <1>4
  <2>2. Len(buffer) \in Nat /\ SubSeq(buffer, 1, Len(buffer)) = buffer
    BY LenProperties, SubSeqFull
  <2>3. /\ line' = <<0, Len(buffer)>> /\ linePc' = "client"
        /\ linesRead' = Append(linesRead, SubSeq(buffer, 0 + 1, Len(buffer)))
    BY <1>1, <1>8, <2>1 DEF Remainder, Return
  <2>4. linesRead' = Append(linesRead, buffer)
    BY <2>2, <2>3
  <2>5. PICK grown : grown = Append(linesRead, buffer)
    OBVIOUS
  <2>6. grown \in Seq(Seq(LineBytes)) /\ Len(grown) = k + 1 /\ \A i \in 1..k : grown[i] = linesRead[i]
    BY <1>6, <2>5, LineFacts, AppendProperties
  <2>7. SubSeq(grown, 1, Len(grown) - 1) = linesRead
    <3>1. Len(grown) - 1 = k /\ k <= Len(grown) /\ 0 <= k
      BY <2>6
    <3>2. /\ SubSeq(grown, 0 + 1, k) \in Seq(Seq(LineBytes))
          /\ Len(SubSeq(grown, 0 + 1, k)) = k - 0
          /\ \A i \in 1..k - 0 : SubSeq(grown, 0 + 1, k)[i] = grown[0 + i]
      BY <2>6, <3>1, Piece
    <3>3. PICK front : front = SubSeq(grown, 1, k)
      OBVIOUS
    <3>4. /\ front \in Seq(Seq(LineBytes)) /\ Len(front) = k
          /\ \A i \in 1..k : front[i] = grown[i]
      BY <3>2, <3>3
    <3>5. front = linesRead
      BY <1>6, <2>6, <3>4, LineFacts, SeqEqual
    <3>6. QED  BY <3>1, <3>3, <3>5
  <2>8. SureLines' = linesRead
    BY <1>3, <2>4, <2>5, <2>7 DEF SureLines
  <2>9. line' \in Nat \X Nat /\ line'[2] = Len(lineBuffer')
    BY <2>1, <2>2, <2>3
  <2>10. LineTypeOK'
    BY <1>1, <1>3, <1>4, <2>3, <2>4, <2>5, <2>6, <2>9 DEF LineInv, LineTypeOK
  <2>11. AfterError'
    BY <1>1, <1>5, <1>8, <2>3, <2>8, <2>9 DEF AfterError
  <2>12. NoNewlines(SureLines', lineText')
    BY <1>1, <1>2, <2>8
  <2>13. QED  BY <1>3, <2>10, <2>11, <2>12 DEF LineInv
<1>9. QED  BY <1>7, <1>8

LEMMA LineStepKeeps == LineInv /\ [LineNext]_lineVars => LineInv'
<1> SUFFICES ASSUME LineInv, [LineNext]_lineVars PROVE LineInv'
  OBVIOUS
<1>1. CASE UNCHANGED lineVars
  BY <1>1 DEF lineVars, LineInv, LineTypeOK, NoNewlines, SureLines, BufferIsText, LineOffset,
              ReadingInv, ClientInv, AfterError
<1>2. QED  BY <1>1, CallsOnEmptyKeeps, CallsAtEndKeeps, CallFindsKeeps, CallShiftsKeeps,
              ReadsOnKeeps, ReadEndsKeeps, ReadBreaksKeeps DEF LineNext

\* The lines a client of buffer_getline_fd gets are those of the text, in order and
\* without what ends them, whatever the text, the sizes of the buffer and the cuts
\* of the reads; and they are all of them once a call returns false
\* (buffer_io.c:242-341).
THEOREM LinesAreOfText == LineSpec => []LinesAreText
<1>1. LineInit => LineInv
  BY LineInitHolds
<1>2. LineInv /\ [LineNext]_lineVars => LineInv'
  BY LineStepKeeps
<1>3. LineInv => LinesAreText
  BY LineInvImplies
<1>4. QED  BY <1>1, <1>2, <1>3, PTL DEF LineSpec
=============================================================================
