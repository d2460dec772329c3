------------------------------- MODULE HashFs -------------------------------
(***************************************************************************)
(* The sector cache of hash-fs (hash-fs/hash-fs.c): threads that look up   *)
(* sectors by digest and offset in a table of loaded sectors, each with a  *)
(* mutex, and load them through one descriptor, which has another.  A      *)
(* sector is returned with its mutex held; the thread that has it unlocks  *)
(* it when it is done (no operation of hash-fs.c does).                    *)
(*                                                                         *)
(* lseek_fs answers whether lseek(2) has FAILED, and the load goes on only *)
(* then: a sector is loaded from wherever the descriptor stands.           *)
(***************************************************************************)
EXTENDS Integers, Sequences

CONSTANTS
  FsThreads,
  Digests,      \* [ints |-> numbers, type |-> type_index]
  Offsets,
  TableSize,    \* range_count (fs->sector_table)
  UserBlocks,   \* hash_fs_user_block_count (fs)
  SectorSize,   \* HASH_FS_SECTOR_SIZE
  MaxAccesses,  \* bound: accesses of a thread
  MaxIoErrors   \* bound: calls of lseek(2) and read(2) that fail

VARIABLES
  sector,    \* fs->sector_table: [owner, loaded, digest, from]
  ioOwner,   \* fs->io.mutex
  place,     \* where the descriptor stands
  fsThread,  \* what each thread is doing
  accesses,  \* history: accesses by thread
  ioErrors   \* history: failed calls

fsVars == <<sector, ioOwner, place, fsThread, accesses, ioErrors>>

Nobody == "nobody"

ASSUME FsAssumption ==
  /\ Nobody \notin FsThreads
  /\ {TableSize, UserBlocks, SectorSize} \subseteq Nat \ {0} /\ Offsets \subseteq Nat
  /\ \A digest \in Digests : digest.ints \in Seq(Nat)

NoDigest == [ints |-> <<>>, type |-> 0]
Sectors == 0..(TableSize - 1)

\* mod_add: the sum of two residues without overflow.
ModAdd(a, b, mod) == IF b >= mod - a THEN b - (mod - a) ELSE a + b

\* mod_reference, over the words of the digest.
ModReference(digest, offset, mod) ==
  LET point[i \in 0..Len(digest.ints)] ==
        IF i = 0 THEN offset % mod ELSE ModAdd(point[i - 1], digest.ints[i] % mod, mod)
  IN  point[Len(digest.ints)]

FsInit ==
  /\ sector = [s \in Sectors |->
                 [owner |-> Nobody, loaded |-> FALSE, digest |-> NoDigest, from |-> 0]]
  /\ ioOwner = Nobody /\ place = 0
  /\ fsThread = [t \in FsThreads |->
                   [pc |-> "rest", asks |-> [digest |-> NoDigest, offset |-> 0], target |-> 0,
                    failed |-> FALSE]]
  /\ accesses = [t \in FsThreads |-> 0] /\ ioErrors = 0

Does(t, step) == fsThread' = [fsThread EXCEPT ![t].pc = step]
GetsOwner(t, owner) == sector' = [sector EXCEPT ![fsThread[t].target].owner = owner]
IoFails == ioErrors < MaxIoErrors /\ ioErrors' = ioErrors + 1

-----------------------------------------------------------------------------
(* hash_fs_cache_access.                                                   *)

Access(t) ==
  /\ fsThread[t].pc = "rest" /\ accesses[t] < MaxAccesses
  /\ \E digest \in Digests : \E offset \in Offsets :
       fsThread' = [fsThread EXCEPT ![t] =
                      [pc |-> "lock", asks |-> [digest |-> digest, offset |-> offset],
                       target |-> ModReference(digest, offset, TableSize), failed |-> FALSE]]
  /\ accesses' = [accesses EXCEPT ![t] = @ + 1]
  /\ UNCHANGED <<sector, ioOwner, place, ioErrors>>

LockSector(t) ==
  /\ fsThread[t].pc = "lock" /\ sector[fsThread[t].target].owner = Nobody
  /\ GetsOwner(t, t)
  /\ Does(t, "look")
  /\ UNCHANGED <<ioOwner, place, accesses, ioErrors>>

Target(t) == sector[fsThread[t].target]

\* Mutant: only the bytes of two digests are compared.
IsAsked_Bytes(t) == Target(t).digest.ints = fsThread[t].asks.digest.ints

\* hash_fs_digest_equals.
IsAsked(t) == Target(t).digest = fsThread[t].asks.digest

HitsSector(t) ==
  /\ fsThread[t].pc = "look" /\ Target(t).loaded /\ IsAsked(t)
  /\ Does(t, "has")
  /\ UNCHANGED <<sector, ioOwner, place, accesses, ioErrors>>

\* Another digest is there: success, and no sector.
MissesSector(t) ==
  /\ fsThread[t].pc = "look" /\ Target(t).loaded /\ ~IsAsked(t)
  /\ GetsOwner(t, Nobody)
  /\ Does(t, "rest")
  /\ UNCHANGED <<ioOwner, place, accesses, ioErrors>>

\* hash_fs_cache_load.
LockIo(t) ==
  /\ fsThread[t].pc = "look" /\ ~Target(t).loaded /\ ioOwner = Nobody
  /\ ioOwner' = t
  /\ Does(t, "seek")
  /\ UNCHANGED <<sector, place, accesses, ioErrors>>

\* A seek that works is taken for one that failed.  It goes to a byte, not to the
\* beginning of a sector.
Seeks(t) ==
  /\ fsThread[t].pc = "seek"
  /\ place' = SectorSize + ModReference(fsThread[t].asks.digest, fsThread[t].asks.offset, UserBlocks)
  /\ fsThread' = [fsThread EXCEPT ![t].pc = "unlock io", ![t].failed = TRUE]
  /\ UNCHANGED <<sector, ioOwner, accesses, ioErrors>>

SeekFails(t) ==
  /\ fsThread[t].pc = "seek" /\ IoFails
  /\ Does(t, "read")
  /\ UNCHANGED <<sector, ioOwner, place, accesses>>

ReadsSector(t) ==
  /\ fsThread[t].pc = "read"
  /\ sector' = [sector EXCEPT ![fsThread[t].target].from = place]
  /\ place' = place + SectorSize
  /\ Does(t, "unlock io")
  /\ UNCHANGED <<ioOwner, accesses, ioErrors>>

\* The read fails, or is short.
ReadSectorFails(t) ==
  /\ fsThread[t].pc = "read" /\ IoFails
  /\ \E n \in 0..SectorSize - 1 : place' = place + n
  /\ fsThread' = [fsThread EXCEPT ![t].pc = "unlock io", ![t].failed = TRUE]
  /\ UNCHANGED <<sector, ioOwner, accesses>>

UnlockIo(t) ==
  /\ fsThread[t].pc = "unlock io"
  /\ ioOwner' = Nobody
  /\ IF fsThread[t].failed
     THEN /\ sector' = [sector EXCEPT ![fsThread[t].target].loaded = FALSE]
          /\ Does(t, "fail")
     ELSE /\ sector' = [sector EXCEPT ![fsThread[t].target].loaded = TRUE,
                                      ![fsThread[t].target].digest = fsThread[t].asks.digest]
          /\ Does(t, "has")
  /\ UNCHANGED <<place, accesses, ioErrors>>

\* Mutant: the failure of a load leaves the sector locked.
AccessFails_Locked(t) ==
  /\ fsThread[t].pc = "fail"
  /\ Does(t, "rest")
  /\ UNCHANGED <<sector, ioOwner, place, accesses, ioErrors>>

AccessFails(t) ==
  /\ fsThread[t].pc = "fail"
  /\ GetsOwner(t, Nobody)
  /\ Does(t, "rest")
  /\ UNCHANGED <<ioOwner, place, accesses, ioErrors>>

\* The thread is done with its sector.
UnlockSector(t) ==
  /\ fsThread[t].pc = "has"
  /\ GetsOwner(t, Nobody)
  /\ Does(t, "rest")
  /\ UNCHANGED <<ioOwner, place, accesses, ioErrors>>

FsSteps(t) ==
  \/ LockSector(t) \/ HitsSector(t) \/ MissesSector(t) \/ LockIo(t) \/ Seeks(t)
  \/ ReadsSector(t) \/ UnlockIo(t) \/ AccessFails(t) \/ UnlockSector(t)

FsNext ==
  \E t \in FsThreads : Access(t) \/ FsSteps(t) \/ SeekFails(t) \/ ReadSectorFails(t)

FsSpec == FsInit /\ [][FsNext]_fsVars

\* As long as some thread can run, one does; a thread unlocks what it was given.
FsFair == WF_fsVars(\E t \in FsThreads : FsSteps(t) \/ SeekFails(t) \/ ReadSectorFails(t))

-----------------------------------------------------------------------------
\* The sector a thread was given is of the digest it asked for, and is the
\* thread's alone until it unlocks it: no other thread is in it, and none that was
\* given no sector, or a failure, has left a mutex behind (hash-fs.c:107-142).  The
\* code asks for no more than the digest (line 115): of two offsets that share a
\* place it does not tell which one the sector was loaded for, nor does this.
HeldIsAsked ==
  /\ \A t \in FsThreads : fsThread[t].pc = "has" =>
       Target(t).owner = t /\ Target(t).loaded /\ Target(t).digest = fsThread[t].asks.digest
  /\ \A s \in Sectors : \A t \in FsThreads :
       sector[s].owner = t <=>
         (fsThread[t].target = s /\ fsThread[t].pc \notin {"rest", "lock"})
  /\ \A t \in FsThreads :
       ioOwner = t <=> fsThread[t].pc \in {"seek", "read", "unlock io"}

\* Every access ends, for threads that hold one sector at a time: the mutexes
\* are always taken in the order sector, descriptor.  (Accesses are finitely
\* many: all of them have ended when all threads rest for good.)
AccessesEnd == <>[](\A t \in FsThreads : fsThread[t].pc = "rest")
=============================================================================
