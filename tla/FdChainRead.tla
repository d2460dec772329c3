----------------------------- MODULE FdChainRead -----------------------------
(***************************************************************************)
(* A chain_read over a file descriptor (chain-io/fd/read.c), with the      *)
(* buffer_read it is built on (buffer_io/buffer_io.c) and the allocation of *)
(* its cache (array/buffer.c).  Each turn of chain_pull's loop is one      *)
(* read(2): it may return fewer bytes than asked, and it may fail.         *)
(*                                                                         *)
(* The client is any program: it pulls with any size of Targets, releases  *)
(* any size of Releases, and may go on after an error or after the end.    *)
(***************************************************************************)
EXTENDS ChainRead

CONSTANTS
  Source,        \* all the bytes the descriptor may deliver
  Ends,          \* how many of them it may turn out to deliver before its end
  Garbage,       \* what a byte of the cache holds before anything is stored
  Targets,       \* sizes the client passes to chain_pull
  Releases,      \* sizes the client passes to chain_release
  InitialAlloc,  \* 1e6: the first size read into an empty cache
  GrowFactor, GrowSlack,  \* 4 and 10: _buffer_realloc allocates 4n + 10
  MaxConsumed,   \* bound: bytes released in a behaviour
  MaxErrors      \* bound: failures of read(2) or realloc in a behaviour

Bytes == {Source[i] : i \in 1..Len(Source)}

\* What a byte of the cache may hold.
Stored == Bytes \cup {Garbage}

ASSUME FdAssumption ==
  /\ Source \in Seq(Bytes)
  /\ Ends \subseteq 0..Len(Source) /\ Len(Source) \in Ends
  /\ Targets \subseteq Nat /\ Releases \subseteq Nat
  /\ InitialAlloc \in Nat \ {0}
  /\ GrowFactor \in Nat \ {0} /\ GrowSlack \in Nat
  /\ MaxConsumed \in Nat /\ MaxErrors \in Nat

VARIABLES
  max,      \* bytes allocated to the cache (interface.buffer.max - begin)
  taken,    \* bytes read(2) has delivered
  errors    \* failures so far

vars == <<chain, max, taken, errors>>

Init == ChainInit /\ max = 0 /\ taken = 0 /\ errors = 0

-----------------------------------------------------------------------------
\* Mutant: the byte kept for the terminating zero counts as room.
HasRoom_ToTheEnd == max > 0 /\ Len(buffer) < max

\* buffer_read keeps one byte for a terminating zero.  It reads into the room
\* left or, when there is none, makes the cache twice as long.
HasRoom == max > 0 /\ Len(buffer) < max - 1

FillSize == IF HasRoom THEN (max - 1) - Len(buffer)
            ELSE IF buffer # <<>> THEN Len(buffer)
            ELSE InitialAlloc

AllocFor(n) == IF max >= n THEN max ELSE GrowFactor * n + GrowSlack

Allocated == IF HasRoom THEN max ELSE AllocFor(Len(buffer) + FillSize + 1)

\* What read(2) may return for a request of n bytes: zero only at an end of the
\* stream, or when nothing is asked for.
ReadResults(n) ==
  {k \in 1..n : taken + k <= Len(Source)}
    \cup (IF n = 0 \/ taken \in Ends THEN {0} ELSE {})

\* buffer_read extends the cache to the size it is about to fill before it
\* calls read(2), and does not shorten it again when read(2) fails.
Overextended ==
  buffer \o [i \in 1..(IF HasRoom THEN 0 ELSE FillSize + 1) |-> Garbage]

\* Mutant: the end of the cache is left where the extension put it.
Fetch_KeepsExtension ==
  \E k \in ReadResults(FillSize) :
    /\ Absorb(IF HasRoom \/ k = 0
              THEN buffer \o SubSeq(Source, taken + 1, taken + k)
              ELSE Overextended,
              IF k = 0 THEN "complete" ELSE "incomplete")
    /\ max' = Allocated
    /\ taken' = taken + k
    /\ UNCHANGED errors

\* The update function: one read(2) that succeeds.
Fetch ==
  \E k \in ReadResults(FillSize) :
    /\ Absorb(buffer \o SubSeq(Source, taken + 1, taken + k),
              IF k = 0 THEN "complete" ELSE "incomplete")
    /\ max' = Allocated
    /\ taken' = taken + k
    /\ UNCHANGED errors

\* The update function: read(2) fails.
FetchFails ==
  /\ errors < MaxErrors
  /\ Absorb(Overextended, "error")
  /\ max' = Allocated
  /\ errors' = errors + 1
  /\ UNCHANGED taken

\* The update function: the allocation before the read fails.
AllocFails ==
  /\ errors < MaxErrors /\ ~HasRoom
  /\ Absorb(buffer, "error")
  /\ errors' = errors + 1
  /\ UNCHANGED <<max, taken>>

-----------------------------------------------------------------------------
ClientPulls ==
  \E target \in Targets : Pull(target) /\ UNCHANGED <<max, taken, errors>>

ClientReleases ==
  \E n \in Releases :
    /\ consumed + n <= MaxConsumed
    /\ Release(n)
    /\ UNCHANGED <<max, taken, errors>>

Next == ClientPulls \/ ClientReleases \/ Fetch \/ FetchFails \/ AllocFails

Spec == Init /\ [][Next]_vars

\* The client goes on pulling and the descriptor, a file or a pipe whose other
\* end makes progress, goes on answering.
FairSpec == Spec /\ WF_vars(ClientPulls) /\ WF_vars(Fetch)

-----------------------------------------------------------------------------
\* Types of the handle and of the descriptor's state.
TypeOK ==
  /\ ChainTypeOK(Stored)
  /\ max \in Nat /\ errors \in 0..MaxErrors /\ taken \in 0..Len(Source)

\* The cache together with the count of released bytes always stands at the
\* place in the stream where the client is: shortening the cache, keeping a
\* small release for later and carrying over a release larger than the cache
\* neither lose nor repeat a byte (chain_read_apply_release, chain_release).
Accounting == ~is_error => consumed = taken - Len(buffer) + released

\* The cache holds the last bytes read, in order: no byte is overwritten,
\* reordered or left uninitialised by buffer_read and the shifts of the cache.
CacheIsStream ==
  ~is_error =>
    /\ Len(buffer) <= taken
    /\ buffer = SubSeq(Source, taken - Len(buffer) + 1, taken)

\* buffer_read never takes a full cache for the end of the stream: the chain
\* completes only when the descriptor has delivered everything.
CompleteAtEnd == is_complete => taken \in Ends

\* The three together: the chain stands at its client's place in the stream, with
\* the right bytes in its cache, and knows the end when it has come.
InPlace == Accounting /\ CacheIsStream /\ CompleteAtEnd

\* The cache never outgrows its allocation, and keeps room for its zero.
WithinAllocation == ~is_error /\ max > 0 => Len(buffer) < max

\* The inductive invariant: all of the above, and that the loop of chain_pull
\* is never entered once the update function has reported its end.
Inv ==
  /\ TypeOK /\ Accounting /\ CacheIsStream /\ CompleteAtEnd /\ WithinAllocation
  /\ pc = "reading" => ~is_complete

\* A chain over a descriptor is a ByteReader of the descriptor's stream.
Reader == INSTANCE ByteReader WITH
            pos <- consumed, seen <- taken, window <- contents,
            outcome <- result, complete <- is_complete, failed <- is_error
ImplementsReader == Reader!ReaderSpec

\* A pull always returns while the descriptor answers.
PullReturns == (pc = "reading") ~> (pc = "idle")

\* A client that keeps pulling gets through the whole stream, whatever it
\* releases and however the pulls and the cached bytes fall.
ReadsThrough == <>(is_complete \/ is_error)

\* Both: no pull waits for ever, and the end is reached.
Progress == PullReturns /\ ReadsThrough
=============================================================================
