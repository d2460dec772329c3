------------------------------ MODULE ChainRead ------------------------------
(***************************************************************************)
(* The reading half of chain-io (chain-io/read.c): one chain_read handle.  *)
(*                                                                         *)
(* A chain keeps a cache of bytes (`buffer`) that an update function fills *)
(* from somewhere, and a count of bytes its client has `released` from the *)
(* front of it.  Releasing only adds to the count; the cache is shortened  *)
(* by the next pull, and only when enough of it is released.  A release may *)
(* exceed the cache: the rest is carried over to bytes yet to be read.     *)
(*                                                                         *)
(* This module is the chain alone.  What the update function does is left  *)
(* to the modules that extend or instantiate it: they call Absorb with the *)
(* cache and the status that one call of the update function produced.     *)
(* chain_pull is a loop around that function, so it is two states here:    *)
(* "idle" (the client runs) and "reading" (inside the loop, line 83).      *)
(***************************************************************************)
EXTENDS Integers, Sequences

CONSTANT DownshiftLimit   \* 1e7: a cache longer than this is always shortened

ASSUME DownshiftLimitAssumption == DownshiftLimit \in Nat

VARIABLES
  buffer,       \* interface.buffer, from begin to end
  released,     \* bytes released and not yet removed from the cache
  is_error,
  is_complete,
  fresh_read,   \* something was released since the last pull
  pc,           \* "idle" or "reading"
  max_size,     \* the local of chain_pull, meaningful while reading
  contents,     \* the range the last successful pull gave the client
  result,       \* what the last pull returned
  consumed      \* history: the sum of all sizes given to chain_release

chain == <<buffer, released, is_error, is_complete, fresh_read, pc, max_size,
           contents, result, consumed>>

Results == {"none",     \* no pull has returned yet
            "data",     \* true, with contents
            "end",      \* false, the chain was complete
            "failed"}   \* false, the update function failed

ChainInit ==
  /\ buffer = <<>> /\ released = 0 /\ contents = <<>>
  /\ is_error = FALSE /\ is_complete = FALSE /\ fresh_read = FALSE
  /\ pc = "idle" /\ max_size = 0 /\ result = "none" /\ consumed = 0

\* Every byte of the cache is released.
Exhausted == released >= Len(buffer)

\* A partial release is worth a memmove.
WorthShifting ==
  /\ released > 0
  /\ released > Len(buffer) \div 2 \/ Len(buffer) > DownshiftLimit

\* The cache and the count once chain_read_apply_release has run.
Kept == IF Exhausted THEN <<>>
        ELSE IF WorthShifting THEN SubSeq(buffer, released + 1, Len(buffer))
        ELSE buffer

\* Mutant: a release larger than the cache is forgotten.
StillReleased_NoCarry == IF Exhausted \/ WorthShifting THEN 0 ELSE released

StillReleased == IF Exhausted THEN released - Len(buffer)
                 ELSE IF WorthShifting THEN 0
                 ELSE released

ApplyRelease == buffer' = Kept /\ released' = StillReleased

\* Mutant: the client is shown the whole cache again.
Window_Whole(b, r) == SubSeq(b, 1, Len(b))

\* The range given to the client: what follows the released bytes of cache b.
Window(b, r) == SubSeq(b, r + 1, Len(b))

\* chain_pull of a chain whose update function has reported its end.
PullEnded ==
  /\ pc = "idle" /\ is_complete
  /\ ApplyRelease
  /\ result' = "end"
  /\ UNCHANGED <<is_error, is_complete, fresh_read, pc, max_size, contents,
                 consumed>>

\* Mutant: any pull the cache can serve is served from it.
Cached_Always(target) == target + StillReleased <= Len(Kept)

\* The cache alone can serve a pull of this size.
Cached(target) == fresh_read /\ target + StillReleased <= Len(Kept)

\* chain_pull served without reading.
PullCached(target) ==
  /\ pc = "idle" /\ ~is_complete /\ Cached(target)
  /\ ApplyRelease
  /\ fresh_read' = FALSE
  /\ contents' = Window(Kept, StillReleased)
  /\ result' = "data"
  /\ UNCHANGED <<is_error, is_complete, pc, max_size, consumed>>

\* Mutant: the size to reach counts the released bytes, with the wrong sign.
PullReads_Underflow(target) ==
  /\ pc = "idle" /\ ~is_complete /\ ~Cached(target)
  /\ ApplyRelease
  /\ fresh_read' = FALSE
  /\ max_size' = (IF Len(Kept) < target THEN target ELSE Len(Kept) + target)
                   - StillReleased
  /\ pc' = "reading"
  /\ UNCHANGED <<is_error, is_complete, contents, result, consumed>>

\* chain_pull that has to read: it enters the loop.
PullReads(target) ==
  /\ pc = "idle" /\ ~is_complete /\ ~Cached(target)
  /\ ApplyRelease
  /\ fresh_read' = FALSE
  /\ max_size' = IF Len(Kept) < target THEN target ELSE Len(Kept) + target
  /\ pc' = "reading"
  /\ UNCHANGED <<is_error, is_complete, contents, result, consumed>>

Pull(target) == PullEnded \/ PullCached(target) \/ PullReads(target)

\* Mutant: the loop tests the size only, and calls the update function again
\* after it reported its end.
Absorb_LoopsAtEnd(filled, status) ==
  /\ pc = "reading"
  /\ buffer' = filled
  /\ is_error' = (is_error \/ status = "error")
  /\ UNCHANGED <<released, fresh_read, max_size, consumed, is_complete>>
  /\ IF status # "error" /\ max_size >= Len(filled)
     THEN UNCHANGED <<pc, result, contents>>
     ELSE /\ pc' = "idle" /\ result' = "data"
          /\ contents' = Window(filled, released)

\* One turn of the loop: the update function left the cache as `filled` and
\* returned `status`.
Absorb(filled, status) ==
  /\ pc = "reading"
  /\ buffer' = filled
  /\ is_error' = (is_error \/ status = "error")
  /\ is_complete' = (status = "complete")
  /\ IF status = "error" THEN result' = "failed" /\ UNCHANGED contents
     ELSE IF status = "complete" \/ max_size < Len(filled)
     THEN result' = "data" /\ contents' = Window(filled, released)
     ELSE UNCHANGED <<result, contents>>
  /\ pc' = IF status = "incomplete" /\ max_size >= Len(filled)
           THEN "reading" ELSE "idle"
  /\ UNCHANGED <<released, fresh_read, max_size, consumed>>

\* chain_release: the client may call it whenever it runs, with any size.
Release(n) ==
  /\ pc = "idle"
  /\ released' = released + n
  /\ fresh_read' = (fresh_read \/ n # 0)
  /\ consumed' = consumed + n
  /\ UNCHANGED <<buffer, is_error, is_complete, pc, max_size, contents, result>>

ChainTypeOK(Byte) ==
  /\ buffer \in Seq(Byte) /\ contents \in Seq(Byte)
  /\ released \in Nat /\ max_size \in Nat /\ consumed \in Nat
  /\ is_error \in BOOLEAN /\ is_complete \in BOOLEAN /\ fresh_read \in BOOLEAN
  /\ pc \in {"idle", "reading"} /\ result \in Results
=============================================================================
