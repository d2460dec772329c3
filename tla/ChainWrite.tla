----------------------------- MODULE ChainWrite -----------------------------
(***************************************************************************)
(* The writing half of chain-io (chain-io/write.c): one chain_write handle. *)
(*                                                                         *)
(* A chain keeps the bytes pushed to it in `buffer`, of which the first    *)
(* `written` have been handed to its update function.  Small pushes are    *)
(* collected; once InputFlushSize bytes wait, or a push larger than        *)
(* FlushSize meets an empty chain, the loop of chain_write_flush_input     *)
(* hands them over.  The loop is a state of its own here ("pushing": on the *)
(* client's bytes; "flushing", "closing": on the cache), and one call of   *)
(* the update function is one Handed step, taken by the modules that       *)
(* extend or instantiate this one.                                         *)
(***************************************************************************)
EXTENDS Integers, Sequences

CONSTANTS
  FlushSize,       \* interface.flush_size: larger pushes may skip the cache
  InputFlushSize,  \* 1e6: cached bytes that make a push flush
  BufferMaxSize    \* 1e7: a cache longer than this is always shortened

ASSUME WriteAssumption ==
  /\ FlushSize \in Nat /\ BufferMaxSize \in Nat
  /\ InputFlushSize \in Nat \ {0}

VARIABLES
  buffer,    \* the cached bytes, those already written included
  written,   \* how many of them the update function has taken
  is_error,
  pc,        \* "idle", "pushing", "flushing", "closing" or "freed"
  input,     \* the range the update function is working through
  result     \* what the last call returned: "none", "true" or "false"

chain == <<buffer, written, is_error, pc, input, result>>

ChainInit ==
  /\ buffer = <<>> /\ written = 0 /\ is_error = FALSE
  /\ pc = "idle" /\ input = <<>> /\ result = "none"

Busy == pc \in {"pushing", "flushing", "closing"}

\* The bytes of cache b that follow the first w.
Unwritten(b, w) == SubSeq(b, w + 1, Len(b))

\* chain_push shortens the cache first when much of it is written.
WorthShifting ==
  written > 0 /\ (written > Len(buffer) \div 2 \/ Len(buffer) > BufferMaxSize)

Kept == IF WorthShifting THEN Unwritten(buffer, written) ELSE buffer

\* Mutant: the count of written bytes survives the shift.
KeptWritten_Stale == written

KeptWritten == IF WorthShifting THEN 0 ELSE written

\* Mutant: a chain that failed is written to all the same.
Hand_AfterError(bytes, where) ==
  pc' = where /\ input' = bytes /\ UNCHANGED result

\* The loop starts on `bytes`, unless the chain has failed before.
Hand(bytes, where) ==
  IF is_error THEN result' = "false" /\ UNCHANGED <<pc, input>>
  ELSE pc' = where /\ input' = bytes /\ UNCHANGED result

\* Mutant: chain_push_final lets one byte too many wait.
Settle_Inclusive(b, w) ==
  IF Len(b) - w <= InputFlushSize
  THEN result' = "true" /\ UNCHANGED <<pc, input>>
  ELSE Hand(Unwritten(b, w), "flushing")

\* chain_push_final, the cache being b with w bytes written.
Settle(b, w) ==
  IF Len(b) - w < InputFlushSize
  THEN result' = "true" /\ UNCHANGED <<pc, input>>
  ELSE Hand(Unwritten(b, w), "flushing")

\* chain_push of an empty range.
PushNothing ==
  /\ pc = "idle" /\ result' = "true"
  /\ UNCHANGED <<buffer, written, is_error, pc, input>>

\* All that was cached is written and the push is large: no copy is made.
SkipsCache(bytes) == Len(Kept) = KeptWritten /\ Len(bytes) > FlushSize

PushDirect(bytes) ==
  /\ pc = "idle" /\ bytes # <<>> /\ SkipsCache(bytes)
  /\ buffer' = Kept /\ written' = KeptWritten
  /\ Hand(bytes, "pushing")
  /\ UNCHANGED is_error

PushCached(bytes) ==
  /\ pc = "idle" /\ bytes # <<>> /\ ~SkipsCache(bytes)
  /\ buffer' = Kept \o bytes /\ written' = KeptWritten
  /\ Settle(Kept \o bytes, KeptWritten)
  /\ UNCHANGED is_error

Push(bytes) == (bytes = <<>> /\ PushNothing) \/ PushDirect(bytes)
               \/ PushCached(bytes)

\* chain_push_start, the client's stores at the end of the cache it is given,
\* and chain_push_final.
PushInPlace(bytes) ==
  /\ pc = "idle"
  /\ buffer' = buffer \o bytes
  /\ Settle(buffer \o bytes, written)
  /\ UNCHANGED <<written, is_error>>

\* chain_flush.
Flush ==
  /\ pc = "idle"
  /\ Hand(Unwritten(buffer, written), "flushing")
  /\ UNCHANGED <<buffer, written, is_error>>

\* Mutant: chain_write_free does not flush.
Free_NoFlush ==
  /\ pc = "idle" /\ pc' = "freed"
  /\ UNCHANGED <<buffer, written, is_error, input, result>>

\* chain_write_free: a last flush, whose result nobody sees, then the end.
Free ==
  /\ pc = "idle"
  /\ IF is_error THEN pc' = "freed" /\ UNCHANGED input
     ELSE pc' = "closing" /\ input' = Unwritten(buffer, written)
  /\ UNCHANGED <<buffer, written, is_error, result>>

Resting == IF pc = "closing" THEN "freed" ELSE "idle"

\* The loop ends well, `rest` left in the range.  chain_push keeps a copy of
\* the client's bytes that were not taken.
Handed(rest) ==
  IF pc = "pushing" THEN buffer' = buffer \o rest /\ UNCHANGED written
  ELSE written' = Len(buffer) - Len(rest) /\ UNCHANGED buffer

\* One call of the update function: it left `rest` of the range and returned
\* `status`.
Update(rest, status) ==
  /\ Busy
  /\ is_error' = (is_error \/ status = "error")
  /\ CASE status = "incomplete" ->
            input' = rest /\ UNCHANGED <<buffer, written, pc, result>>
       [] status = "complete" ->
            /\ Handed(rest)
            /\ pc' = Resting /\ input' = <<>> /\ result' = "true"
       [] status = "error" ->
            /\ pc' = Resting /\ input' = <<>> /\ result' = "false"
            /\ UNCHANGED <<buffer, written>>

ChainTypeOK(Byte) ==
  /\ buffer \in Seq(Byte) /\ input \in Seq(Byte)
  /\ written \in 0..Len(buffer)
  /\ is_error \in BOOLEAN
  /\ pc \in {"idle", "pushing", "flushing", "closing", "freed"}
  /\ result \in {"none", "true", "false"}
=============================================================================
