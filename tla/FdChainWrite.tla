---------------------------- MODULE FdChainWrite ----------------------------
(***************************************************************************)
(* A chain_write over a file descriptor (chain-io/fd/write.c) with         *)
(* buffer_write: each turn of the flushing loop is one write(2), which may *)
(* take fewer bytes than offered or fail.  The client pushes the bytes of  *)
(* Data in order, in pieces of any size of PushSizes, through chain_push or *)
(* in place, flushes when it likes and frees the chain in the end.         *)
(***************************************************************************)
EXTENDS ChainWrite

CONSTANTS
  Data,       \* the bytes the client has to write
  PushSizes   \* sizes of its pushes

Bytes == {Data[i] : i \in 1..Len(Data)}

ASSUME FdWriteAssumption == Data \in Seq(Bytes) /\ PushSizes \subseteq Nat

VARIABLES
  pushed,   \* history: how many bytes of Data were pushed
  sink      \* history: what write(2) has taken

vars == <<chain, pushed, sink>>

Init == ChainInit /\ pushed = 0 /\ sink = <<>>

-----------------------------------------------------------------------------
\* Mutant: the range is not advanced past the bytes that were written.
FdUpdate_NoAdvance ==
  \E k \in 1..Len(input) :
    /\ sink' = sink \o SubSeq(input, 1, k)
    /\ Update(SubSeq(input, k, Len(input)), "incomplete")

\* The update function writes some of the range.  (write(2) of some bytes takes
\* at least one, or fails.)
FdUpdate ==
  \E k \in 1..Len(input) :
    /\ sink' = sink \o SubSeq(input, 1, k)
    /\ Update(SubSeq(input, k + 1, Len(input)), "incomplete")

\* Mutant: one write(2) is taken for all of them.
FdComplete_Early == Update(input, "complete") /\ UNCHANGED sink

\* The update function finds nothing left to write.
FdComplete == input = <<>> /\ Update(<<>>, "complete") /\ UNCHANGED sink

\* write(2) fails.
FdFails == input # <<>> /\ Update(input, "error") /\ UNCHANGED sink

Writes == (FdUpdate \/ FdComplete \/ FdFails) /\ UNCHANGED pushed

-----------------------------------------------------------------------------
ClientPushes ==
  \E n \in PushSizes :
    /\ pushed + n <= Len(Data)
    /\ LET bytes == SubSeq(Data, pushed + 1, pushed + n)
       IN  Push(bytes) \/ PushInPlace(bytes)
    /\ pushed' = pushed + n
    /\ UNCHANGED sink

ClientFlushes == Flush /\ UNCHANGED <<pushed, sink>>

ClientFrees == Free /\ UNCHANGED <<pushed, sink>>

Next == ClientPushes \/ ClientFlushes \/ ClientFrees \/ Writes

Spec == Init /\ [][Next]_vars

\* write(2) goes on answering.  The client flushes as often as it likes but
\* frees the chain in the end, hence the strong fairness.
FairSpec == Spec /\ WF_vars(Writes) /\ SF_vars(ClientFrees)

-----------------------------------------------------------------------------
TypeOK ==
  ChainTypeOK(Bytes) /\ pushed \in 0..Len(Data) /\ sink \in Seq(Bytes)

\* The bytes pushed and not yet written, wherever they are.
Pending == IF Busy THEN input ELSE Unwritten(buffer, written)

\* Until a write fails, what was pushed is what was written followed by what
\* waits: nothing is lost, repeated or reordered between the client's range,
\* the cache and the descriptor.
Accounting ==
  ~is_error =>
    /\ Len(sink) + Len(Pending) = pushed
    /\ \A i \in 1..Len(Pending) : Pending[i] = Data[Len(sink) + i]

\* A client that only pushes never leaves InputFlushSize bytes waiting.
CacheBounded == pc = "idle" /\ ~is_error => Len(Pending) < InputFlushSize

\* The handle keeps its books: well-typed counts, nothing lost between client and
\* descriptor, and no more waiting than chain_push allows.
Bookkeeping == TypeOK /\ Accounting /\ CacheBounded

\* write.h:32: chain_flush "Flushes any cached bytes"; when it or the flush
\* inside chain_push returns true, everything pushed is written.
FlushWritesAll ==
  [][pc = "flushing" /\ pc' = "idle" /\ result' = "true"
       => Len(sink') = pushed]_vars

\* A chain over a descriptor is a ByteWriter: what reached the descriptor is the
\* beginning of what was pushed even after a failure, since
\* chain_write_flush_input refuses to go on.
Writer == INSTANCE ByteWriter WITH
            accepted <- pushed, received <- sink, failed <- is_error,
            done <- pc = "freed"
ImplementsWriter == Writer!WriterSpec

\* Every call returns, and a chain that is freed has written everything or
\* failed.
EverythingWritten == <>(is_error \/ (Len(sink) = pushed /\ pc = "freed"))
=============================================================================
