----------------------------- MODULE ByteWriter -----------------------------
(***************************************************************************)
(* What a byte sink promises, whatever caches lie in front of it: what it  *)
(* has received is always the beginning of what was accepted, in order and *)
(* without repetition; after a failure it receives nothing any more, so    *)
(* that what it holds has no gap; and it is done, without having failed,   *)
(* only when it has received everything.                                   *)
(***************************************************************************)
EXTENDS Integers, Sequences

CONSTANT Data             \* the bytes the clients will offer, in order

VARIABLES accepted,       \* how many of them were offered
          received,       \* what has reached the sink
          failed, done

writerVars == <<accepted, received, failed, done>>

WriterInit ==
  accepted = 0 /\ received = <<>> /\ failed = FALSE /\ done = FALSE

Accept ==
  /\ ~done
  /\ accepted' >= accepted /\ accepted' <= Len(Data)
  /\ UNCHANGED <<received, failed, done>>

Receive ==
  /\ ~done /\ ~failed
  /\ \E n \in Len(received)..accepted : received' = SubSeq(Data, 1, n)
  /\ UNCHANGED <<accepted, failed, done>>

WriterFails ==
  ~done /\ failed' = TRUE /\ UNCHANGED <<accepted, received, done>>

\* A sink that has everything is done.
Finish ==
  /\ Len(received) = accepted
  /\ done' = TRUE /\ UNCHANGED <<accepted, received, failed>>

\* A sink that has failed, perhaps just now, is abandoned.
Abandon == done' = TRUE /\ failed' = TRUE /\ UNCHANGED <<accepted, received>>

WriterNext == Accept \/ Receive \/ WriterFails \/ Finish \/ Abandon

WriterSpec == WriterInit /\ [][WriterNext]_writerVars
=============================================================================
