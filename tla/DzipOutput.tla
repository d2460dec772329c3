----------------------------- MODULE DzipOutput -----------------------------
(***************************************************************************)
(* A chain_write that deflates or inflates what is pushed to it and pushes *)
(* the result to another chain_write (the second halves of                 *)
(* dzip/deflate/chain.c and dzip/inflate/chain.c), which writes to a file  *)
(* descriptor.  A client pushes a stream to the first, flushes either when *)
(* it likes, and frees the first, then the second.                         *)
(*                                                                         *)
(* The update function of the first is two steps here: UpdatePushes ends in *)
(* the second chain's chain_push_final, and UpdateReturns follows it.      *)
(***************************************************************************)
EXTENDS DzipStream, SequencesExt

CONSTANTS
  Deflating,       \* TRUE for dzip_deflate_chain_output
  ClientInput,     \* what the client pushes, in order
  PushSizes,       \* the sizes of its pushes
  AdaptorFlushSize,  \* 0: the adaptors leave interface.flush_size unset
  OutputFlushSize, OutputInputFlushSize, OutputBufferMaxSize

ClientUnits == {ClientInput[i] : i \in 1..Len(ClientInput)}

ASSUME OutputAssumption ==
  /\ Deflating \in BOOLEAN /\ ClientInput \in Seq(ClientUnits) /\ AreUnits(ClientUnits)
  /\ PushSizes \subseteq Nat
  /\ AdaptorFlushSize \in Nat /\ OutputFlushSize \in Nat /\ OutputBufferMaxSize \in Nat
  /\ OutputInputFlushSize \in Nat \ {0}

VARIABLES
  toBuffer, toWritten, toError, toPc, toInput, toResult,
  fdBuffer, fdWritten, fdError, fdPc, fdInput, fdResult, fdSink,
  toPushed,   \* history: how much of ClientInput was pushed
  toUpdate    \* "none", "advanced" or "stuck": the update function, at its return

converter == <<toBuffer, toWritten, toError, toPc, toInput, toResult>>
descriptor == <<fdBuffer, fdWritten, fdError, fdPc, fdInput, fdResult, fdSink>>
outputVars == <<converter, descriptor, toPushed, toUpdate>>

Converter == INSTANCE ChainWrite WITH
  buffer <- toBuffer, written <- toWritten, is_error <- toError, pc <- toPc,
  input <- toInput, result <- toResult, FlushSize <- AdaptorFlushSize,
  InputFlushSize <- OutputInputFlushSize, BufferMaxSize <- OutputBufferMaxSize

Descriptor == INSTANCE FdChainWrite WITH
  buffer <- fdBuffer, written <- fdWritten, is_error <- fdError,
  pc <- fdPc, input <- fdInput, result <- fdResult, sink <- fdSink,
  pushed <- toPushed, Data <- ClientInput, FlushSize <- OutputFlushSize,
  InputFlushSize <- OutputInputFlushSize, BufferMaxSize <- OutputBufferMaxSize

OutputInit ==
  /\ Converter!ChainInit /\ Descriptor!ChainInit
  /\ fdSink = <<>> /\ toPushed = 0 /\ toUpdate = "none"

-----------------------------------------------------------------------------
\* What one call of the update function appends to the other chain, and what
\* it leaves of its range: dzip_deflate never advances the range, and
\* dzip_inflate_range does when it succeeds.
Converted == IF Deflating THEN Deflate(toInput) ELSE InflateRange(toInput).out

\* Mutant: an incomplete chunk at the end is taken for one that was used.
Rest_None == IF Deflating THEN toInput ELSE <<>>

\* Mutant: inflating does not advance the range either.
Rest_Stuck == toInput

Rest == IF Deflating THEN toInput
        ELSE SubSeq(toInput, InflateRange(toInput).used + 1, Len(toInput))

UpdatePushes ==
  /\ Converter!Busy /\ toUpdate = "none" /\ fdPc = "idle"
  /\ Descriptor!PushInPlace(Converted)
  /\ toInput' = Rest
  /\ toUpdate' = IF Rest = toInput THEN "stuck" ELSE "advanced"
  /\ UNCHANGED <<toBuffer, toWritten, toError, toPc, toResult, fdSink, toPushed>>

\* The other chain's flush, if there is one, calls write(2).
OutputWrites == Descriptor!Writes /\ UNCHANGED <<converter, toUpdate>>

\* The update function returns: an error of the other chain is its own, and an
\* inflating one is called again as long as it advances.
UpdateReturns ==
  /\ toUpdate # "none" /\ fdPc = "idle"
  /\ Converter!Update(toInput,
       IF fdResult = "false" THEN "error"
       ELSE IF Deflating \/ toUpdate = "stuck" THEN "complete"
       ELSE "incomplete")
  /\ toUpdate' = "none"
  /\ UNCHANGED <<descriptor, toPushed>>

-----------------------------------------------------------------------------
ClientPushes ==
  \E n \in PushSizes :
    /\ toPushed + n <= Len(ClientInput) /\ fdPc = "idle"
    /\ Converter!Push(SubSeq(ClientInput, toPushed + 1, toPushed + n))
    /\ toPushed' = toPushed + n
    /\ UNCHANGED <<descriptor, toUpdate>>

ClientFlushes ==
  /\ fdPc = "idle"
  /\ Converter!Flush /\ UNCHANGED <<descriptor, toPushed, toUpdate>>

ClientFrees ==
  /\ fdPc = "idle"
  /\ Converter!Free /\ UNCHANGED <<descriptor, toPushed, toUpdate>>

\* The other chain is freed when the adaptor has been.
ClientFreesOutput ==
  /\ toPc = "freed"
  /\ Descriptor!Free /\ UNCHANGED <<fdSink, converter, toPushed, toUpdate>>

OutputNext == \/ ClientPushes \/ ClientFlushes \/ ClientFrees \/ ClientFreesOutput
              \/ UpdatePushes \/ UpdateReturns \/ OutputWrites

OutputSpec == OutputInit /\ [][OutputNext]_outputVars

-----------------------------------------------------------------------------
ToConvert == SubSeq(ClientInput, 1, toPushed)
ToBeWritten == IF Deflating THEN ToConvert ELSE Plain(ToConvert)
MeaningOf(units) == IF Deflating THEN Plain(units) ELSE units

\* write.h:30 says of chain_push that it "Pushes data provided in a range": what
\* reaches the descriptor means the beginning of what was pushed, each part of
\* it once.
OutputIsFaithful == IsPrefix(MeaningOf(fdSink), ToBeWritten)

FreedIsWritten ==
  fdPc = "freed" /\ ~toError /\ ~fdError => MeaningOf(fdSink) = ToBeWritten

\* And when both chains have been freed and neither failed, all that was pushed has
\* reached the descriptor: no chunk stays behind in either cache, whatever
\* pushes and flushes cut it (dzip/inflate/chain.c:50-61, chain-io/write.c:149-158).
OutputIsWhole == OutputIsFaithful /\ FreedIsWritten
=============================================================================
