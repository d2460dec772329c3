------------------------------ MODULE DzipUtil ------------------------------
(***************************************************************************)
(* The dzip program (dzip/util/dzip.util.c): a chain over standard input,  *)
(* a chain that deflates or inflates what it pulls from the first          *)
(* (dzip/deflate/chain.c, dzip/inflate/chain.c), and a chain over standard *)
(* output.  One thread runs it, so every step belongs to the innermost     *)
(* call in progress; what varies is how much each read(2) and write(2)     *)
(* moves, and which of them fails.                                         *)
(*                                                                         *)
(* Three instances hold the three handles: Stdin, Adaptor and Stdout.      *)
(* Adaptor is a ChainRead whose update function is the steps of this       *)
(* module that start with "Update": it pulls from Stdin, converts, and     *)
(* releases what it has used.                                              *)
(***************************************************************************)
EXTENDS DzipStream, SequencesExt

CONSTANTS
  Input,           \* what standard input may deliver
  Ends,            \* how much of it, before its end
  PullSize,        \* 1e6: what main and the adaptor pass to chain_pull
  MaxErrors,       \* bound: failures of read(2) or realloc
  InitialAlloc, GrowFactor, GrowSlack, DownshiftLimit, Garbage,
  FlushSize, InputFlushSize, BufferMaxSize

Units == {Input[i] : i \in 1..Len(Input)}

\* What the constants may be: units on standard input, and sizes the program reads
\* and writes by.
DzipConstants ==
  /\ Input \in Seq(Units) /\ AreUnits(Units) /\ Ends \subseteq 0..Len(Input)
  /\ PullSize \in Nat \ {0} /\ MaxErrors \in Nat
  /\ InitialAlloc \in Nat \ {0} /\ GrowFactor \in Nat \ {0} /\ GrowSlack \in Nat
  /\ DownshiftLimit \in Nat /\ FlushSize \in Nat /\ BufferMaxSize \in Nat
  /\ InputFlushSize \in Nat \ {0}

VARIABLES
  should_deflate,   \* FALSE for dzip -d
  inBuffer, inReleased, inError, inComplete, inFresh, inPc, inMax, inContents,
  inResult, inConsumed, inAlloc, inTaken, inErrors,
  buffer, released, is_error, is_complete, fresh_read, pc, max_size, contents,
  result, consumed,
  outBuffer, outWritten, outError, outPc, outInput, outResult, outSink,
  update,   \* where the adaptor's update function is: "none" or "pulling"
  main,     \* where main is: "pull", "push", "release", "check" or "free"
  exit      \* "running", or the exit status "success" or "failure"

stdin == <<inBuffer, inReleased, inError, inComplete, inFresh, inPc, inMax,
           inContents, inResult, inConsumed, inAlloc, inTaken, inErrors>>
adaptor == <<buffer, released, is_error, is_complete, fresh_read, pc, max_size,
             contents, result, consumed>>
stdout == <<outBuffer, outWritten, outError, outPc, outInput, outResult, outSink>>
program == <<update, main, exit>>
vars == <<should_deflate, stdin, adaptor, stdout, program>>

Stdin == INSTANCE FdChainRead WITH
  buffer <- inBuffer, released <- inReleased, is_error <- inError,
  is_complete <- inComplete, fresh_read <- inFresh, pc <- inPc,
  max_size <- inMax, contents <- inContents, result <- inResult,
  consumed <- inConsumed, max <- inAlloc, taken <- inTaken,
  errors <- inErrors, Source <- Input, Targets <- {PullSize},
  Releases <- {}, MaxConsumed <- Len(Input)

Adaptor == INSTANCE ChainRead

Stdout == INSTANCE FdChainWrite WITH
  buffer <- outBuffer, written <- outWritten, is_error <- outError,
  pc <- outPc, input <- outInput, result <- outResult, sink <- outSink,
  pushed <- consumed, Data <- <<>>, PushSizes <- {}

Init ==
  /\ should_deflate \in BOOLEAN
  /\ Stdin!Init /\ Adaptor!ChainInit /\ Stdout!ChainInit /\ outSink = <<>>
  /\ update = "none" /\ main = "pull" /\ exit = "running"

-----------------------------------------------------------------------------
(* The adaptor's update function.                                          *)

\* It starts by pulling from standard input.
UpdatePulls ==
  /\ pc = "reading" /\ update = "none"
  /\ Stdin!Pull(PullSize) /\ UNCHANGED <<inAlloc, inTaken, inErrors>>
  /\ update' = "pulling"
  /\ UNCHANGED <<adaptor, stdout, main, exit>>

\* Inside that pull, the descriptor is read.
StdinReads ==
  /\ Stdin!Fetch \/ Stdin!FetchFails \/ Stdin!AllocFails
  /\ UNCHANGED <<adaptor, stdout, program>>

\* The pull has returned, and the update function goes on.
Pulled(outcome) ==
  update = "pulling" /\ inPc = "idle" /\ inResult = outcome /\ update' = "none"

\* Mutant: bytes are given back before it is known how many were used.
UpdateInflates_ReleasesAll ==
  /\ ~should_deflate /\ Pulled("data")
  /\ LET inflated == InflateRange(inContents)
     IN  /\ Adaptor!Absorb(buffer \o inflated.out,
                           IF inflated.ok THEN "incomplete" ELSE "error")
         /\ IF inflated.ok THEN Stdin!Release(Len(inContents)) ELSE UNCHANGED stdin
  /\ UNCHANGED <<inAlloc, inTaken, inErrors, stdout, main, exit>>

\* Mutant: the result of dzip_inflate_range is not looked at.
UpdateInflates_IgnoresFailure ==
  /\ ~should_deflate /\ Pulled("data")
  /\ LET inflated == InflateRange(inContents)
     IN  /\ Adaptor!Absorb(buffer \o inflated.out, "incomplete")
         /\ Stdin!Release(inflated.used)
  /\ UNCHANGED <<inAlloc, inTaken, inErrors, stdout, main, exit>>

\* dzip -d: inflate the chunks that are all there and release them.
UpdateInflates ==
  /\ ~should_deflate /\ Pulled("data")
  /\ LET inflated == InflateRange(inContents)
     IN  /\ Adaptor!Absorb(buffer \o inflated.out,
                           IF inflated.ok THEN "incomplete" ELSE "error")
         /\ IF inflated.ok THEN Stdin!Release(inflated.used) ELSE UNCHANGED stdin
  /\ UNCHANGED <<inAlloc, inTaken, inErrors, stdout, main, exit>>

\* dzip: deflate and release everything there is.
UpdateDeflates ==
  /\ should_deflate /\ Pulled("data")
  /\ Adaptor!Absorb(buffer \o Deflate(inContents), "incomplete")
  /\ Stdin!Release(Len(inContents))
  /\ UNCHANGED <<inAlloc, inTaken, inErrors, stdout, main, exit>>

\* Mutant: a failed read is taken for the end of the input.
UpdateEnds_IgnoresError ==
  /\ \E outcome \in {"end", "failed"} : Pulled(outcome)
  /\ Adaptor!Absorb(buffer, "complete")
  /\ UNCHANGED <<stdin, stdout, main, exit>>

\* Mutant: the end of the input is not reported.
UpdateEnds_GoesOn ==
  /\ \E outcome \in {"end", "failed"} : Pulled(outcome)
  /\ Adaptor!Absorb(buffer, IF inError THEN "error" ELSE "incomplete")
  /\ UNCHANGED <<stdin, stdout, main, exit>>

\* Nothing was pulled: the input has ended, or failed.
UpdateEnds ==
  /\ \E outcome \in {"end", "failed"} : Pulled(outcome)
  /\ Adaptor!Absorb(buffer, IF inError THEN "error" ELSE "complete")
  /\ UNCHANGED <<stdin, stdout, main, exit>>

-----------------------------------------------------------------------------
(* main.                                                                   *)

MainAt(where) == main = where /\ exit = "running" /\ pc = "idle" /\ outPc = "idle"

MainPulls ==
  /\ MainAt("pull") /\ Adaptor!Pull(PullSize)
  /\ main' = "push"
  /\ UNCHANGED <<stdin, stdout, update, exit>>

\* The pull gave something: push it, and never mind what chain_push returns.
MainPushes ==
  /\ MainAt("push") /\ result = "data"
  /\ Stdout!Push(contents)
  /\ main' = "release"
  /\ UNCHANGED <<stdin, adaptor, outSink, update, exit>>

StdoutWrites ==
  /\ Stdout!FdUpdate \/ Stdout!FdComplete \/ Stdout!FdFails
  /\ UNCHANGED <<stdin, adaptor, program>>

\* Mutant: the release is forgotten.
MainReleases_Not ==
  MainAt("release") /\ main' = "pull"
  /\ UNCHANGED <<stdin, adaptor, stdout, update, exit>>

MainReleases ==
  /\ MainAt("release") /\ Adaptor!Release(Len(contents))
  /\ main' = "pull"
  /\ UNCHANGED <<stdin, stdout, update, exit>>

\* The pull gave nothing.
MainLeavesLoop ==
  /\ MainAt("push") /\ result # "data"
  /\ main' = "check"
  /\ UNCHANGED <<stdin, adaptor, stdout, update, exit>>

\* Mutant: main does not ask whether the reading failed.
MainChecks_OnlyWrites ==
  /\ MainAt("check")
  /\ IF outError THEN exit' = "failure" /\ UNCHANGED <<main, outPc, outInput>>
     ELSE Stdout!Free /\ main' = "free" /\ UNCHANGED exit
  /\ UNCHANGED <<stdin, adaptor, outBuffer, outWritten, outError, outResult,
                 outSink, update>>

\* An error ends the program before the last flush; otherwise the chains are
\* freed, and freeing the output flushes it.
MainChecks ==
  /\ MainAt("check")
  /\ IF is_error \/ outError
     THEN exit' = "failure" /\ UNCHANGED <<main, outPc, outInput>>
     ELSE Stdout!Free /\ main' = "free" /\ UNCHANGED exit
  /\ UNCHANGED <<stdin, adaptor, outBuffer, outWritten, outError, outResult,
                 outSink, update>>

MainReturns ==
  /\ main = "free" /\ outPc = "freed" /\ exit = "running"
  /\ exit' = "success"
  /\ UNCHANGED <<stdin, adaptor, stdout, update, main>>

\* The options are read once, before anything else.
Next ==
  /\ \/ UpdatePulls \/ StdinReads \/ UpdateInflates \/ UpdateDeflates \/ UpdateEnds
     \/ MainPulls \/ MainPushes \/ StdoutWrites \/ MainReleases \/ MainLeavesLoop
     \/ MainChecks \/ MainReturns
  /\ UNCHANGED should_deflate

Spec == Init /\ [][Next]_vars

\* The program runs on, and its two descriptors go on answering.
FairSpec == Spec /\ WF_vars(Next)

-----------------------------------------------------------------------------
\* What the first n units of standard input mean, and what units on standard
\* output mean: a stream of chunks means the bytes its complete chunks stand for.
Wanted(n) == LET input == SubSeq(Input, 1, n)
             IN  IF should_deflate THEN input ELSE Plain(input)
Meaning(units) == IF should_deflate THEN Plain(units) ELSE units

\* At every moment, and however it ends, what is on standard output means a
\* beginning of what standard input means: no chunk is converted twice or
\* skipped, wherever the ends of reads, pulls, chunks and writes fall.
WrittenIsFaithful == IsPrefix(Meaning(outSink), Wanted(inTaken))

\* A successful exit follows the whole input, every chunk of which made sense,
\* and the output lacks no part of what it means unless the flush of
\* chain_write_free failed.
SuccessMeansDone ==
  exit = "success" =>
    /\ inTaken \in Ends /\ ~inError
    /\ should_deflate \/ InflateRange(SubSeq(Input, 1, inTaken)).ok
    /\ outError \/ Meaning(outSink) = Wanted(inTaken)

\* The program fails only when a read, an allocation or a write did, or where
\* the chunk that makes no sense stands: what it used of its input is exactly
\* the chunks before that one.  A chunk that a pull has cut in two is waited
\* for, and is neither taken for a bad one nor used in part.
FailureHasCause ==
  exit = "failure" =>
    \/ inErrors > 0 \/ outError
    \/ /\ ~should_deflate
       /\ LET before == InflateRange(SubSeq(Input, 1, inConsumed))
          IN  before.ok /\ before.used = inConsumed
       /\ ~InflateRange(SubSeq(Input, inConsumed + 1, inTaken)).ok

\* The exit status tells the truth, whichever it is.
StatusIsTrue == SuccessMeansDone /\ FailureHasCause

\* The program ends, whatever its input and however short its reads.
Terminates == <>(exit # "running")
=============================================================================
