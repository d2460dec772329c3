----------------------------- MODULE ByteReader -----------------------------
(***************************************************************************)
(* What a client of a byte stream is promised, whatever caches lie between *)
(* it and the stream.  The stream is read in order; the client sees, at    *)
(* each successful read, exactly the bytes that have arrived and that it   *)
(* has not disposed of, starting with the first of them; it is told the    *)
(* stream has ended only after a read that showed it everything there was. *)
(* Nothing is promised about what is shown after a failure.                *)
(***************************************************************************)
EXTENDS Integers, Sequences

CONSTANTS Source,         \* all the bytes the stream may ever hold
          Ends            \* how many of them it may turn out to hold

VARIABLES pos,            \* bytes the client has disposed of
          seen,           \* bytes that have arrived
          window,         \* the bytes shown by the last successful read
          outcome,        \* what the last read told the client
          complete,       \* the last read showed the end of the stream
          failed          \* a read has failed

readerVars == <<pos, seen, window, outcome, complete, failed>>

ReaderInit ==
  /\ pos = 0 /\ seen = 0 /\ window = <<>> /\ outcome = "none"
  /\ complete = FALSE /\ failed = FALSE

\* Bytes arrive.
Arrive == seen' >= seen /\ seen' <= Len(Source)

\* Bytes may arrive without being shown yet.
Prefetch == ~complete /\ Arrive /\ UNCHANGED <<pos, window, outcome, complete, failed>>

\* A read succeeds; it may find the end of the stream.
Show ==
  /\ ~complete /\ Arrive
  /\ outcome' = "data"
  /\ complete' \in BOOLEAN /\ (complete' => seen' \in Ends)
  /\ ~failed => window' = SubSeq(Source, pos + 1, seen')
  /\ UNCHANGED <<pos, failed>>

\* A read reports the end of the stream.
ReportEnd ==
  complete /\ outcome' = "end" /\ UNCHANGED <<pos, seen, window, complete, failed>>

\* A read fails.
Fail ==
  /\ ~complete /\ outcome' = "failed" /\ failed' = TRUE
  /\ UNCHANGED <<pos, seen, window, complete>>

\* The client disposes of bytes, of some that have not arrived yet if it wants.
Dispose == pos' >= pos /\ UNCHANGED <<seen, window, outcome, complete, failed>>

ReaderNext == Prefetch \/ Show \/ ReportEnd \/ Fail \/ Dispose

ReaderSpec == ReaderInit /\ [][ReaderNext]_readerVars
=============================================================================
