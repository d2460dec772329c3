------------------------------ MODULE DzipCodec ------------------------------
(***************************************************************************)
(* Deflating a chunk (dzip/deflate/deflate.c) and inflating it again       *)
(* (dzip/inflate/inflate.c).  The deflater walks over its window and, at   *)
(* each place, looks up where the index of the bytes there was last seen;  *)
(* when what follows is long enough it writes a match, and the bytes it    *)
(* passes without a match become a literal.  Its table `recent` survives   *)
(* from one chunk to the next, so that it holds places of other windows.   *)
(* The inflater appends to an output that may hold anything before.        *)
(*                                                                         *)
(* One step is one turn of dzip_deflate_chunk's loop, then one command read *)
(* or one byte copied by dzip_inflate.  Several chunks are done in a row.  *)
(***************************************************************************)
EXTENDS Integers, Sequences

CONSTANTS
  Bytes,        \* the values of a byte
  Windows,      \* the inputs a chunk may be made of
  Slots,        \* the places of the table `recent`, 16963 of them
  SlotOf(_),    \* *index % count_array (recent), of the bytes at a place
  IndexSize,    \* sizeof (dzip_index), 4
  FirstPlace,   \* 8: where a chunk's first match may be
  MinMatch,     \* 4: a match is longer than this
  Prior,        \* what the inflater's output may hold before the first chunk
  MaxChunks     \* bound: chunks in a behaviour

ASSUME CodecAssumption ==
  /\ Windows \subseteq Seq(Bytes) /\ Prior \subseteq Seq(Bytes)
  /\ IndexSize \in Nat /\ FirstPlace \in Nat /\ MinMatch \in Nat
  /\ MaxChunks \in Nat
  /\ \A index \in [1..IndexSize -> Bytes] : SlotOf(index) \in Slots

VARIABLES
  window,           \* the chunk's input
  window_progress,  \* how far the deflater has come, counted from 0
  literal_begin,    \* where the literal not written yet begins
  recent,           \* per slot, the last place its index was seen at
  commands,         \* the chunk: the commands written
  pc,               \* "idle", "deflating", "inflating", "copying" or "failed"
  next,             \* the inflater's place in commands
  left,             \* what is left to copy of a match (arg1 of dzip_inflate)
  output,           \* what the inflater has appended to
  before,           \* history: the length of output before this chunk
  chunks            \* history: chunks done

vars == <<window, window_progress, literal_begin, recent, commands, pc, next,
          left, output, before, chunks>>

Init ==
  /\ window = <<>> /\ window_progress = 0 /\ literal_begin = 0
  /\ recent = [s \in Slots |-> 0] /\ commands = <<>> /\ pc = "idle"
  /\ next = 1 /\ left = 0 /\ chunks = 0
  /\ output \in Prior /\ before = Len(output)

-----------------------------------------------------------------------------
(* Deflating.  Places are offsets from the window's begin.                 *)

\* The bytes of the window in [from, to).
Region(from, to) == SubSeq(window, from + 1, to)

Slot == SlotOf(Region(window_progress, window_progress + IndexSize))

\* check_match: how far the window goes on like `distance` bytes before.
MatchLength(distance) ==
  CHOOSE n \in 0..(Len(window) - window_progress) :
    /\ \A i \in 1..n : window[window_progress + i]
                         = window[window_progress + i - distance]
    /\ n < Len(window) - window_progress =>
         window[window_progress + n + 1]
           # window[window_progress + n + 1 - distance]

\* Mutant: a place is believed without comparing bytes.
Found_Unchecked ==
  IF recent[Slot] >= window_progress THEN 0
  ELSE Len(window) - window_progress

\* setup_match: the length of the match found, if any.  A place that is not
\* behind comes from another chunk.
Found ==
  IF recent[Slot] >= window_progress THEN 0
  ELSE MatchLength(window_progress - recent[Slot])

\* Mutant: the distance is taken after the deflater has moved on.
Match_AfterAdvance(length) ==
  [cmd |-> "match", length |-> length,
   distance |-> window_progress + length - recent[Slot], at |-> window_progress]

\* write_match.  `at` is history: the place the command stands for.
Match(length) ==
  [cmd |-> "match", length |-> length,
   distance |-> window_progress - recent[Slot], at |-> window_progress]

\* write_literal, the deflater being at `place`.
Literal(place) ==
  IF literal_begin < place
  THEN <<[cmd |-> "literal", length |-> place - literal_begin,
          bytes |-> Region(literal_begin, place), at |-> literal_begin]>>
  ELSE <<>>

DeflateStart ==
  /\ pc = "idle" /\ chunks < MaxChunks
  /\ window' \in Windows \ {<<>>}
  /\ window_progress' = FirstPlace /\ literal_begin' = 0
  /\ commands' = <<>> /\ pc' = "deflating"
  /\ before' = Len(output)
  /\ UNCHANGED <<recent, next, left, output, chunks>>

\* The loop of dzip_deflate_chunk goes on.
InLoop ==
  /\ pc = "deflating" /\ Len(window) > IndexSize
  /\ window_progress < Len(window) - IndexSize

\* Mutant: the next literal begins one byte too late.
DeflateMatch_OffByOne ==
  /\ InLoop /\ Found > MinMatch
  /\ commands' = Append(commands \o Literal(window_progress), Match(Found))
  /\ window_progress' = window_progress + Found
  /\ literal_begin' = window_progress + Found + 1
  /\ recent' = [recent EXCEPT ![Slot] = window_progress]
  /\ UNCHANGED <<window, pc, next, left, output, before, chunks>>

DeflateMatch ==
  /\ InLoop /\ Found > MinMatch
  /\ commands' = Append(commands \o Literal(window_progress), Match(Found))
  /\ window_progress' = window_progress + Found
  /\ literal_begin' = window_progress + Found
  /\ recent' = [recent EXCEPT ![Slot] = window_progress]
  /\ UNCHANGED <<window, pc, next, left, output, before, chunks>>

DeflateByte ==
  /\ InLoop /\ Found <= MinMatch
  /\ window_progress' = window_progress + 1
  /\ recent' = [recent EXCEPT ![Slot] = window_progress]
  /\ UNCHANGED <<window, literal_begin, commands, pc, next, left, output,
                 before, chunks>>

\* The rest of the window is a literal, and the chunk is complete.
DeflateEnd ==
  /\ pc = "deflating" /\ ~InLoop
  /\ commands' = commands \o Literal(Len(window))
  /\ window_progress' = Len(window) /\ literal_begin' = Len(window)
  /\ pc' = "inflating" /\ next' = 1
  /\ UNCHANGED <<window, recent, left, output, before, chunks>>

-----------------------------------------------------------------------------
(* Inflating.                                                              *)

InflateLiteral ==
  /\ pc = "inflating" /\ next <= Len(commands)
  /\ commands[next].cmd = "literal"
  /\ IF commands[next].length = 0
     THEN pc' = "failed" /\ UNCHANGED <<output, next>>
     ELSE /\ output' = output \o commands[next].bytes
          /\ next' = next + 1 /\ UNCHANGED pc
  /\ UNCHANGED <<window, window_progress, literal_begin, recent, commands, left,
                 before, chunks>>

\* A match is refused when its distance leaves the output.
InflateMatch ==
  /\ pc = "inflating" /\ next <= Len(commands)
  /\ commands[next].cmd = "match"
  /\ IF commands[next].length = 0 \/ commands[next].distance \notin 1..Len(output)
     THEN pc' = "failed" /\ UNCHANGED left
     ELSE pc' = "copying" /\ left' = commands[next].length
  /\ UNCHANGED <<window, window_progress, literal_begin, recent, commands, next,
                 output, before, chunks>>

\* The loop of read_match: one byte at a time, so that a match may overlap what
\* it appends.
InflateCopy ==
  /\ pc = "copying" /\ left > 0
  /\ output' = Append(output, output[Len(output) + 1 - commands[next].distance])
  /\ left' = left - 1
  /\ UNCHANGED <<window, window_progress, literal_begin, recent, commands, pc,
                 next, before, chunks>>

InflateCopied ==
  /\ pc = "copying" /\ left = 0
  /\ pc' = "inflating" /\ next' = next + 1
  /\ UNCHANGED <<window, window_progress, literal_begin, recent, commands, left,
                 output, before, chunks>>

\* dzip_inflate returns true.
InflateEnd ==
  /\ pc = "inflating" /\ next > Len(commands)
  /\ pc' = "idle" /\ chunks' = chunks + 1
  /\ UNCHANGED <<window, window_progress, literal_begin, recent, commands, next,
                 left, output, before>>

Next ==
  \/ DeflateStart \/ DeflateMatch \/ DeflateByte \/ DeflateEnd
  \/ InflateLiteral \/ InflateMatch \/ InflateCopy \/ InflateCopied \/ InflateEnd

Spec == Init /\ [][Next]_vars

-----------------------------------------------------------------------------
\* What has been inflated of the current chunk.
Inflated == SubSeq(output, before + 1, Len(output))

\* Types, and the bounds of the deflater's places.
TypeOK ==
  /\ window \in Seq(Bytes) /\ output \in Seq(Bytes)
  /\ recent \in [Slots -> Nat]
  /\ window_progress \in Nat /\ literal_begin \in 0..Len(window)
  /\ pc \in {"idle", "deflating", "inflating", "copying", "failed"}
  /\ next \in Nat \ {0} /\ left \in Nat /\ chunks \in 0..MaxChunks
  /\ before \in 0..Len(output)

\* Inflating a chunk gives the bytes it was deflated from, whatever the table
\* remembers of earlier chunks, whichever indexes share a slot, and whether or
\* not a match overlaps the bytes it appends.
RoundTrip ==
  /\ pc \in {"inflating", "copying"} =>
       /\ Len(Inflated) <= Len(window)
       /\ Inflated = SubSeq(window, 1, Len(Inflated))
  /\ pc = "idle" => Inflated = window

\* common.h:32: "Individual chunks are independent from each other."  No match
\* reaches behind the chunk it is in, and none is refused.
ChunksAreIndependent ==
  /\ pc = "copying" => commands[next].distance <= Len(Inflated)
  /\ pc # "failed"

\* The deflater's places stay inside its window, and what it makes of a window is
\* inflated to that window.
WindowsComeBack == TypeOK /\ RoundTrip
=============================================================================
