--------------------------- MODULE DzipCodecProofs ---------------------------
(***************************************************************************)
(* Proofs about DzipCodec: a chunk inflates to its window, for windows of  *)
(* any bytes and lengths, every hash of an index, and every size.          *)
(***************************************************************************)
EXTENDS DzipCodec, SequenceLemmas

Command ==
  [cmd : {"literal"}, length : Nat, bytes : Seq(Bytes), at : Nat]
    \cup [cmd : {"match"}, length : Nat, distance : Nat, at : Nat]

\* Where the i-th of some commands ends; the first begins where the "0th" ends.
EndOf(cs, i) == IF i = 0 THEN 0 ELSE cs[i].at + cs[i].length

\* A command stands for its own part of window w: a literal has its bytes, and
\* a match points back to equal ones in the same window.
StandsFor(w, c) ==
  /\ c.length > 0 /\ c.at + c.length <= Len(w)
  /\ c.cmd = "literal" => c.bytes = SubSeq(w, c.at + 1, c.at + c.length)
  /\ c.cmd = "match" =>
       /\ c.distance \in 1..c.at
       /\ \A k \in c.at + 1..c.at + c.length : w[k] = w[k - c.distance]

\* Each command begins where the one before it ends.
Follow(w, cs) ==
  \A i \in 1..Len(cs) : StandsFor(w, cs[i]) /\ cs[i].at = EndOf(cs, i - 1)

\* The deflater: what is before literal_begin is in commands.
Deflated ==
  /\ pc = "deflating" =>
       /\ EndOf(commands, Len(commands)) = literal_begin
       /\ literal_begin <= window_progress /\ Len(output) = before
  /\ pc \in {"inflating", "copying"} => EndOf(commands, Len(commands)) = Len(window)

\* The inflater: what it has appended are the first n bytes of the window.
InflatedUpTo(n) ==
  Len(output) = before + n /\ \A k \in 1..n : output[before + k] = window[k]

InStep ==
  /\ pc = "idle" => InflatedUpTo(Len(window))
  /\ pc = "inflating" =>
       next \in 1..Len(commands) + 1 /\ InflatedUpTo(EndOf(commands, next - 1))
  /\ pc = "copying" =>
       /\ next \in 1..Len(commands) /\ commands[next].cmd = "match"
       /\ left <= commands[next].length
       /\ InflatedUpTo(EndOf(commands, next) - left)

CodecInv ==
  /\ TypeOK /\ commands \in Seq(Command) /\ Follow(window, commands)
  /\ Deflated /\ InStep
  /\ pc # "failed" /\ (pc # "idle" => chunks < MaxChunks)

-----------------------------------------------------------------------------
\* check_match finds how long the window goes on like it did before.
LEMMA MatchIsEqual ==
  ASSUME TypeOK, window_progress <= Len(window), NEW d \in 1..window_progress
  PROVE  /\ MatchLength(d) \in 0..(Len(window) - window_progress)
         /\ \A i \in 1..MatchLength(d) :
              window[window_progress + i] = window[window_progress + i - d]
<1> DEFINE M == Len(window) - window_progress
           Same(i) == window[window_progress + i] = window[window_progress + i - d]
           T == {m \in 0..M : m < M => window[window_progress + m + 1]
                                         # window[window_progress + m + 1 - d]}
<1>1. window_progress \in Nat /\ Len(window) \in Nat /\ M \in Nat
  BY LenProperties DEF TypeOK
<1>2. T \subseteq Nat /\ M \in T
  BY <1>1
<1>3. PICK n \in T : \A m \in T : n <= m
  BY <1>2, LeastElement
<1>4. ASSUME NEW i \in 1..n PROVE Same(i)
  <2>1. i - 1 \in 0..M /\ i - 1 < n /\ i - 1 < M
    BY <1>1, <1>3
  <2>2. i - 1 \notin T
    BY <1>2, <1>3, <2>1
  <2>3. window[window_progress + (i - 1) + 1] = window[window_progress + (i - 1) + 1 - d]
    BY <2>1, <2>2
  <2>4. /\ window_progress + (i - 1) + 1 = window_progress + i
        /\ window_progress + (i - 1) + 1 - d = window_progress + i - d
    BY <1>1, <2>1
  <2>5. QED  BY <2>3, <2>4
<1>5. \E m \in 0..(Len(window) - window_progress) :
        /\ \A i \in 1..m : window[window_progress + i] = window[window_progress + i - d]
        /\ m < Len(window) - window_progress =>
             window[window_progress + m + 1] # window[window_progress + m + 1 - d]
  BY <1>3, <1>4
<1>6. QED  BY <1>5 DEF MatchLength

\* The bytes of an index have a slot.
LEMMA SlotTyped ==
  ASSUME TypeOK, InLoop
  PROVE  Slot \in Slots
<1>1. /\ window \in Seq(Bytes) /\ Len(window) \in Nat /\ window_progress \in Nat
      /\ IndexSize \in Nat /\ window_progress + IndexSize < Len(window)
  BY CodecAssumption, LenProperties DEF TypeOK, InLoop
<1>2. /\ SubSeq(window, window_progress + 1, window_progress + IndexSize) \in Seq(Bytes)
      /\ Len(SubSeq(window, window_progress + 1, window_progress + IndexSize)) = IndexSize
  <2>1. /\ window_progress + IndexSize \in Nat
        /\ window_progress + IndexSize <= Len(window)
        /\ window_progress <= window_progress + IndexSize
        /\ (window_progress + IndexSize) - window_progress = IndexSize
    BY <1>1
  <2>2. QED  BY <1>1, <2>1, Piece
<1>3. SubSeq(window, window_progress + 1, window_progress + IndexSize) \in [1..IndexSize -> Bytes]
  BY <1>2, LenProperties
<1>4. QED  BY <1>3, CodecAssumption DEF Slot, Region

\* setup_match: what is found lies behind in the window, and goes on alike.
LEMMA FoundIsEqual ==
  ASSUME TypeOK, InLoop
  PROVE  /\ Found \in 0..(Len(window) - window_progress)
         /\ Found > 0 =>
              /\ window_progress - recent[Slot] \in 1..window_progress
              /\ \A i \in 1..Found : window[window_progress + i]
                   = window[window_progress + i - (window_progress - recent[Slot])]
<1>1. /\ window_progress \in Nat /\ Len(window) \in Nat /\ recent[Slot] \in Nat
      /\ window_progress < Len(window)
  BY SlotTyped, CodecAssumption, LenProperties DEF TypeOK, InLoop
<1>2. CASE recent[Slot] >= window_progress
  BY <1>1, <1>2 DEF Found
<1>3. CASE ~(recent[Slot] >= window_progress)
  <2>1. window_progress - recent[Slot] \in 1..window_progress
    BY <1>1, <1>3
  <2>2. Found = MatchLength(window_progress - recent[Slot])
    BY <1>3 DEF Found
  <2>3. QED  BY <1>1, <2>1, <2>2, MatchIsEqual, SMTT(30)
<1>4. QED  BY <1>2, <1>3

\* A command that begins where the last one ends may follow it.
LEMMA OneMoreFollows ==
  ASSUME NEW w, NEW cs \in Seq(Command), Follow(w, cs),
         NEW c \in Command, StandsFor(w, c), c.at = EndOf(cs, Len(cs))
  PROVE  /\ Append(cs, c) \in Seq(Command) /\ Follow(w, Append(cs, c))
         /\ EndOf(Append(cs, c), Len(Append(cs, c))) = c.at + c.length
<1> DEFINE ds == Append(cs, c)
<1>1. /\ ds \in Seq(Command) /\ Len(ds) = Len(cs) + 1 /\ Len(cs) \in Nat
      /\ \A i \in 1..Len(cs) : ds[i] = cs[i]
      /\ ds[Len(cs) + 1] = c
  BY AppendProperties, LenProperties
<1> HIDE DEF ds
<1>2. \A i \in 0..Len(cs) : EndOf(ds, i) = EndOf(cs, i)
  BY <1>1 DEF EndOf
<1>3. ASSUME NEW i \in 1..Len(ds) PROVE StandsFor(w, ds[i]) /\ ds[i].at = EndOf(ds, i - 1)
  <2>1. CASE i <= Len(cs)
    <3>1. i \in 1..Len(cs) /\ i - 1 \in 0..Len(cs)
      BY <1>1, <2>1
    <3>2. QED  BY <1>1, <1>2, <3>1 DEF Follow
  <2>2. CASE i = Len(cs) + 1
    <3>1. i - 1 = Len(cs) /\ Len(cs) \in 0..Len(cs)
      BY <1>1, <2>2
    <3>2. QED  BY <1>1, <1>2, <2>2, <3>1
  <2>3. QED  BY <1>1, <2>1, <2>2
<1>4. EndOf(ds, Len(ds)) = c.at + c.length
  BY <1>1 DEF EndOf
<1>5. QED  BY <1>1, <1>3, <1>4 DEF Follow, ds

\* write_literal: what lies between the last command and a place is added.
LEMMA LiteralFollows ==
  ASSUME TypeOK, commands \in Seq(Command), Follow(window, commands),
         EndOf(commands, Len(commands)) = literal_begin,
         NEW place \in Nat, literal_begin <= place, place <= Len(window)
  PROVE  /\ commands \o Literal(place) \in Seq(Command)
         /\ Follow(window, commands \o Literal(place))
         /\ EndOf(commands \o Literal(place), Len(commands \o Literal(place))) = place
<1>1. window \in Seq(Bytes) /\ Len(window) \in Nat /\ literal_begin \in Nat
  BY LenProperties DEF TypeOK
<1>2. CASE literal_begin < place
  <2> DEFINE c == [cmd |-> "literal", length |-> place - literal_begin,
                   bytes |-> Region(literal_begin, place), at |-> literal_begin]
  <2>1. Literal(place) = <<c>>
    BY <1>2 DEF Literal
  <2>2. Region(literal_begin, place) \in Seq(Bytes)
    BY <1>1, Piece DEF Region
  <2>3. place - literal_begin \in Nat /\ place - literal_begin > 0
        /\ literal_begin + (place - literal_begin) = place
    BY <1>1, <1>2
  <2>4. c \in Command
    BY <1>1, <2>2, <2>3 DEF Command
  <2>5. StandsFor(window, c)
    BY <1>1, <2>3 DEF StandsFor, Region
  <2>6. c.at = literal_begin /\ c.at + c.length = place
    BY <2>3
  <2> HIDE DEF c
  <2>7. commands \o <<c>> = Append(commands, c)
    BY <2>4, AppendIsConcat
  <2>8. QED  BY <2>1, <2>4, <2>5, <2>6, <2>7, OneMoreFollows
<1>3. CASE literal_begin = place
  <2>1. Literal(place) = <<>>
    BY <1>1, <1>3 DEF Literal
  <2>2. commands \o Literal(place) = commands
    BY <2>1, ConcatEmptySeq
  <2>3. QED  BY <1>3, <2>2
<1>4. QED  BY <1>1, <1>2, <1>3

-----------------------------------------------------------------------------
\* The deflater's steps.
LEMMA StartStep == CodecInv /\ DeflateStart => CodecInv'
<1> SUFFICES ASSUME CodecInv, DeflateStart PROVE CodecInv'
  OBVIOUS
<1>1. /\ window' \in Seq(Bytes) /\ commands' = <<>> /\ pc' = "deflating"
      /\ window_progress' = FirstPlace /\ literal_begin' = 0 /\ before' = Len(output)
      /\ UNCHANGED <<recent, next, left, output, chunks>> /\ chunks < MaxChunks
  BY CodecAssumption DEF DeflateStart
<1>2. Len(window') \in Nat /\ Len(output) \in Nat /\ FirstPlace \in Nat
      /\ <<>> \in Seq(Command) /\ Len(<<>>) = 0
  BY <1>1, CodecAssumption, LenProperties, EmptySeq DEF CodecInv, TypeOK
<1>3. TypeOK'
  BY <1>1, <1>2 DEF CodecInv, TypeOK
<1>4. Follow(window', commands') /\ Deflated' /\ InStep'
  BY <1>1, <1>2 DEF Follow, Deflated, InStep, EndOf
<1>5. QED  BY <1>1, <1>2, <1>3, <1>4 DEF CodecInv

\* A match is preceded by the literal that leads up to it, and is equal to what it
\* points back to.
LEMMA MatchStep == CodecInv /\ DeflateMatch => CodecInv'
<1> SUFFICES ASSUME CodecInv, DeflateMatch PROVE CodecInv'
  OBVIOUS
<1>1. /\ InLoop /\ Found > MinMatch /\ pc = "deflating"
      /\ commands' = Append(commands \o Literal(window_progress), Match(Found))
      /\ window_progress' = window_progress + Found
      /\ literal_begin' = window_progress + Found
      /\ recent' = [recent EXCEPT ![Slot] = window_progress]
      /\ UNCHANGED <<window, pc, next, left, output, before, chunks>>
  BY DEF DeflateMatch, InLoop
<1>2. /\ TypeOK /\ commands \in Seq(Command) /\ Follow(window, commands) /\ InStep
      /\ EndOf(commands, Len(commands)) = literal_begin
      /\ literal_begin <= window_progress /\ Len(output) = before
  BY <1>1 DEF CodecInv, Deflated
<1>3. /\ window_progress \in Nat /\ Len(window) \in Nat /\ MinMatch \in Nat
      /\ window_progress <= Len(window) /\ recent \in [Slots -> Nat] /\ Slot \in Slots
  BY <1>1, <1>2, SlotTyped, CodecAssumption, LenProperties DEF TypeOK, InLoop
<1>4. /\ Found \in Nat /\ Found > 0 /\ window_progress + Found <= Len(window)
      /\ window_progress - recent[Slot] \in 1..window_progress
      /\ \A i \in 1..Found : window[window_progress + i]
           = window[window_progress + i - (window_progress - recent[Slot])]
  BY <1>1, <1>2, <1>3, FoundIsEqual
<1> DEFINE n == Found
           d == window_progress - recent[Slot]
           c == Match(n)
<1>5. c = [cmd |-> "match", length |-> n, distance |-> d, at |-> window_progress]
  BY DEF Match
<1> HIDE DEF n, c, d
<1>6. c \in Command /\ c.at = window_progress /\ c.length = n /\ c.cmd = "match"
      /\ c.distance = d
  BY <1>3, <1>4, <1>5 DEF Command, n, d
<1>7. StandsFor(window, c)
  <2>1. ASSUME NEW k \in window_progress + 1..window_progress + n
        PROVE window[k] = window[k - d]
    <3>1. k - window_progress \in 1..Found /\ window_progress + (k - window_progress) = k
      BY <1>3, <1>4 DEF n
    <3>2. window[window_progress + (k - window_progress)]
            = window[window_progress + (k - window_progress) - d]
      BY <1>4, <3>1 DEF d
    <3>3. window_progress + (k - window_progress) - d = k - d
      BY <3>1, <1>3, <1>4 DEF d
    <3>4. QED  BY <3>1, <3>2, <3>3
  <2>2. QED  BY <1>4, <1>6, <2>1 DEF StandsFor, n, d
<1> DEFINE cs == commands \o Literal(window_progress)
<1>8. /\ cs \in Seq(Command) /\ Follow(window, cs)
      /\ EndOf(cs, Len(cs)) = window_progress
  BY <1>2, <1>3, LiteralFollows
<1>9. commands' = Append(cs, c)
  BY <1>1 DEF c, n
<1> HIDE DEF cs
<1>10. /\ commands' \in Seq(Command) /\ Follow(window, commands')
       /\ EndOf(commands', Len(commands')) = window_progress + n
  BY <1>6, <1>7, <1>8, <1>9, OneMoreFollows
<1>11. TypeOK'
  BY <1>1, <1>2, <1>3, <1>4 DEF TypeOK
<1>12. Deflated' /\ InStep'
  BY <1>1, <1>2, <1>3, <1>4, <1>10 DEF Deflated, InStep, n
<1>13. QED  BY <1>1, <1>10, <1>11, <1>12 DEF CodecInv

\* A byte that no match begins at waits for the next literal.
LEMMA ByteStep == CodecInv /\ DeflateByte => CodecInv'
<1> SUFFICES ASSUME CodecInv, DeflateByte PROVE CodecInv'
  OBVIOUS
<1>1. /\ InLoop /\ pc = "deflating"
      /\ window_progress' = window_progress + 1
      /\ recent' = [recent EXCEPT ![Slot] = window_progress]
      /\ UNCHANGED <<window, literal_begin, commands, pc, next, left, output, before, chunks>>
  BY DEF DeflateByte, InLoop
<1>2. window_progress \in Nat /\ recent \in [Slots -> Nat] /\ Slot \in Slots
      /\ literal_begin \in Int
  BY <1>1, SlotTyped, LenProperties DEF CodecInv, TypeOK
<1>3. TypeOK'
  BY <1>1, <1>2 DEF CodecInv, TypeOK
<1>4. Deflated' /\ InStep'
  BY <1>1, <1>2 DEF CodecInv, Deflated, InStep
<1>5. QED  BY <1>1, <1>3, <1>4 DEF CodecInv

\* The last literal ends where the window ends.
LEMMA EndStep == CodecInv /\ DeflateEnd => CodecInv'
<1> SUFFICES ASSUME CodecInv, DeflateEnd PROVE CodecInv'
  OBVIOUS
<1>1. /\ pc = "deflating" /\ commands' = commands \o Literal(Len(window))
      /\ window_progress' = Len(window) /\ literal_begin' = Len(window)
      /\ pc' = "inflating" /\ next' = 1
      /\ UNCHANGED <<window, recent, left, output, before, chunks>>
  BY DEF DeflateEnd
<1>2. /\ TypeOK /\ commands \in Seq(Command) /\ Follow(window, commands)
      /\ EndOf(commands, Len(commands)) = literal_begin /\ Len(output) = before
      /\ Len(window) \in Nat /\ literal_begin <= Len(window)
      /\ literal_begin \in Nat /\ before \in Nat
  BY <1>1, LenProperties DEF CodecInv, Deflated, TypeOK
<1>3. /\ commands' \in Seq(Command) /\ Follow(window, commands')
      /\ EndOf(commands', Len(commands')) = Len(window)
  BY <1>1, <1>2, LiteralFollows
<1>4. TypeOK'
  BY <1>1, <1>2 DEF TypeOK
<1>5. Deflated'
  BY <1>1, <1>3 DEF Deflated
<1>6. InStep'
  <2>1. Len(commands') \in Nat
    BY <1>3, LenProperties
  <2>2. next' - 1 = 0 /\ EndOf(commands', 0) = 0 /\ next' \in 1..Len(commands') + 1
    BY <1>1, <2>1 DEF EndOf
  <2>3. Len(output') = before' + 0
    BY <1>1, <1>2
  <2>4. QED  BY <1>1, <2>2, <2>3 DEF InStep, InflatedUpTo
<1>7. QED  BY <1>1, <1>3, <1>4, <1>5, <1>6 DEF CodecInv

-----------------------------------------------------------------------------
\* The inflater's steps.  Where it is, in the window and in its output:
LEMMA AtCommand ==
  ASSUME CodecInv, pc \in {"inflating", "copying"}, next <= Len(commands)
  PROVE  /\ next \in 1..Len(commands) /\ commands[next] \in Command
         /\ StandsFor(window, commands[next])
         /\ commands[next].at = EndOf(commands, next - 1)
         /\ commands[next].at \in Nat /\ commands[next].length \in Nat
         /\ EndOf(commands, next) = commands[next].at + commands[next].length
         /\ commands[next].cmd \in {"literal", "match"}
<1>1. Len(commands) \in Nat /\ next \in 1..Len(commands)
  BY LenProperties DEF CodecInv, TypeOK
<1>2. commands[next] \in Command
  BY <1>1, ElementOfSeq DEF CodecInv
<1>3. StandsFor(window, commands[next]) /\ commands[next].at = EndOf(commands, next - 1)
  BY <1>1 DEF CodecInv, Follow
<1>4. EndOf(commands, next) = commands[next].at + commands[next].length
  BY <1>1 DEF EndOf
<1>5. QED  BY <1>1, <1>2, <1>3, <1>4 DEF Command

\* A literal brings the next bytes of the window.
LEMMA LiteralStep == CodecInv /\ InflateLiteral => CodecInv'
<1> SUFFICES ASSUME CodecInv, InflateLiteral PROVE CodecInv'
  OBVIOUS
<1> DEFINE c == commands[next]
<1>1. /\ pc = "inflating" /\ next <= Len(commands) /\ c.cmd = "literal"
      /\ UNCHANGED <<window, window_progress, literal_begin, recent, commands, left,
                     before, chunks>>
  BY DEF InflateLiteral
<1>2. /\ next \in 1..Len(commands) /\ StandsFor(window, c)
      /\ c.at = EndOf(commands, next - 1) /\ c.at \in Nat /\ c.length \in Nat
      /\ EndOf(commands, next) = c.at + c.length
  BY <1>1, AtCommand
<1>3. /\ output' = output \o c.bytes /\ next' = next + 1 /\ pc' = pc
      /\ c.length > 0 /\ c.at + c.length <= Len(window)
      /\ c.bytes = SubSeq(window, c.at + 1, c.at + c.length)
  <2>1. /\ c.length > 0 /\ c.at + c.length <= Len(window)
        /\ c.bytes = SubSeq(window, c.at + 1, c.at + c.length)
    BY <1>1, <1>2 DEF StandsFor
  <2>2. ~(c.length = 0)
    BY <1>2, <2>1
  <2>3. QED  BY <2>1, <2>2 DEF InflateLiteral
<1>4. /\ window \in Seq(Bytes) /\ output \in Seq(Bytes) /\ Len(window) \in Nat
      /\ Len(output) \in Nat /\ before \in Nat /\ before <= Len(output)
      /\ Len(output) = before + c.at /\ Len(commands) \in Nat
      /\ \A k \in 1..c.at : output[before + k] = window[k]
  BY <1>1, <1>2, LenProperties DEF CodecInv, TypeOK, InStep, InflatedUpTo
<1> HIDE DEF c
<1> DEFINE at == c.at
           length == c.length
           bytes == c.bytes
<1>range. at \in Nat /\ length \in Nat /\ length > 0 /\ at + length <= Len(window)
  BY <1>2, <1>3
<1>prefix. /\ window \in Seq(Bytes) /\ output \in Seq(Bytes) /\ Len(output) \in Nat
      /\ before \in Nat /\ Len(output) = before + at
      /\ \A k \in 1..at : output[before + k] = window[k]
  BY <1>4
<1> HIDE DEF at, length, bytes
<1>5. /\ bytes \in Seq(Bytes) /\ Len(bytes) = length
      /\ \A i \in 1..length : bytes[i] = window[at + i]
  <2>1. bytes = SubSeq(window, at + 1, at + length)
    BY <1>3 DEF at, length, bytes
  <2>2. at + length \in Nat /\ at <= at + length /\ at + length - at = length
    BY <1>range
  <2>3. QED  BY <1>range, <1>prefix, <2>1, <2>2, Piece
<1>6. /\ output' \in Seq(Bytes) /\ Len(output') = before + (at + length)
      /\ \A i \in 1..Len(output') : output'[i] =
           IF i <= Len(output) THEN output[i] ELSE bytes[i - Len(output)]
  <2>1. output' = output \o bytes
    BY <1>3 DEF bytes
  <2>2. Len(output) + Len(bytes) = before + (at + length)
    BY <1>5, <1>range, <1>prefix
  <2>3. output \in Seq(Bytes) /\ bytes \in Seq(Bytes)
    BY <1>5, <1>prefix
  <2>4. /\ output \o bytes \in Seq(Bytes)
        /\ Len(output \o bytes) = Len(output) + Len(bytes)
        /\ \A i \in 1..Len(output) + Len(bytes) : (output \o bytes)[i] =
             IF i <= Len(output) THEN output[i] ELSE bytes[i - Len(output)]
    BY <2>3, ConcatProperties
  <2>5. QED  BY <2>1, <2>2, <2>4
<1>7. \A k \in 1..at + length : output'[before + k] = window[k]
  <2> TAKE k \in 1..at + length
  <2>0. /\ k \in Int /\ before + k \in 1..Len(output')
    BY <1>6, <1>range, <1>prefix
  <2>1. CASE k <= at
    BY <1>6, <1>range, <1>prefix, <2>0, <2>1
  <2>2. CASE k > at
    <3>1. before + k - Len(output) = k - at /\ k - at \in 1..length
          /\ ~(before + k <= Len(output)) /\ at + (k - at) = k
      BY <1>range, <1>prefix, <2>0, <2>2
    <3>2. output'[before + k] = bytes[before + k - Len(output)]
      <4> DEFINE i == before + k
      <4>1. i \in 1..Len(output') /\ ~(i <= Len(output))
        BY <2>0, <3>1
      <4> HIDE DEF i
      <4>2. output'[i] = bytes[i - Len(output)]
        BY <1>6, <4>1
      <4>3. QED  BY <1>prefix, <2>0, <4>2 DEF i
    <3>3. QED  BY <1>5, <3>1, <3>2
  <2>3. QED  BY <1>range, <2>0, <2>1, <2>2
<1>8. TypeOK'
  <2>1. before <= Len(output')
    BY <1>6, <1>range, <1>prefix
  <2>2. next' \in Nat \ {0}
    BY <1>3 DEF CodecInv, TypeOK
  <2>3. QED  BY <1>1, <1>3, <1>4, <1>6, <2>1, <2>2 DEF CodecInv, TypeOK
<1>9. Deflated'
  BY <1>1, <1>3 DEF CodecInv, Deflated
<1>10. InStep'
  <2>1. next' - 1 = next /\ next' \in 1..Len(commands) + 1
    BY <1>2, <1>3, <1>4
  <2>2. EndOf(commands', next' - 1) = at + length
    BY <1>1, <1>2, <2>1 DEF at, length
  <2>3. Len(output') = before' + (at + length)
    BY <1>1, <1>6
  <2>4. QED  BY <1>1, <1>3, <1>7, <2>1, <2>2, <2>3 DEF InStep, InflatedUpTo
<1>11. QED  BY <1>1, <1>3, <1>8, <1>9, <1>10 DEF CodecInv

\* A match is not refused: it points back into its own chunk.
LEMMA MatchBegins == CodecInv /\ InflateMatch => CodecInv'
<1> SUFFICES ASSUME CodecInv, InflateMatch PROVE CodecInv'
  OBVIOUS
<1> DEFINE c == commands[next]
<1>1. /\ pc = "inflating" /\ next <= Len(commands) /\ c.cmd = "match"
      /\ UNCHANGED <<window, window_progress, literal_begin, recent, commands, next,
                     output, before, chunks>>
  BY DEF InflateMatch
<1>2. /\ next \in 1..Len(commands) /\ StandsFor(window, c)
      /\ c.at = EndOf(commands, next - 1) /\ c.at \in Nat /\ c.length \in Nat
      /\ EndOf(commands, next) = c.at + c.length
  BY <1>1, AtCommand
<1>3. /\ c.length > 0 /\ c.distance \in 1..c.at
      /\ Len(output) = before + c.at /\ before \in Nat
      /\ \A k \in 1..c.at : output[before + k] = window[k]
  BY <1>1, <1>2, LenProperties DEF StandsFor, CodecInv, TypeOK, InStep, InflatedUpTo
<1>4. c.distance \in 1..Len(output) /\ c.length # 0
  BY <1>2, <1>3
<1>5. pc' = "copying" /\ left' = c.length
  BY <1>4 DEF InflateMatch
<1> HIDE DEF c
<1>6. TypeOK'
  BY <1>1, <1>2, <1>5 DEF CodecInv, TypeOK
<1>7. Deflated'
  BY <1>1, <1>5 DEF CodecInv, Deflated
<1>8. InStep'
  <2>1. EndOf(commands, next) - left' = c.at
    BY <1>2, <1>5
  <2>2. QED  BY <1>1, <1>2, <1>3, <1>5, <2>1 DEF InStep, InflatedUpTo, c
<1>9. QED  BY <1>1, <1>5, <1>6, <1>7, <1>8 DEF CodecInv

\* A match may overlap what it appends: byte by byte, it is copied from what has
\* been inflated before.
LEMMA CopyStep == CodecInv /\ InflateCopy => CodecInv'
<1> SUFFICES ASSUME CodecInv, InflateCopy PROVE CodecInv'
  OBVIOUS
<1> DEFINE c == commands[next]
<1>1. /\ pc = "copying" /\ left > 0 /\ left' = left - 1
      /\ output' = Append(output, output[Len(output) + 1 - c.distance])
      /\ UNCHANGED <<window, window_progress, literal_begin, recent, commands, pc,
                     next, before, chunks>>
  BY DEF InflateCopy
<1>2. /\ next \in 1..Len(commands) /\ c.cmd = "match" /\ left <= c.length
  BY <1>1 DEF CodecInv, InStep
<1>3. /\ StandsFor(window, c) /\ c.at \in Nat /\ c.length \in Nat
      /\ EndOf(commands, next) = c.at + c.length
  BY <1>1, <1>2, AtCommand, LenProperties DEF CodecInv
<1>4. /\ c.at + c.length <= Len(window) /\ c.distance \in 1..c.at
      /\ \A k \in c.at + 1..c.at + c.length : window[k] = window[k - c.distance]
  BY <1>2, <1>3 DEF StandsFor
<1> DEFINE at == c.at
           length == c.length
           distance == c.distance
           n == at + length - left
<1>5. /\ window \in Seq(Bytes) /\ output \in Seq(Bytes) /\ Len(window) \in Nat
      /\ Len(output) \in Nat /\ before \in Nat /\ left \in Nat
      /\ InflatedUpTo(n)
  BY <1>1, <1>3, LenProperties, SMTT(30) DEF CodecInv, TypeOK, InStep
<1>range. /\ at \in Nat /\ length \in Nat /\ at + length <= Len(window)
      /\ distance \in 1..at /\ left <= length
      /\ \A k \in at + 1..at + length : window[k] = window[k - distance]
  BY <1>2, <1>3, <1>4
<1>prefix. Len(output) = before + n /\ \A k \in 1..n : output[before + k] = window[k]
  BY <1>5 DEF InflatedUpTo
<1> HIDE DEF c, at, length, distance
<1>6. /\ n \in Nat /\ n + 1 \in at + 1..at + length
      /\ n + 1 - distance \in 1..n /\ n + 1 \in 1..Len(window)
  BY <1>1, <1>5, <1>range
<1>7. at + length - left' = n + 1
  BY <1>1, <1>5, <1>range
<1> HIDE DEF n
<1>8. output[Len(output) + 1 - distance] = window[n + 1]
  <2>1. Len(output) + 1 - distance = before + (n + 1 - distance)
    BY <1>5, <1>6, <1>range, <1>prefix
  <2>2. output[before + (n + 1 - distance)] = window[n + 1 - distance]
    BY <1>6, <1>prefix
  <2>3. QED  BY <1>6, <1>range, <2>1, <2>2
<1>9. window[n + 1] \in Bytes
  BY <1>5, <1>6, ElementOfSeq
<1>10. /\ output' \in Seq(Bytes) /\ Len(output') = before + (n + 1)
       /\ \A i \in 1..Len(output) : output'[i] = output[i]
       /\ output'[Len(output) + 1] = window[n + 1]
  <2>1. output' = Append(output, window[n + 1])
    BY <1>1, <1>8 DEF distance
  <2>2. Len(output) + 1 = before + (n + 1)
    BY <1>5, <1>6, <1>prefix
  <2>3. QED  BY <1>5, <1>9, <2>1, <2>2, AppendProperties
<1>11. \A k \in 1..n + 1 : output'[before + k] = window[k]
  <2> TAKE k \in 1..n + 1
  <2>1. CASE k <= n
    BY <1>5, <1>6, <1>10, <1>prefix, <2>1
  <2>2. CASE k = n + 1
    <3>1. Len(output) + 1 = before + k
      BY <1>5, <1>6, <1>prefix, <2>2
    <3>2. QED  BY <1>10, <2>2, <3>1
  <2>3. QED  BY <1>6, <2>1, <2>2
<1>12. TypeOK'
  BY <1>1, <1>5, <1>6, <1>10 DEF CodecInv, TypeOK
<1>13. Deflated'
  BY <1>1 DEF CodecInv, Deflated
<1>14. InStep'
  <2>1. left' <= c.length /\ EndOf(commands', next') - left' = n + 1
    BY <1>1, <1>3, <1>5, <1>7, <1>range DEF at, length
  <2>2. Len(output') = before' + (n + 1)
    BY <1>1, <1>10
  <2>3. QED  BY <1>1, <1>2, <1>11, <2>1, <2>2 DEF InStep, InflatedUpTo, c
<1>15. QED  BY <1>1, <1>12, <1>13, <1>14 DEF CodecInv

\* A match has brought its part of the window.
LEMMA CopiedStep == CodecInv /\ InflateCopied => CodecInv'
<1> SUFFICES ASSUME CodecInv, InflateCopied PROVE CodecInv'
  OBVIOUS
<1>1. /\ pc = "copying" /\ left = 0 /\ pc' = "inflating" /\ next' = next + 1
      /\ UNCHANGED <<window, window_progress, literal_begin, recent, commands, left,
                     output, before, chunks>>
  BY DEF InflateCopied
<1>2. next \in 1..Len(commands) /\ Len(commands) \in Nat
  BY <1>1, LenProperties DEF CodecInv, InStep
<1>3. EndOf(commands, next) \in Nat
  BY <1>1, <1>2, AtCommand
<1>4. next' - 1 = next /\ next' \in 1..Len(commands) + 1 /\ EndOf(commands, next) - left = EndOf(commands, next)
  BY <1>1, <1>2, <1>3
<1>5. TypeOK'
  BY <1>1, <1>2 DEF CodecInv, TypeOK
<1>6. Deflated' /\ InStep'
  BY <1>1, <1>4 DEF CodecInv, Deflated, InStep, InflatedUpTo
<1>7. QED  BY <1>1, <1>5, <1>6 DEF CodecInv

\* After the last command the window is whole.
LEMMA InflateEndStep == CodecInv /\ InflateEnd => CodecInv'
<1> SUFFICES ASSUME CodecInv, InflateEnd PROVE CodecInv'
  OBVIOUS
<1>1. /\ pc = "inflating" /\ next > Len(commands) /\ pc' = "idle" /\ chunks' = chunks + 1
      /\ UNCHANGED <<window, window_progress, literal_begin, recent, commands, next,
                     left, output, before>>
  BY DEF InflateEnd
<1>2. Len(commands) \in Nat /\ next \in 1..Len(commands) + 1
      /\ chunks \in 0..MaxChunks /\ chunks < MaxChunks /\ MaxChunks \in Nat
  BY <1>1, CodecAssumption, LenProperties DEF CodecInv, InStep, TypeOK
<1>3. next - 1 = Len(commands)
  BY <1>1, <1>2
<1>4. TypeOK'
  BY <1>1, <1>2 DEF CodecInv, TypeOK
<1>5. Deflated' /\ InStep'
  BY <1>1, <1>3 DEF CodecInv, Deflated, InStep, InflatedUpTo
<1>6. QED  BY <1>1, <1>4, <1>5 DEF CodecInv

-----------------------------------------------------------------------------
\* Every step of the codec keeps the inductive invariant.
LEMMA CodecInductive == CodecInv /\ [Next]_vars => CodecInv'
<1>1. CodecInv /\ UNCHANGED vars => CodecInv'
  BY DEF vars, CodecInv, TypeOK, Deflated, InStep, InflatedUpTo
<1>2. QED
  BY <1>1, StartStep, MatchStep, ByteStep, EndStep, LiteralStep, MatchBegins, CopyStep,
     CopiedStep, InflateEndStep DEF Next

\* The inductive invariant of the codec: the commands cover the window without
\* gap, each right for its place, and the inflater follows them.
THEOREM CodecInvariant == Spec => []CodecInv
<1>1. Init => CodecInv
  <2> SUFFICES ASSUME Init PROVE CodecInv
    OBVIOUS
  <2>1. /\ output \in Seq(Bytes) /\ Len(output) \in Nat /\ MaxChunks \in Nat
        /\ <<>> \in Seq(Bytes) /\ <<>> \in Seq(Command) /\ Len(<<>>) = 0
    BY CodecAssumption, LenProperties, EmptySeq DEF Init
  <2>2. TypeOK
    BY <2>1 DEF Init, TypeOK
  <2>3. Follow(window, commands) /\ Deflated /\ InStep
    BY <2>1 DEF Init, Follow, Deflated, InStep, InflatedUpTo
  <2>4. QED  BY <2>1, <2>2, <2>3 DEF Init, CodecInv
<1>2. QED  BY <1>1, CodecInductive, PTL DEF Spec

\* What has been inflated, as a piece of the output, is the beginning of the window.
LEMMA InflatedIsPrefix ==
  ASSUME CodecInv, NEW n \in 0..Len(window), InflatedUpTo(n)
  PROVE  Len(Inflated) = n /\ Inflated = SubSeq(window, 1, n)
<1>1. /\ window \in Seq(Bytes) /\ output \in Seq(Bytes) /\ before \in Nat
      /\ Len(window) \in Nat /\ Len(output) = before + n
      /\ \A k \in 1..n : output[before + k] = window[k]
  BY LenProperties DEF CodecInv, TypeOK, InflatedUpTo
<1>2. (\A i \in before + 1..before + n : output[i] \in Bytes)
      /\ (\A i \in 1..n : window[i] \in Bytes)
  BY <1>1, ElementOfSeq
<1> DEFINE s == SubSeq(output, before + 1, Len(output))
           t == SubSeq(window, 1, n)
<1>3. /\ s \in Seq(Bytes) /\ Len(s) = n /\ \A i \in 1..n : s[i] = output[before + i]
  BY <1>1, <1>2, SubSeqProperties, SMTT(30)
<1>4. /\ t \in Seq(Bytes) /\ Len(t) = n /\ \A i \in 1..n : t[i] = window[i]
  BY <1>1, <1>2, SubSeqProperties
<1> HIDE DEF s, t
<1>5. s = t
  BY <1>1, <1>3, <1>4, SeqEqual
<1>6. QED  BY <1>3, <1>5 DEF s, t, Inflated

\* Where the inflater is lies in the window.
LEMMA PlaceInWindow ==
  ASSUME CodecInv, pc \in {"inflating", "copying"}
  PROVE  \E n \in 0..Len(window) :
           /\ InflatedUpTo(n)
           /\ pc = "copying" => commands[next].at <= n
<1>1. Len(commands) \in Nat /\ Len(window) \in Nat
  BY LenProperties DEF CodecInv, TypeOK
<1>2. CASE pc = "copying"
  <2> DEFINE c == commands[next]
  <2>1. next \in 1..Len(commands) /\ left \in Nat /\ left <= c.length
        /\ InflatedUpTo(EndOf(commands, next) - left)
    BY <1>2 DEF CodecInv, InStep, TypeOK
  <2>2. EndOf(commands, next) = c.at + c.length /\ c.at \in Nat /\ c.length \in Nat
        /\ c.at + c.length <= Len(window)
    BY <1>2, <1>1, <2>1, AtCommand DEF StandsFor
  <2>3. EndOf(commands, next) - left \in 0..Len(window)
        /\ c.at <= EndOf(commands, next) - left
    BY <1>1, <2>1, <2>2
  <2>4. QED  BY <2>1, <2>3
<1>3. CASE pc = "inflating"
  <2>1. next \in 1..Len(commands) + 1 /\ InflatedUpTo(EndOf(commands, next - 1))
        /\ EndOf(commands, Len(commands)) = Len(window)
    BY <1>3 DEF CodecInv, InStep, Deflated
  <2>2. EndOf(commands, next - 1) \in 0..Len(window)
    <3>1. CASE next <= Len(commands)
      <4>1. /\ commands[next].at = EndOf(commands, next - 1) /\ commands[next].at \in Nat
            /\ commands[next].length \in Nat
            /\ commands[next].at + commands[next].length <= Len(window)
        BY <1>3, <3>1, AtCommand DEF StandsFor
      <4>2. QED  BY <1>1, <4>1
    <3>2. CASE next = Len(commands) + 1
      <4>1. next - 1 = Len(commands)
        BY <1>1, <3>2
      <4>2. QED  BY <1>1, <2>1, <4>1
    <3>3. QED  BY <1>1, <2>1, <3>1, <3>2
  <2>3. QED  BY <1>3, <2>1, <2>2
<1>4. QED  BY <1>2, <1>3

\* Inflating what was deflated gives the window back, whatever the table of the
\* deflater holds and the output begins with (DzipCodec!WindowsComeBack).
THEOREM RoundTrips == Spec => []WindowsComeBack
<1>1. CodecInv => WindowsComeBack
  <2> SUFFICES ASSUME CodecInv PROVE WindowsComeBack
    OBVIOUS
  <2>1. ASSUME pc \in {"inflating", "copying"}
        PROVE Len(Inflated) <= Len(window) /\ Inflated = SubSeq(window, 1, Len(Inflated))
    <3>1. PICK n \in 0..Len(window) : InflatedUpTo(n)
      BY <2>1, PlaceInWindow
    <3>2. QED  BY <3>1, InflatedIsPrefix
  <2>2. ASSUME pc = "idle" PROVE Inflated = window
    <3>1. Len(window) \in Nat /\ window \in Seq(Bytes) /\ InflatedUpTo(Len(window))
      BY <2>2, LenProperties DEF CodecInv, TypeOK, InStep
    <3>2. Inflated = SubSeq(window, 1, Len(window))
      BY <3>1, InflatedIsPrefix
    <3>3. QED  BY <3>1, <3>2, SubSeqFull
  <2>3. QED  BY <2>1, <2>2 DEF WindowsComeBack, RoundTrip, CodecInv
<1>2. QED  BY <1>1, CodecInvariant, PTL

\* No match reaches behind its own chunk, and the inflater refuses none
\* (DzipCodec!ChunksAreIndependent, common.h:32).
THEOREM ChunksIndependent == Spec => []ChunksAreIndependent
<1>1. CodecInv => ChunksAreIndependent
  <2> SUFFICES ASSUME CodecInv, pc = "copying"
               PROVE commands[next].distance <= Len(Inflated)
    BY DEF ChunksAreIndependent, CodecInv
  <2>1. PICK n \in 0..Len(window) : InflatedUpTo(n) /\ commands[next].at <= n
    BY PlaceInWindow
  <2>2. Len(Inflated) = n /\ n \in Nat
    BY <2>1, InflatedIsPrefix, LenProperties DEF CodecInv, TypeOK
  <2>3. next <= Len(commands) /\ commands[next].cmd = "match"
    BY LenProperties DEF CodecInv, InStep, TypeOK
  <2>4. commands[next].distance \in 1..commands[next].at /\ commands[next].at \in Nat
    BY <2>3, AtCommand DEF StandsFor
  <2>5. QED  BY <2>1, <2>2, <2>4
<1>2. QED  BY <1>1, CodecInvariant, PTL
=============================================================================
