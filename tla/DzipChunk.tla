------------------------------ MODULE DzipChunk ------------------------------
(***************************************************************************)
(* The chunks DzipCodec deflates and inflates, as bytes: what write_command *)
(* and the two writers above it (dzip/deflate/deflate.c) append for each   *)
(* command, and the part of dzip_inflate that reads them back              *)
(* (dzip/inflate/inflate.c).  A command's first byte holds its code, the   *)
(* extension bit and the low bits of its length; the rest of the length is *)
(* a vluint, and so is the distance of a match.                            *)
(***************************************************************************)
EXTENDS DzipCodec, Vluint

CONSTANT CompactMax   \* DZIP_ARG1_COMPACT_MAX, 32

ASSUME CommandAssumption == CompactMax \in Nat \ {0, 1}

CodeOf == [literal |-> 0, match |-> 1]   \* dzip_command, of DZIP_COMMAND_MAX
CommandMax == 4
ExtendBit == 4                           \* DZIP_ARG1_EXTEND_BIT
MetaSize == 8                            \* 1 << DZIP_META_BITS

\* Mutant: a length equal to the limit is thought to fit.
WriteCommand_Inclusive(cmd, arg) ==
  LET header == CodeOf[cmd] + MetaSize * (arg % CompactMax)
  IN  IF arg <= CompactMax THEN <<header>>
      ELSE <<header + ExtendBit>> \o VluintWrite(arg \div CompactMax)

WriteCommand(cmd, arg) ==
  LET header == CodeOf[cmd] + MetaSize * (arg % CompactMax)
  IN  IF arg < CompactMax THEN <<header>>
      ELSE <<header + ExtendBit>> \o VluintWrite(arg \div CompactMax)

\* write_literal and write_match.
Written(c) ==
  WriteCommand(c.cmd, c.length)
    \o IF c.cmd = "match" THEN VluintWrite(c.distance) ELSE c.bytes

Fatal == [ok |-> FALSE]

\* read_literal.
ReadLiteral(length, after) ==
  IF length = 0 \/ length > Len(after) THEN Fatal
  ELSE [ok |-> TRUE, rest |-> SubSeq(after, length + 1, Len(after)),
        command |-> [cmd |-> "literal", length |-> length,
                     bytes |-> SubSeq(after, 1, length)]]

\* read_match, up to the point where the distance is compared with the output.
ReadMatch(length, after) ==
  LET distance == VluintRead(after)
  IN  IF length = 0 \/ ~distance.ok \/ distance.result = 0 THEN Fatal
      ELSE [ok |-> TRUE, rest |-> distance.rest,
            command |-> [cmd |-> "match", length |-> length,
                         distance |-> distance.result]]

\* dzip_inflate from read_cmd to the next read_cmd, but for what it outputs.
ReadCommand(input) ==
  LET head   == input[1]
      after  == SubSeq(input, 2, Len(input))
      extend == (head \div ExtendBit) % 2 = 1
      higher == IF extend THEN VluintRead(after)
                ELSE [ok |-> TRUE, result |-> 0, rest |-> after]
      length == ((head \div MetaSize) % CompactMax) + CompactMax * higher.result
      code   == head % CommandMax
  IN  IF ~higher.ok \/ code \notin {CodeOf["literal"], CodeOf["match"]} THEN Fatal
      ELSE IF code = CodeOf["literal"] THEN ReadLiteral(length, higher.rest)
      ELSE ReadMatch(length, higher.rest)

-----------------------------------------------------------------------------
\* Encoded[i]: the bytes of the chunk from its i-th command to its end.
Encoded ==
  LET from[i \in 1..(Len(commands) + 1)] ==
        IF i > Len(commands) THEN <<>>
        ELSE Written(commands[i]) \o from[i + 1]
  IN  from

\* A command without the place it stands for, which the chunk does not hold.
Args(c) ==
  IF c.cmd = "match"
  THEN [cmd |-> c.cmd, length |-> c.length, distance |-> c.distance]
  ELSE [cmd |-> c.cmd, length |-> c.length, bytes |-> c.bytes]

AtCommand == pc = "inflating" /\ next <= Len(commands)

\* Every command the deflater writes is read back from the bytes of the chunk
\* with both its arguments, whatever they are, the ones that fill a digit or
\* the first byte included, and leaves the reader at the next command
\* (write_command and vluint_write against dzip_inflate and vluint_read).
CommandsAreReadBack ==
  AtCommand =>
    ReadCommand(Encoded[next])
      = [ok |-> TRUE, rest |-> Encoded[next + 1], command |-> Args(commands[next])]

\* A chunk that is cut short inside a command is noticed, at whatever byte of
\* its arguments or of its literal the cut falls.
CutCommandsAreFatal ==
  AtCommand =>
    LET whole == Written(commands[next])
    IN  \A n \in 1..(Len(whole) - 1) : ~ReadCommand(SubSeq(whole, 1, n)).ok

\* Both: a command is read back from its bytes if and only if all of them are there.
CommandsAreWhole == CommandsAreReadBack /\ CutCommandsAreFatal
=============================================================================
