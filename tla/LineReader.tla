----------------------------- MODULE LineReader -----------------------------
(***************************************************************************)
(* buffer_getline_fd (buffer_io/buffer_io.c), as its callers use it: with  *)
(* the default separator, nothing protected, and one call after another    *)
(* until one returns false.  A line is a part of the buffer; the next call *)
(* goes on after it, and moves what is left of the buffer down when it     *)
(* holds no other whole line.                                              *)
(***************************************************************************)
EXTENDS Integers, SequencesExt

CONSTANTS
  LineTexts,       \* what the descriptor may deliver
  Unset,           \* a byte of the buffer that nothing was stored in
  InitialSize,     \* 1000: the first size buffer_read asks for
  LineGrowth,      \* 4: how many times the wanted size is allocated
  MaxLineErrors    \* bound: failures of read(2) or realloc

Newline == "\n"
Nul == "NUL"

LineBytes == (UNION {Range(text) : text \in LineTexts}) \cup {Newline, Unset}

ASSUME LineAssumption ==
  /\ LineTexts \subseteq Seq(LineBytes)
  /\ InitialSize \in Nat \ {0} /\ LineGrowth \in Nat \ {0} /\ MaxLineErrors \in Nat

VARIABLES
  lineText,        \* what the descriptor delivers
  lineTaken,       \* how much of it has been read
  lineBuffer, lineMax,  \* the buffer, and how much is allocated to it
  line,            \* <<begin, end>>: what of the buffer is before it, and up to its end
  linesRead,       \* history: the lines that were returned
  linePc,          \* "client", "reading", or "ended" after a call returned false
  lineErrors

lineVars == <<lineText, lineTaken, lineBuffer, lineMax, line, linesRead, linePc, lineErrors>>

LineInit ==
  /\ lineText \in LineTexts
  /\ lineTaken = 0 /\ lineBuffer = <<>> /\ lineMax = 0 /\ line = <<0, 0>>
  /\ linesRead = <<>> /\ linePc = "client" /\ lineErrors = 0

\* Where strstr finds a newline in a buffer, from a place on, if it does: it
\* looks no further than a NUL.
Found(buffer, from) ==
  {i \in from..Len(buffer) - 1 :
     buffer[i + 1] = Newline /\ \A j \in from..i - 1 : buffer[j + 1] \notin {Newline, Nul}}

Return(begin, end, buffer) ==
  /\ line' = <<begin, end>>
  /\ linesRead' = Append(linesRead, SubSeq(buffer, begin + 1, end))
  /\ linePc' = "client"

ReturnFalse == linePc' = "ended" /\ UNCHANGED <<line, linesRead>>

\* Mutant: the separator stays in front of the next line.
Next_AtSeparator == line[2]

\* Where the line after this one would begin.
NextLine == line[2] + 1

\* A call finds the buffer empty, ends behind it, or finds the next line in it.
CallsOnEmpty ==
  /\ linePc = "client" /\ lineBuffer = <<>>
  /\ linePc' = "reading"
  /\ UNCHANGED <<lineText, lineTaken, lineBuffer, lineMax, line, linesRead, lineErrors>>

CallsAtEnd ==
  /\ linePc = "client" /\ lineBuffer # <<>> /\ NextLine > Len(lineBuffer)
  /\ ReturnFalse
  /\ UNCHANGED <<lineText, lineTaken, lineBuffer, lineMax, lineErrors>>

CallFinds ==
  /\ linePc = "client" /\ lineBuffer # <<>> /\ NextLine <= Len(lineBuffer)
  /\ \E end \in Found(lineBuffer, NextLine) : Return(NextLine, end, lineBuffer)
  /\ UNCHANGED <<lineText, lineTaken, lineBuffer, lineMax, lineErrors>>

\* buffer_downshift_protect: what has been returned is dropped.
CallShifts ==
  /\ linePc = "client" /\ lineBuffer # <<>> /\ NextLine <= Len(lineBuffer)
  /\ Found(lineBuffer, NextLine) = {}
  /\ lineBuffer' = SubSeq(lineBuffer, NextLine + 1, Len(lineBuffer))
  /\ linePc' = "reading"
  /\ UNCHANGED <<lineText, lineTaken, lineMax, line, linesRead, lineErrors>>

-----------------------------------------------------------------------------
(* buffer_read.                                                            *)

HasSpace == lineMax > 0 /\ Len(lineBuffer) < lineMax - 1
ReadSize == IF HasSpace THEN lineMax - 1 - Len(lineBuffer)
            ELSE IF lineBuffer # <<>> THEN Len(lineBuffer) ELSE InitialSize
SizeWanted == Len(lineBuffer) + ReadSize + 1
SizeAfter == IF HasSpace \/ lineMax >= SizeWanted THEN lineMax ELSE LineGrowth * SizeWanted

\* Mutant: only what was just read is looked at.
ReadsOn_NewOnly ==
  /\ linePc = "reading"
  /\ \E n \in 1..ReadSize :
       /\ lineTaken + n <= Len(lineText)
       /\ lineTaken' = lineTaken + n
       /\ lineBuffer' = lineBuffer \o SubSeq(lineText, lineTaken + 1, lineTaken + n)
  /\ lineMax' = SizeAfter
  /\ LET found == Found(lineBuffer', Len(lineBuffer))
     IN  IF found # {} THEN \E end \in found : Return(Len(lineBuffer), end, lineBuffer')
         ELSE UNCHANGED <<line, linesRead, linePc>>
  /\ UNCHANGED <<lineText, lineErrors>>

\* A read is followed by a search of the whole buffer, which has no line before
\* what was read unless a NUL hides it.
ReadsOn ==
  /\ linePc = "reading"
  /\ \E n \in 1..ReadSize :
       /\ lineTaken + n <= Len(lineText)
       /\ lineTaken' = lineTaken + n
       /\ lineBuffer' = lineBuffer \o SubSeq(lineText, lineTaken + 1, lineTaken + n)
  /\ lineMax' = SizeAfter
  /\ LET found == Found(lineBuffer', 0)
     IN  IF found # {} THEN \E end \in found : Return(0, end, lineBuffer')
         ELSE UNCHANGED <<line, linesRead, linePc>>
  /\ UNCHANGED <<lineText, lineErrors>>

\* The end of the loop: what is left, if anything, is returned as a line.
Remainder(buffer) ==
  IF buffer = <<>> THEN ReturnFalse ELSE Return(0, Len(buffer), buffer)

\* Mutant: what follows the last newline is forgotten.
ReadEnds_Drops ==
  /\ linePc = "reading" /\ lineTaken = Len(lineText)
  /\ lineMax' = SizeAfter
  /\ ReturnFalse
  /\ UNCHANGED <<lineText, lineTaken, lineBuffer, lineErrors>>

ReadEnds ==
  /\ linePc = "reading" /\ lineTaken = Len(lineText)
  /\ lineMax' = SizeAfter
  /\ Remainder(lineBuffer)
  /\ UNCHANGED <<lineText, lineTaken, lineBuffer, lineErrors>>

\* A failed read(2) ends the loop like the end of the file does; if the buffer
\* was enlarged for it, it stays as large as it was meant to become.
ReadBreaks ==
  /\ linePc = "reading" /\ lineErrors < MaxLineErrors
  /\ lineErrors' = lineErrors + 1
  /\ LET left == IF HasSpace THEN lineBuffer
                 ELSE lineBuffer \o [i \in 1..ReadSize + 1 |-> Unset]
     IN  /\ \/ lineBuffer' = left /\ lineMax' = SizeAfter
            \/ ~HasSpace /\ UNCHANGED <<lineBuffer, lineMax>>    \* realloc failed
         /\ Remainder(lineBuffer')
  /\ UNCHANGED <<lineText, lineTaken>>

LineNext == \/ CallsOnEmpty \/ CallsAtEnd \/ CallFinds \/ CallShifts
            \/ ReadsOn \/ ReadEnds \/ ReadBreaks

LineSpec == LineInit /\ [][LineNext]_lineVars

-----------------------------------------------------------------------------
\* The bytes of the lines, with a newline between any two.
Joined(lines) == FlattenSeq([n \in DOMAIN lines |-> IF n = 1 THEN lines[n]
                                                    ELSE <<Newline>> \o lines[n]])

\* The lines are the first of a text: each of them ends there, but for the last
\* one, which may also be what follows the last newline.
FirstLines(lines, text) ==
  lines # <<>> => \/ IsPrefix(Append(Joined(lines), Newline), text)
                  \/ Joined(lines) = text /\ Last(lines) # <<>>

\* They are all of them.
AllLines(lines, text) ==
  IF lines = <<>> THEN text = <<>>
  ELSE \/ text = Append(Joined(lines), Newline)
       \/ text = Joined(lines) /\ Last(lines) # <<>>

\* A failed read may be followed by one more line, of what was left.
SureLines == IF lineErrors = 0 THEN linesRead ELSE SubSeq(linesRead, 1, Len(linesRead) - 1)

\* The lines that are returned are those of the text, however reads cut it, and
\* all of them when a call has returned false; a NUL may join lines, and loses
\* no byte.  After a failed read there is one more line, of what was left.
LinesAreText ==
  /\ FirstLines(SureLines, lineText)
  /\ linePc = "ended" /\ lineErrors = 0 => AllLines(linesRead, lineText)
  /\ Nul \notin Range(lineText) =>
       \A n \in DOMAIN SureLines : Newline \notin Range(SureLines[n])
=============================================================================
