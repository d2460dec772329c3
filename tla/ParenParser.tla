---------------------------- MODULE ParenParser ----------------------------
(***************************************************************************)
(* paren_parse (paren-parser/paren-parser.c): a text of words and of       *)
(* parentheses becomes a tree of atoms.  `set', the place the next atom is *)
(* written to, and `paths', the places to return to when a parenthesis is  *)
(* closed, are here the lists that are still open, the innermost last.     *)
(***************************************************************************)
EXTENDS Integers, SequencesExt

CONSTANTS
  Texts,        \* texts that may be parsed, as sequences of characters
  Unreadable    \* what _load_file gives when it fails

VARIABLES
  text,         \* the text
  iter,         \* how many of its characters have been read
  line_number,
  last_newline, \* the place of the last newline, 0-based; 0 before there is one
  lists,        \* the open lists: each an atom whose `atoms' grows
  parsed        \* "no", "tree" or "failed"

parenVars == <<text, iter, line_number, last_newline, lists, parsed>>

IsSpace(c) == c \in {" ", "\n"}
IsParen(c) == c \in {"(", ")"}

Word(w, line, column) == [text |-> w, line |-> line, column |-> column]
List(as, line, column) == [atoms |-> as, line |-> line, column |-> column]

\* _load_file: all of a file or nothing.  The text that is given has no name
\* and no file.
ParenInit ==
  /\ text \in Texts
  /\ iter = 0 /\ line_number = 1 /\ last_newline = 0
  /\ lists = <<List(<<>>, 0, 0)>>
  /\ parsed = IF text = Unreadable THEN "failed" ELSE "no"

Reading == parsed = "no"
c == text[iter + 1]
AtEnd == iter = Len(text)

\* What becomes of the innermost list, with one more atom.
With(atom) == [Last(lists) EXCEPT !.atoms = Append(@, atom)]

SkipSpace ==
  /\ Reading /\ ~AtEnd /\ IsSpace(c)
  /\ iter' = iter + 1
  /\ IF c = "\n" THEN line_number' = line_number + 1 /\ last_newline' = iter
     ELSE UNCHANGED <<line_number, last_newline>>
  /\ UNCHANGED <<text, lists, parsed>>

\* The column of a list is that of the character after its parenthesis.
Opens ==
  /\ Reading /\ ~AtEnd /\ c = "("
  /\ iter' = iter + 1
  /\ lists' = Append(lists, List(<<>>, line_number, iter + 1 - last_newline))
  /\ UNCHANGED <<text, line_number, last_newline, parsed>>

\* The list goes where its parenthesis was found.
Closes ==
  /\ Reading /\ ~AtEnd /\ c = ")"
  /\ Len(lists) > 1
  /\ iter' = iter + 1
  /\ lists' = LET closed == Last(lists)
                  outer == lists[Len(lists) - 1]
              IN  Append(SubSeq(lists, 1, Len(lists) - 2),
                         [outer EXCEPT !.atoms = Append(@, closed)])
  /\ UNCHANGED <<text, line_number, last_newline, parsed>>

Fail == parsed' = "failed" /\ UNCHANGED <<text, iter, line_number, last_newline, lists>>

Unexpected == Reading /\ ~AtEnd /\ c = ")" /\ Len(lists) = 1 /\ Fail

EndsWord(ch) == IsSpace(ch) \/ IsParen(ch)

\* Mutant: a word ends at a space only, or at a parenthesis that opens.
SkipWord_OverClose ==
  CHOOSE n \in iter..Len(text) :
    /\ \A i \in iter + 1..n : ~IsSpace(text[i]) /\ text[i] # "("
    /\ n = Len(text) \/ IsSpace(text[n + 1]) \/ text[n + 1] = "("

\* Where the word that starts here ends.
SkipWord ==
  CHOOSE n \in iter..Len(text) :
    /\ \A i \in iter + 1..n : ~EndsWord(text[i])
    /\ n = Len(text) \/ EndsWord(text[n + 1])

ReadWord ==
  /\ Reading /\ ~AtEnd /\ ~EndsWord(c)
  /\ iter' = SkipWord
  /\ lists' = [lists EXCEPT ![Len(lists)] =
                 With(Word(SubSeq(text, iter + 1, SkipWord), line_number,
                           iter - last_newline))]
  /\ UNCHANGED <<text, line_number, last_newline, parsed>>

\* Mutant: the end of the text closes what is open.
ParseEnds_Open ==
  /\ Reading /\ AtEnd
  /\ parsed' = "tree"
  /\ UNCHANGED <<text, iter, line_number, last_newline, lists>>

ParseEnds ==
  /\ Reading /\ AtEnd
  /\ parsed' = IF Len(lists) = 1 THEN "tree" ELSE "failed"
  /\ UNCHANGED <<text, iter, line_number, last_newline, lists>>

ParenNext == SkipSpace \/ Opens \/ Closes \/ Unexpected \/ ReadWord \/ ParseEnds

ParenSpec == ParenInit /\ [][ParenNext]_parenVars

-----------------------------------------------------------------------------
\* The tokens of a text: its parentheses and its words, each with its line.
Starts(i) ==
  ~IsSpace(text[i]) /\ (i = 1 \/ EndsWord(text[i - 1]) \/ IsParen(text[i]))
LineOf(i) == 1 + Cardinality({k \in 1..i - 1 : text[k] = "\n"})
WordAt(i) ==
  LET ends == {k \in i..Len(text) : k = Len(text) \/ EndsWord(text[k + 1])}
  IN  SubSeq(text, i, CHOOSE k \in ends : \A other \in ends : k <= other)
Token(i) == <<IF IsParen(text[i]) THEN <<text[i]>> ELSE WordAt(i), LineOf(i)>>
Tokens == LET starts == {i \in DOMAIN text : Starts(i)}
          IN  [n \in 1..Cardinality(starts) |-> Token(SetToSortSeq(starts, <)[n])]

\* The same, read off atoms, the parentheses that close without their line.
RECURSIVE TokensOf(_)
TokensOf(atoms) ==
  FlattenSeq([n \in DOMAIN atoms |->
    IF "text" \in DOMAIN atoms[n] THEN << <<atoms[n].text, atoms[n].line>> >>
    ELSE << << <<"(">>, atoms[n].line >> >> \o TokensOf(atoms[n].atoms)
         \o << << <<")">>, 0 >> >>])

Opened(n) == Cardinality({i \in 1..n : text[i] = "("})
Closed(n) == Cardinality({i \in 1..n : text[i] = ")"})
Balanced == /\ \A n \in DOMAIN text : Closed(n) <= Opened(n)
            /\ Opened(Len(text)) = Closed(Len(text))

\* A text is refused exactly when its parentheses do not match, and the tree of
\* any other has the words and the parentheses of the text, in their order and
\* with the numbers of their lines.
TreeIsText ==
  /\ parsed = "failed" => text = Unreadable \/ ~Balanced
  /\ parsed = "tree" =>
       /\ Balanced
       /\ TokensOf(lists[1].atoms) =
            [n \in DOMAIN Tokens |->
               IF Tokens[n][1] = <<")">> THEN << <<")">>, 0 >> ELSE Tokens[n]]
=============================================================================
