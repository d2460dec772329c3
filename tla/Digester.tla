------------------------------ MODULE Digester ------------------------------
(***************************************************************************)
(* What is read to its end through one buffer: metahash_fd                 *)
(* (metahash/metahash.c), which digests it and may copy it, and the loops  *)
(* of filebuffer (filebuffer/filebuffer.c and its program), which copy     *)
(* standard input to a temporary file, and that to standard output.        *)
(* Three users call them: the metahash program, over its arguments; an     *)
(* adder of a filestore, which keeps the copy; and the filebuffer program. *)
(* And two programs that take the lines of standard input, or their        *)
(* arguments, for digests in a base: metahash-analyzer                     *)
(* (metahash/metahash-analyzer.util.c) prints the digests in each, and     *)
(* filestore-path (filestore/filestore-path.util.c) the path a filestore   *)
(* keeps the first of them under.                                          *)
(***************************************************************************)
EXTENDS LineReader, Metahash

CONSTANTS
  FileContents,    \* from names of files to what is in them
  StdinContents,   \* what standard input holds
  FileLists,       \* the arguments metahash may have
  HashLists,       \* the hashes the programs may be told to use, <<>> for no option
  FillLimit,       \* 1000 or more: what the buffer takes in one read
  MaxDigestFaults  \* bound: calls that fail

VARIABLES
  user,        \* "metahash", "adder" or "filebuffer"
  arguments,   \* the files it was told to read
  names,       \* those that are left, the one in progress first
  use_hash_ids,  \* the hashes its options name
  hashes,      \* those it uses
  encoder,     \* the base metahash prints
  source,      \* [from |-> what the descriptor holds, taken |-> how much was read,
               \*  open |-> whether it is a descriptor]
  stdinOpen,
  fill,        \* what of the buffer is not written out yet
  hashed,      \* what gcrypt was given
  copy,        \* the temporary file
  told,        \* what the user has: lines of metahash, the adder's digest, or
               \* what filebuffer wrote to standard output
  stage,       \* "opens", "reads", "copies", "finishes", or how the user ended
  digestFaults \* history: the calls that failed

orders == <<user, arguments, use_hash_ids, hashes, encoder>>
digestVars == <<orders, names, source, stdinOpen, fill, hashed, copy, told, stage,
                digestFaults>>

Source(contents, open) == [from |-> contents, taken |-> 0, open |-> open]

\* What each hash makes of contents: gcrypt's, of which only that different
\* contents have different digests is used.
HashOf(id, contents) == <<id>> \o contents
FinalContext(ids, contents) == FlattenSeq([i \in DOMAIN ids |-> HashOf(ids[i], contents)])

\* The options of metahash and of filestore-add fill a list of their main, which
\* no other function sees: use_hashes stays empty, and gets SHA2-256.
DigestInit ==
  /\ user \in {"metahash", "adder", "filebuffer"}
  /\ arguments \in CASE user = "metahash" -> FileLists
                     [] user = "adder" -> {<<name>> : name \in DOMAIN FileContents}
                     [] OTHER -> {<<"-">>}
  /\ names = arguments
  /\ use_hash_ids \in IF user = "filebuffer" THEN {<<>>}
                      ELSE {IdentifyList(list)[1] : list \in HashLists}
  /\ hashes = <<Sha2_256>>
  /\ encoder \in IF user = "metahash" THEN {Base16, Base2} ELSE {Base16}
  /\ source = Source(<<>>, FALSE) /\ stdinOpen = TRUE
  /\ fill = <<>> /\ hashed = <<>> /\ copy = <<>> /\ told = <<>>
  /\ stage = "opens" /\ digestFaults = 0

Faulty == digestFaults < MaxDigestFaults /\ digestFaults' = digestFaults + 1

\* The descriptor of a name: `-' is standard input if no file has that name, and
\* until it was closed.
DescriptorOf(name) ==
  IF name \in DOMAIN FileContents THEN Source(FileContents[name], TRUE)
  ELSE IF name = "-" /\ stdinOpen THEN Source(StdinContents, TRUE)
  ELSE Source(<<>>, FALSE)

\* open_name, and metahash_fd to its loop; or mkstemp in filebuffer.
OpensFile ==
  /\ stage = "opens" /\ names # <<>>
  /\ source' = DescriptorOf(Head(names))
  /\ hashed' = <<>> /\ fill' = <<>>
  /\ stage' = IF \A i \in DOMAIN hashes : Implemented(hashes[i]) THEN "reads" ELSE "failed"
  /\ UNCHANGED <<orders, names, stdinOpen, copy, told, digestFaults>>

\* What a false result does: each of the programs aborts, and the adder fails.
Ends(how) == stage' = how

OpenFails ==
  /\ stage = "opens" /\ names # <<>> /\ Faulty
  /\ Ends("failed")
  /\ UNCHANGED <<orders, names, source, stdinOpen, fill, hashed, copy, told>>

Hashes == user \in {"metahash", "adder"}
Copies == user \in {"adder", "filebuffer"}

\* Mutant: the buffer is not emptied when it has been written.
ReadsMore_Keeps ==
  /\ stage = "reads" /\ source.open
  /\ \E n \in 1..FillLimit :
       /\ source.taken + n <= Len(source.from)
       /\ LET read == SubSeq(source.from, source.taken + 1, source.taken + n)
          IN  /\ fill' = read
              /\ hashed' = IF ~Hashes THEN hashed
                           ELSE hashed \o SubSeq(source.from, 1, source.taken + n)
       /\ source' = [source EXCEPT !.taken = @ + n]
  /\ stage' = IF Copies THEN "copies" ELSE "reads"
  /\ UNCHANGED <<orders, names, stdinOpen, copy, told, digestFaults>>

\* buffer_read into the empty buffer, and gcry_md_write of what it gave.
ReadsMore ==
  /\ stage = "reads" /\ source.open
  /\ \E n \in 1..FillLimit :
       /\ source.taken + n <= Len(source.from)
       /\ LET read == SubSeq(source.from, source.taken + 1, source.taken + n)
          IN  fill' = read /\ hashed' = IF Hashes THEN hashed \o read ELSE hashed
       /\ source' = [source EXCEPT !.taken = @ + n]
  /\ stage' = IF Copies THEN "copies" ELSE "reads"
  /\ UNCHANGED <<orders, names, stdinOpen, copy, told, digestFaults>>

\* Where buffer_write writes: the temporary file, and, when filebuffer has
\* filled it, standard output.
Returning == user = "filebuffer" /\ names = <<>>

\* buffer_write until the buffer is empty, and buffer_rewrite.
CopiesOn ==
  /\ stage = "copies"
  /\ \E n \in 1..Len(fill) :
       /\ fill' = SubSeq(fill, n + 1, Len(fill))
       /\ IF Returning THEN told' = told \o SubSeq(fill, 1, n) /\ UNCHANGED copy
          ELSE copy' = copy \o SubSeq(fill, 1, n) /\ UNCHANGED told
  /\ stage' = IF fill' = <<>> THEN "reads" ELSE "copies"
  /\ UNCHANGED <<orders, names, source, stdinOpen, hashed, digestFaults>>

CopyFails ==
  /\ stage = "copies" /\ Faulty
  /\ Ends("failed")
  /\ UNCHANGED <<orders, names, source, stdinOpen, fill, hashed, copy, told>>

ReadsNoMore ==
  /\ stage = "reads" /\ source.open /\ source.taken = Len(source.from)
  /\ stage' = "finishes"
  /\ UNCHANGED <<orders, names, source, stdinOpen, fill, hashed, copy, told,
                 digestFaults>>

\* A read of what could not be opened fails too.  The filebuffer program does not
\* ask how the reading of its temporary file ended.
ReadBreaksOff ==
  /\ stage = "reads"
  /\ IF source.open THEN Faulty ELSE UNCHANGED digestFaults
  /\ Ends(IF Returning THEN "finishes" ELSE "failed")
  /\ UNCHANGED <<orders, names, source, stdinOpen, fill, hashed, copy, told>>

-----------------------------------------------------------------------------
\* Mutant: the digest of one file goes on into the next.
Finishes_KeepsDigest ==
  /\ stage = "finishes"
  /\ IF user = "metahash"
     THEN told' = Append(told, IF told = <<>> THEN Encode(encoder, FinalContext(hashes, hashed))
                               ELSE Last(told) \o Encode(encoder, FinalContext(hashes, hashed)))
     ELSE told' = FinalContext(hashes, hashed)
  /\ stage' = IF user = "metahash" THEN "opens" ELSE "done"
  /\ names' = Tail(names) /\ stdinOpen' = (stdinOpen /\ Head(names) \in DOMAIN FileContents)
  /\ UNCHANGED <<orders, source, fill, hashed, copy, digestFaults>>

\* metahash prints a line and closes the file, standard input like any other; the
\* adder has its digest; filebuffer goes back to the beginning of its file, and
\* removes it when it has read that.
Finishes ==
  /\ stage = "finishes"
  /\ \/ /\ user = "metahash"
        /\ told' = Append(told, Encode(encoder, FinalContext(hashes, hashed)))
        /\ names' = Tail(names) /\ stage' = "opens"
        /\ stdinOpen' = (stdinOpen /\ Head(names) \in DOMAIN FileContents)
        /\ UNCHANGED <<source, copy>>
     \/ /\ user = "adder"
        /\ told' = FinalContext(hashes, hashed)
        /\ names' = <<>> /\ stage' = "done" /\ UNCHANGED <<source, stdinOpen, copy>>
     \/ /\ user = "filebuffer" /\ ~Returning
        /\ names' = <<>> /\ source' = Source(copy, TRUE) /\ stage' = "reads"
        /\ UNCHANGED <<stdinOpen, copy, told>>
     \/ /\ Returning
        /\ stage' = "done" /\ UNCHANGED <<names, source, stdinOpen, copy, told>>
  /\ UNCHANGED <<orders, fill, hashed, digestFaults>>

Returns ==
  /\ stage = "opens" /\ names = <<>>
  /\ stage' = "done"
  /\ UNCHANGED <<orders, names, source, stdinOpen, fill, hashed, copy, told, digestFaults>>

DigestNext == \/ OpensFile \/ OpenFails \/ ReadsMore \/ CopiesOn \/ CopyFails
              \/ ReadsNoMore \/ ReadBreaksOff \/ Finishes \/ Returns

DigestSpec == DigestInit /\ [][DigestNext]_digestVars

-----------------------------------------------------------------------------
\* What an argument of metahash names: <<its contents>>, or <<>> for a file
\* there is not, or standard input a second time.
ContentsOf(i) ==
  IF arguments[i] \in DOMAIN FileContents THEN <<FileContents[arguments[i]]>>
  ELSE IF arguments[i] = "-" /\ \A k \in 1..i - 1 : arguments[k] # "-" THEN <<StdinContents>>
  ELSE <<>>

\* However reads and writes cut a file, a digest is that of the whole of it and
\* of no other, and an adder's copy holds what the digest is of.  A program
\* fails only where a call did or an argument names nothing to read; what
\* filebuffer writes is a beginning of its input, and all of it unless a call
\* failed: it returns the same when one that reads its temporary file has.
DigestIsOfWhole ==
  LET InProgress == Len(told) + 1
  IN  CASE user = "metahash" ->
             /\ \A i \in DOMAIN told : told[i] = Encode(encoder, FinalContext(hashes, ContentsOf(i)[1]))
             /\ stage = "done" => Len(told) = Len(arguments)
             /\ stage = "failed" => digestFaults > 0 \/ ContentsOf(InProgress) = <<>>
        [] user = "adder" ->
             /\ stage = "done" => told = FinalContext(hashes, ContentsOf(1)[1]) /\ copy = ContentsOf(1)[1]
             /\ stage = "failed" => digestFaults > 0
        [] OTHER ->
             /\ IsPrefix(told, StdinContents)
             /\ digestFaults = 0 => stage # "failed" /\ (stage = "done" => told = StdinContents)

\* The help of metahash says of -h that it specifies the hash function to be
\* used: a line is the digest by the hashes the options named.
HashIsAsked ==
  user = "metahash" /\ use_hash_ids # <<>> =>
    \A i \in DOMAIN told : told[i] = Encode(encoder, FinalContext(use_hash_ids, ContentsOf(i)[1]))

-----------------------------------------------------------------------------
\* metahash-analyzer and filestore-path.
CONSTANTS
  Armors       \* the armors a line may hold: [text |-> its characters,
               \* means |-> <<the digests in it>>, or <<>> if it is none,
               \* starts |-> <<the digest it starts with>>, or <<>>]

VARIABLES
  program,     \* "analyzer" or "path"
  given,       \* the armors there are, in their order
  printed,     \* for each line analyzed, the digests that were printed
  analyzer     \* "running", "success" or "abort"

analyzerVars == <<program, given, printed, analyzer>>

\* Their text, one to a line, with a word after each but the last.
ArmorText(armors) == FlattenSeq([i \in DOMAIN armors |->
                  armors[i].text \o (IF i = Len(armors) THEN <<>> ELSE <<" ", "f", Newline>>)])

AnalyzerInit ==
  /\ program \in {"analyzer", "path"}
  /\ given \in UNION {[1..n -> Armors] : n \in 1..2}
  /\ printed = <<>> /\ analyzer = "running"
  /\ \/ LineInit /\ lineText = ArmorText(given)
     \/ /\ linesRead = [i \in DOMAIN given |-> given[i].text]     \* its arguments
        /\ lineText = Joined(linesRead) /\ lineTaken = Len(lineText)
        /\ lineBuffer = <<>> /\ lineMax = 0
        /\ line = <<0, 0>> /\ lineErrors = 0 /\ linePc = "ended"

\* The next line, while the buffer that holds it is not moved.
GetLine == /\ analyzer = "running" /\ Len(printed) = Len(linesRead)
           /\ LineNext /\ UNCHANGED analyzerVars

\* truncate_spaces.
Truncated(text) ==
  LET spaces == {i \in DOMAIN text : text[i] \in {" ", Newline, Nul}}
  IN  IF spaces = {} THEN text
      ELSE SubSeq(text, 1, (CHOOSE i \in spaces : \A j \in spaces : i <= j) - 1)

\* The digests in bytes, one after another: as many as make sense, and whether
\* they all do.
RECURSIVE UnwrapAll(_, _)
UnwrapAll(bytes, digests) ==
  LET unwrapped == Unwrap(bytes)
  IN  IF bytes = <<>> THEN [ok |-> TRUE, digests |-> digests]
      ELSE IF ~unwrapped.ok THEN [ok |-> FALSE, digests |-> digests]
      ELSE UnwrapAll(unwrapped.rest, Append(digests, <<unwrapped.id, unwrapped.digest>>))

\* Mutant: a line that does not decode is passed over.
Analyzed_Lenient(text) ==
  LET bytes == Decode(Truncated(text))
  IN  IF bytes = <<>> THEN [ok |-> TRUE, digests |-> <<>>] ELSE UnwrapAll(bytes[1], <<>>)

\* analyze_digest.
Analyzed(text) ==
  LET bytes == Decode(Truncated(text))
  IN  IF bytes = <<>> THEN [ok |-> FALSE, digests |-> <<>>] ELSE UnwrapAll(bytes[1], <<>>)

\* get_path: whether the line decodes is not asked, nor where it ends, so that
\* what was stored before a wrong character may do.  A path is made of the name
\* of a hash and of the digest's bytes.
PathOf(text) ==
  LET unwrapped == Unwrap(Stored(Truncated(text)))
  IN  IF unwrapped.ok THEN [ok |-> TRUE, digests |-> << <<NameOf(unwrapped.id), unwrapped.digest>> >>]
      ELSE [ok |-> FALSE, digests |-> <<>>]

Analyze ==
  /\ analyzer = "running" /\ Len(printed) < Len(linesRead)
  /\ LET text == linesRead[Len(printed) + 1]
         analyzed == IF program = "path" THEN PathOf(text) ELSE Analyzed(text)
     IN  /\ printed' = Append(printed, analyzed.digests)
         /\ analyzer' = IF analyzed.ok THEN "running" ELSE "abort"
  /\ UNCHANGED <<lineVars, program, given>>

AnalyzerReturns ==
  /\ analyzer = "running" /\ linePc = "ended" /\ Len(printed) = Len(linesRead)
  /\ analyzer' = "success"
  /\ UNCHANGED <<lineVars, program, given, printed>>

AnalyzerNext == GetLine \/ Analyze \/ AnalyzerReturns

AnalyzerSpec == AnalyzerInit /\ [][AnalyzerNext]_<<lineVars, analyzerVars>>

-----------------------------------------------------------------------------
\* What should be printed of an armor: <<digests>>, or <<>>.
Due(i) ==
  CASE i > Len(given) -> <<>>
    [] program = "analyzer" -> given[i].means
    [] given[i].starts = <<>> -> <<>>
    [] OTHER -> LET digest == given[i].starts[1] IN << << <<NameOf(digest[1]), digest[2]>> >> >>

\* As long as no read has failed, each line that was analyzed gave the digests
\* that are in it, or its path the one it starts with; the program aborts at the
\* first line that holds no such thing, and ends well only after the last.  No
\* two digests share a path.
AnalyzedIsGiven ==
  lineErrors = 0 =>
    /\ \A i \in DOMAIN printed : Due(i) # <<>> => printed[i] = Due(i)[1]
    /\ \A i \in 1..Len(printed) - 1 : Due(i) # <<>>
    /\ program = "path" =>
         \A i, j \in DOMAIN printed :
           printed[i] = printed[j] => given[i].starts = given[j].starts
    /\ analyzer = "abort" => Due(Len(printed)) = <<>>
    /\ analyzer = "success" => Len(printed) = Len(given) /\ Due(Len(printed)) # <<>>
=============================================================================
