------------------------------ MODULE TarReader ------------------------------
(***************************************************************************)
(* Reading an archive from a descriptor (tar/read.c).  A program calls     *)
(* tar_update_fd until it is given an item, reads the contents of a file   *)
(* with tar_read_region or skips them with tar_skip_file, and goes on       *)
(* until tar_update_fd returns false.                                      *)
(*                                                                         *)
(* One step is one turn of tar_update_fd's loop, which is one block and one *)
(* call of tar_update_mem, or one call of the other two functions.  The    *)
(* read(2)s of a step are not told apart: short ones are repeated until    *)
(* the step has what it wants, or the archive has ended, or one has failed. *)
(***************************************************************************)
EXTENDS TarFormat

CONSTANTS
  Items,       \* the items an archive may have
  MaxItems,    \* bound: how many of them
  MaxErrors    \* bound: failures of read(2)

\* A string that holds no zero, as the paths of files do.
IsText(units) == units \in Seq(Range(units)) /\ Zero \notin Range(units)

ASSUME ReaderAssumption ==
  /\ \A item \in Items :
       /\ item.type \in DOMAIN Flag
       /\ IsText(item.name) /\ IsText(item.link)
       /\ item.contents \in Seq(Range(item.contents))
       /\ item.type # "file" => item.contents = <<>>
       /\ item.type \notin {"symlink", "hardlink"} => item.link = <<>>
  /\ MaxItems \in Nat /\ MaxErrors \in Nat

VARIABLES
  items,    \* what was written into the archive
  stream,   \* the archive, or the beginning of it that reached the reader
  at,       \* how much of it has been read
  type,     \* tar_state: the type of the current item
  path,     \*   its path, as the bytes of the buffer
  link,     \*   link.path
  size,     \*   file.size
  pc,       \* "update", "have" an item, "ended" or "failed"
  given,    \* history: the items the program was given
  errors    \* history: failed reads

vars == <<items, stream, at, type, path, link, size, pc, given, errors>>

Init ==
  /\ items \in UNION {[1..n -> Items] : n \in 0..MaxItems}
  /\ \E cut \in 0..Len(Archive(items)) : stream = SubSeq(Archive(items), 1, cut)
  /\ at = 0 /\ type = "error" /\ path = <<>> /\ link = <<>> /\ size = 0
  /\ pc = "update" /\ given = <<>> /\ errors = 0

-----------------------------------------------------------------------------
(* tar_update_fd, where it has read a whole block.                         *)

Whole(n) == at + n <= Len(stream)
Ahead(n) == SubSeq(stream, at + 1, at + n)
block == Ahead(Block)

InUpdate == pc = "update" /\ Whole(Block)
Advance(n) == at' = at + n /\ UNCHANGED <<items, stream, errors>>

\* The fail label of tar_update_mem and tar_update_fd.
UpdateIsFatal == type' = "error" /\ pc' = "failed"

\* The buffer a long name or link is read into.
IsLong == type \in {"longname", "longlink"}
Held == IF type = "longname" THEN path ELSE link

\* Its size is not in tar_state, which has the size of the last file.  A block
\* is recorded whole, or dropped when more than one would be needed.
UpdateRecords ==
  /\ InUpdate /\ IsLong /\ Len(Held) < size
  /\ LET recorded == IF RoundUp(size - Len(Held)) <= Block THEN Held \o block ELSE Held
     IN  IF type = "longname" THEN path' = recorded /\ UNCHANGED link
         ELSE link' = recorded /\ UNCHANGED path
  /\ Advance(Block) /\ UNCHANGED <<type, size, pc, given>>

UpdateIsOversized ==
  /\ InUpdate /\ IsLong /\ Len(Held) > size
  /\ UpdateIsFatal
  /\ Advance(Block) /\ UNCHANGED <<path, link, size, given>>

\* The block is looked at as a header.
AtHeader == InUpdate /\ (IsLong => Len(Held) = size)

IsZero == \A i \in 1..Block : block[i] = Zero
IsHeader == block[1].kind = "header"

\* The second of two empty blocks ends the archive.
UpdateMeetsZeros ==
  /\ AtHeader /\ IsZero
  /\ IF type = "end" THEN pc' = "ended" /\ UNCHANGED type
     ELSE type' = "end" /\ UNCHANGED pc
  /\ Advance(Block) /\ UNCHANGED <<path, link, size, given>>

UpdateMeetsOther ==
  /\ AtHeader /\ ~IsZero /\ ~IsHeader
  /\ UpdateIsFatal
  /\ Advance(Block) /\ UNCHANGED <<path, link, size, given>>

UpdateMeetsLong ==
  /\ AtHeader /\ IsHeader /\ block[1].flag \in {"L", "K"}
  /\ IF block[1].flag = "L"
     THEN type' = "longname" /\ path' = <<>> /\ UNCHANGED link
     ELSE type' = "longlink" /\ link' = <<>> /\ UNCHANGED path
  /\ Advance(Block) /\ UNCHANGED <<size, pc, given>>

\* The type a typeflag is given: a hard link has that of its typeflag itself.
TypeOf(flag) ==
  CASE flag = "0" -> "file" [] flag = "1" -> "LNKTYPE"
    [] flag = "2" -> "symlink" [] flag = "5" -> "dir"

\* Mutant: the size of an empty file is not stored.
UpdateMeetsItem_KeepsSize ==
  /\ AtHeader /\ IsHeader /\ block[1].flag \notin {"L", "K"}
  /\ LET header == block[1] IN
     /\ path' = IF type = "longname" THEN path ELSE header.name
     /\ IF header.flag = "2" THEN link' = (IF type = "longlink" THEN link ELSE header.link)
        ELSE UNCHANGED link
     /\ IF type = "longlink" /\ header.flag # "2" THEN UpdateIsFatal /\ UNCHANGED size
        ELSE /\ type' = TypeOf(header.flag) /\ pc' = "have"
             /\ size' = IF header.flag = "0" /\ header.size # 0 THEN header.size ELSE size
  /\ Advance(Block) /\ UNCHANGED given

\* An item: its name and link come from the header, unless one of them has just
\* been read; a long link must belong to a symbolic one.
UpdateMeetsItem ==
  /\ AtHeader /\ IsHeader /\ block[1].flag \notin {"L", "K"}
  /\ LET header == block[1] IN
     /\ path' = IF type = "longname" THEN path ELSE header.name
     /\ IF header.flag = "2" THEN link' = (IF type = "longlink" THEN link ELSE header.link)
        ELSE UNCHANGED link
     /\ IF type = "longlink" /\ header.flag # "2" THEN UpdateIsFatal /\ UNCHANGED size
        ELSE /\ type' = TypeOf(header.flag) /\ pc' = "have"
             /\ size' = IF header.flag = "0" THEN header.size ELSE size
  /\ Advance(Block) /\ UNCHANGED given

-----------------------------------------------------------------------------
(* The program, and what may go wrong.                                     *)

\* A string ends at its first zero.
String(units) ==
  SubSeq(units, 1, CHOOSE n \in 0..Len(units) :
                     /\ \A i \in 1..n : units[i] # Zero
                     /\ n < Len(units) => units[n + 1] = Zero)

Item(contents) ==
  [type |-> type, name |-> String(path), contents |-> contents,
   link |-> IF type = "symlink" THEN String(link) ELSE <<>>]

Skipped == <<Garbage>>    \* stands for the contents of a file that was skipped

Give(contents) == given' = Append(given, Item(contents)) /\ pc' = "update"

\* An item without contents.
TakesItem ==
  /\ pc = "have" /\ type # "file"
  /\ Give(<<>>)
  /\ UNCHANGED <<items, stream, at, type, path, link, size, errors>>

\* Mutant: the padding is left.
ReadsFile_NoPadding ==
  /\ pc = "have" /\ type = "file" /\ Whole(size)
  /\ Give(SubSeq(Ahead(size), 1, size))
  /\ Advance(size) /\ UNCHANGED <<type, path, link, size>>

\* tar_read_region.
ReadsFile ==
  /\ pc = "have" /\ type = "file" /\ Whole(RoundUp(size))
  /\ Give(SubSeq(Ahead(RoundUp(size)), 1, size))
  /\ Advance(RoundUp(size)) /\ UNCHANGED <<type, path, link, size>>

\* Mutant: the blocks of a file are counted without its last part.
SkipsFile_Down ==
  /\ pc = "have" /\ type = "file" /\ Whole(RoundUp(size))
  /\ Give(Skipped)
  /\ Advance(size - (size % Block)) /\ UNCHANGED <<type, path, link, size>>

\* tar_skip_file.
SkipsFile ==
  /\ pc = "have" /\ type = "file" /\ Whole(RoundUp(size))
  /\ Give(Skipped)
  /\ Advance(RoundUp(size)) /\ UNCHANGED <<type, path, link, size>>

\* Mutant: an archive that ends too early has ended.
UpdateFails_EndsAtEof ==
  /\ pc = "update"
  /\ \/ ~Whole(Block) /\ UNCHANGED errors
     \/ errors < MaxErrors /\ errors' = errors + 1
  /\ type' = "end" /\ pc' = "ended"
  /\ UNCHANGED <<items, stream, at, path, link, size, given>>

\* tar_update_fd cannot read a whole block.
UpdateFails ==
  /\ pc = "update"
  /\ \/ ~Whole(Block) /\ UNCHANGED errors
     \/ errors < MaxErrors /\ errors' = errors + 1
  /\ UpdateIsFatal
  /\ UNCHANGED <<items, stream, at, path, link, size, given>>

\* tar_read_region or tar_skip_file cannot read the whole of a file.
FileFails ==
  /\ pc = "have" /\ type = "file" /\ size > 0
  /\ \/ ~Whole(RoundUp(size)) /\ UNCHANGED errors
     \/ errors < MaxErrors /\ errors' = errors + 1
  /\ pc' = "failed"
  /\ UNCHANGED <<items, stream, at, type, path, link, size, given>>

Next ==
  \/ UpdateRecords \/ UpdateIsOversized \/ UpdateMeetsZeros \/ UpdateMeetsOther
  \/ UpdateMeetsLong \/ UpdateMeetsItem \/ UpdateFails
  \/ TakesItem \/ ReadsFile \/ SkipsFile \/ FileFails

Spec == Init /\ [][Next]_vars

-----------------------------------------------------------------------------
\* Types, and that an archive is only ever read block by block: whatever was
\* skipped or read, the next header is looked for at the start of a block.
TypeOK ==
  /\ type \in {"error", "end", "longname", "longlink", "file", "dir", "symlink", "LNKTYPE"}
  /\ pc \in {"update", "have", "ended", "failed"}
  /\ size \in Nat /\ errors \in 0..MaxErrors
  /\ at \in 0..Len(stream) /\ at % Block = 0

\* What a program ought to be given of an item, hard links apart: of those the
\* reader keeps the name only.
Shown(item) ==
  [type |-> IF item.type = "hardlink" THEN "LNKTYPE" ELSE item.type,
   name |-> FullName(item),
   contents |-> item.contents,
   link |-> IF item.type = "hardlink" THEN <<>> ELSE item.link]

\* The i-th item given is the i-th item written, with its own contents if these
\* were read: no name, link, size or contents is mixed up with another item's,
\* whatever was skipped or cut short (read.h:21 ff., and common.h:20-21 on long
\* names and links, which "must be applied to the next" item).
ItemsAreFaithful ==
  /\ Len(given) <= Len(items)
  /\ \A i \in 1..Len(given) :
       given[i] \in {Shown(items[i]), [Shown(items[i]) EXCEPT !.contents = Skipped]}

\* The end of an archive is reported only when every item has been given: an
\* archive that was cut short anywhere is an error.
EndMeansAll == pc = "ended" => Len(given) = Len(items) /\ Whole(0)

\* Reading fails only when a read did, when the archive was cut short, or at an
\* item whose name or link did not fit into its header: every other item is
\* found, whatever went before it.
FailureHasCause ==
  pc = "failed" =>
    \/ errors > 0 \/ stream # Archive(items)
    \/ LET i == Len(given) + 1
       IN  i <= Len(items) /\ (~NameFits(items[i]) \/ ~LinkFits(items[i]))

\* What is given is what was written, and the end comes after all of it.
ArchiveIsGiven == ItemsAreFaithful /\ EndMeansAll

\* Reading stays at the edge of a block, and fails only with a cause.
ReadingKeepsPlace == TypeOK /\ FailureHasCause
=============================================================================
