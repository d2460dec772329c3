------------------------------ MODULE TarFormat ------------------------------
(***************************************************************************)
(* What tar/write.c makes of the items of an archive.  An archive is a     *)
(* sequence of units, Block of which are a tar block: a header is one unit *)
(* followed by the rest of its block, and a unit of a file or of a name    *)
(* stands for a byte.  Owners, times, modes and checksums are left out.    *)
(*                                                                         *)
(* A name is a sequence of units; one that does not fit into the header is *)
(* written before it, as the contents of an item of its own.               *)
(***************************************************************************)
EXTENDS Integers, Sequences, SequencesExt

CONSTANTS
  Block,     \* TAR_BLOCK_SIZE, 512
  NameMax    \* sizeof (header.posix.name) and sizeof (header.posix.linkname), 100

ASSUME TarAssumption == Block \in Nat \ {0, 1} /\ NameMax \in Nat

Char(c) == [kind |-> "char", char |-> c]
Sep == Char("/")                      \* PATH_SEPARATOR
Zero == [kind |-> "zero"]
Garbage == [kind |-> "garbage"]       \* what follows a string in memory
Field == [kind |-> "field"]           \* the rest of a header

Zeros(n) == [i \in 1..n |-> Zero]

\* A header of the given typeflag, with what fits into it.
Header(flag, name, size, link) ==
  <<[kind |-> "header", flag |-> flag, name |-> name, size |-> size, link |-> link]>>
    \o [i \in 1..(Block - 1) |-> Field]

RoundUp(n) == IF n % Block = 0 THEN n ELSE ((n \div Block) + 1) * Block

Padding(n) == Zeros(RoundUp(n) - n)

\* A name without the separators it begins with.
Relative(name) ==
  LET begin == CHOOSE i \in 1..(Len(name) + 1) :
                 /\ \A j \in 1..(i - 1) : name[j] = Sep
                 /\ i <= Len(name) => name[i] # Sep
  IN  SubSeq(name, begin, Len(name))

\* The name of a directory ends with a separator.
NeedsSep(item) ==
  item.type = "dir" /\ (Relative(item.name) = <<>> \/ Last(item.name) # Sep)
FullName(item) ==
  IF NeedsSep(item) THEN Append(Relative(item.name), Sep) ELSE Relative(item.name)

NameFits(item) == Len(FullName(item)) + 1 < NameMax
LinkFits(item) == Len(item.link) + 1 < NameMax

\* The item that holds a long name.  Its size, and its padding, are those of
\* the name without the separator that follows it.
LongName(item) ==
  LET size == Len(Relative(item.name)) + 1
  IN  Header("L", <<>>, size, <<>>) \o Append(FullName(item), Zero) \o Padding(size)

\* The item for a long link.  What it holds is as many bytes as the link has,
\* taken from where the name is.
LongLink(item) ==
  LET size == Len(item.link) + 1
      name == Append(Relative(item.name), Zero)
  IN  Header("K", <<>>, size, <<>>)
        \o [i \in 1..size |-> IF i <= Len(name) THEN name[i] ELSE Garbage]
        \o Padding(size)

Flag == [file |-> "0", hardlink |-> "1", symlink |-> "2", dir |-> "5"]

\* tar_write_header: an item of type "file", "dir", "symlink" or "hardlink",
\* with the size it is announced with.
WriteSized(item, size) ==
  (IF NameFits(item) THEN <<>> ELSE LongName(item))
    \o (IF LinkFits(item) THEN <<>> ELSE LongLink(item))
    \o Header(Flag[item.type],
              IF NameFits(item) THEN FullName(item) ELSE <<>>,
              size,
              IF LinkFits(item) THEN item.link ELSE <<>>)

WriteHeader(item) == WriteSized(item, Len(item.contents))

\* An item as a program writes it: the header, the contents and their padding.
WriteItem(item) ==
  WriteHeader(item) \o item.contents \o Padding(Len(item.contents))

\* tar_write_end.
End == Zeros(2 * Block)

Archive(items) == FlattenSeq([i \in 1..Len(items) |-> WriteItem(items[i])]) \o End
=============================================================================
