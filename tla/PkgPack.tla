------------------------------ MODULE PkgPack ------------------------------
(***************************************************************************)
(* The program pkg-pack (pkg/pkg-pack.util.c, pkg-pack.c): the script, then *)
(* every path below its arguments, into one archive on standard output,    *)
(* compressed or not.  Headers, contents and padding are gathered in a     *)
(* buffer that is flushed when it has grown to a limit; when compressing,  *)
(* a flush deflates it into one chunk in a second buffer.                  *)
(*                                                                         *)
(* A file's header says the size that lstat(2) gave; its contents are read *)
(* later, and may have been edited by then.  Calls may fail once, or, for  *)
(* the read(2)s of some files, always.  Units are those of TarFormat.      *)
(***************************************************************************)
EXTENDS TarFormat

CONSTANTS
  Trees,         \* what may be packed: functions from paths to nodes
  Arguments,     \* the paths that main is given
  Script,        \* the contents of the script
  Edited,        \* contents a file may be given while it is packed
  BufferLimit,   \* FILE_BUFFER_SIZE, in units
  ChunkLimit,    \* FILE_BUFFER_SIZE, in chunks that come near it when compressed
  DirSize,       \* what lstat(2) gives as the size of a directory
  MaxPackEdits,  \* bound: edits
  MaxPackFaults  \* bound: calls that fail

IsSequence(s) == s \in Seq(Range(s))

\* What is above a path is a directory.
ASSUME PackAssumption ==
  /\ BufferLimit \in Nat \ {0} /\ ChunkLimit \in Nat /\ DirSize \in Nat
  /\ MaxPackEdits \in Nat /\ MaxPackFaults \in Nat
  /\ IsSequence(Script) /\ \A c \in Edited : IsSequence(c)
  /\ \A t \in Trees : t = [p \in DOMAIN t |-> t[p]]
  /\ \A t \in Trees : \A p \in DOMAIN t :
       /\ IsSequence(p) /\ IsSequence(t[p].contents) /\ IsSequence(t[p].link)
       /\ t[p] = [type |-> t[p].type, contents |-> t[p].contents, link |-> t[p].link]
       /\ \A n \in 1..(Len(p) - 1) :
            SubSeq(p, 1, n) \in DOMAIN t /\ t[SubSeq(p, 1, n)].type = "dir"
  /\ IsSequence(Arguments)
  /\ \A i \in 1..Len(Arguments) : IsSequence(Arguments[i]) /\ Arguments[i] # <<>>

VARIABLES
  tree,      \* the files: nodes [type, contents, link] by path
  compress,  \* whether --compress is dzip
  broken,    \* files whose read(2)s fail
  ppc,       \* where the program is
  args,      \* the arguments that are left
  top,       \* the argument that is packed: name_skip is its length
  stack,     \* the directories that are open: [dir, left]
  visit,     \* the path that is packed
  offset,    \* of the open file
  begin,     \* start_size
  tar,       \* tar_buffer
  chunks,    \* compress_buffer
  out,       \* what has been written to standard output
  ended,     \* exit status
  packed,    \* history: paths and items, with the contents that were read, and sizes
  edits,     \* history: edits so far
  faults     \* history: failures so far

world == <<tree, compress, broken, edits>>
buffers == <<tar, chunks, out>>
walk == <<args, top, stack, visit>>
packVars == <<tree, compress, broken, ppc, args, top, stack, visit, offset, begin, tar, chunks,
              out, ended, packed, edits, faults>>

\* What the program starts with.
PackStart ==
  /\ ppc = "new" /\ args = Arguments /\ top = <<>> /\ stack = <<>> /\ visit = <<>>
  /\ offset = 0 /\ begin = 0 /\ tar = <<>> /\ chunks = <<>> /\ out = <<>>
  /\ ended = "no" /\ packed = <<>> /\ edits = 0 /\ faults = 0

PackInit ==
  /\ tree \in Trees /\ compress \in BOOLEAN
  /\ broken \in {{}} \cup {{p} : p \in {q \in DOMAIN tree : tree[q].type = "file"}}
  /\ PackStart

Turns(place) == ppc' = place
CallFails == faults < MaxPackFaults /\ faults' = faults + 1

-----------------------------------------------------------------------------
(* pkg_pack_new: the script is the first item.                             *)

ScriptItem ==
  [type |-> "file", name |-> <<Char("s")>>, contents |-> Script, link |-> <<>>]

PackScript ==
  /\ ppc = "new"
  /\ tar' = WriteItem(ScriptItem)
  /\ packed' = <<[path |-> <<>>, item |-> ScriptItem, size |-> Len(Script)]>>
  /\ Turns("args")
  /\ UNCHANGED <<world, walk, offset, begin, chunks, out, ended, faults>>

\* The script cannot be opened or read, or main was given none.
ScriptFails ==
  /\ ppc = "new" /\ CallFails
  /\ ended' = "failed" /\ Turns("exited")
  /\ UNCHANGED <<world, walk, offset, begin, buffers, packed>>

-----------------------------------------------------------------------------
(* main and the walk of pkg_pack_path.                                     *)

TakeArgument ==
  /\ ppc = "args" /\ args # <<>>
  /\ top' = Head(args) /\ visit' = Head(args) /\ args' = Tail(args)
  /\ Turns("visit")
  /\ UNCHANGED <<world, stack, offset, begin, buffers, ended, packed, faults>>

\* The name of a path is what follows its argument (override_name).
Joined(names) == FlattenSeq([i \in 1..Len(names) |-> <<Sep, Char(names[i])>>])
NameBelow(argument, path) == Joined(SubSeq(path, Len(argument) + 1, Len(path)))
NameOf(path) == NameBelow(top, path)

Missing == [type |-> "missing", contents |-> <<>>, link |-> <<>>]
entry == IF visit \in DOMAIN tree THEN tree[visit] ELSE Missing
SizeOf == CASE entry.type = "file" -> Len(entry.contents) [] entry.type = "dir" -> DirSize
            [] OTHER -> Len(entry.link)
ItemOf == [type |-> entry.type, name |-> NameOf(visit), contents |-> <<>>, link |-> entry.link]

\* What an item is done with: back to the directory that is open, or to main.
Back == Turns(IF stack = <<>> THEN "args" ELSE "dir")

Packable == {"file", "dir", "symlink"}
Knows == entry.type \in Packable
PackHeader ==
  /\ tar' = tar \o WriteSized(ItemOf, SizeOf)
  /\ packed' = Append(packed, [path |-> visit, item |-> ItemOf, size |-> SizeOf])

VisitFile ==
  /\ ppc = "visit" /\ entry.type = "file" /\ PackHeader
  /\ Turns("open")
  /\ UNCHANGED <<world, walk, offset, begin, chunks, out, ended, faults>>

VisitLink ==
  /\ ppc = "visit" /\ entry.type = "symlink" /\ PackHeader
  /\ Back
  /\ UNCHANGED <<world, walk, offset, begin, chunks, out, ended, faults>>

Entries(dir) == {p \in DOMAIN tree : Len(p) = Len(dir) + 1 /\ SubSeq(p, 1, Len(dir)) = dir}

VisitDir ==
  /\ ppc = "visit" /\ entry.type = "dir" /\ PackHeader
  /\ stack' = Append(stack, [dir |-> visit, left |-> Entries(visit)])
  /\ Turns("dir")
  /\ UNCHANGED <<world, args, top, visit, offset, begin, chunks, out, ended, faults>>

\* opendir(3) fails: readdir(3) is called with a null pointer.
DirCrashes ==
  /\ ppc = "visit" /\ entry.type = "dir" /\ PackHeader /\ CallFails
  /\ ended' = "crashed" /\ Turns("exited")
  /\ UNCHANGED <<world, walk, offset, begin, chunks, out>>

\* Entries come in any order.
NextEntry ==
  /\ ppc = "dir" /\ Last(stack).left # {}
  /\ \E p \in Last(stack).left :
       /\ visit' = p
       /\ stack' = [stack EXCEPT ![Len(stack)].left = @ \ {p}]
  /\ Turns("visit")
  /\ UNCHANGED <<world, args, top, offset, begin, buffers, ended, packed, faults>>

LeaveDir ==
  /\ ppc = "dir" /\ Last(stack).left = {}
  /\ stack' = Front(stack)
  /\ Turns(IF Len(stack) = 1 THEN "args" ELSE "dir")
  /\ UNCHANGED <<world, args, top, visit, offset, begin, buffers, ended, packed, faults>>

\* A path fails: so do all the directories above it, and main does not ask.
GiveUp == stack' = <<>> /\ Turns("args") /\ UNCHANGED <<args, top, visit>>

VisitFails ==
  /\ ppc = "visit"
  /\ \/ ~Knows /\ UNCHANGED faults
     \/ Knows /\ CallFails
  /\ GiveUp
  /\ UNCHANGED <<world, offset, begin, buffers, ended, packed>>

-----------------------------------------------------------------------------
(* pkg_pack_file.                                                          *)

OpenFile ==
  /\ ppc = "open" /\ offset' = 0
  /\ Turns("flush")
  /\ UNCHANGED <<world, walk, begin, buffers, ended, packed, faults>>

OpenFails ==
  /\ ppc = "open" /\ CallFails /\ GiveUp
  /\ UNCHANGED <<world, offset, begin, buffers, ended, packed>>

\* flush_tar_buffer, and flush_compress_buffer after it.
Deflated == IF compress THEN Append(chunks, [kind |-> "chunk", data |-> tar]) ELSE chunks
Compressed(cs) == Len(cs) >= ChunkLimit

TarIsFull == Len(tar) >= BufferLimit

\* optional_flush_buffers: only a buffer that has reached the limit is flushed.
FlushWorks ==
  /\ ppc = "flush"
  /\ IF ~TarIsFull THEN UNCHANGED buffers
     ELSE /\ tar' = <<>>
          /\ IF ~compress THEN out' = out \o tar /\ UNCHANGED chunks
             ELSE IF Compressed(Deflated) THEN out' = out \o Deflated /\ chunks' = <<>>
             ELSE chunks' = Deflated /\ UNCHANGED out
  /\ begin' = Len(tar') /\ Turns("read")
  /\ UNCHANGED <<world, walk, offset, ended, packed, faults>>

\* Some of a buffer is written before a write(2) fails; all of it stays in the
\* buffer, and pkg_pack_file does not ask.
FlushFails ==
  /\ ppc = "flush" /\ TarIsFull /\ CallFails
  /\ IF compress
     THEN /\ Compressed(Deflated)
          /\ \E n \in 0..(Len(Deflated) - 1) : out' = out \o SubSeq(Deflated, 1, n)
          /\ tar' = <<>> /\ chunks' = Deflated
     ELSE /\ \E n \in 0..(Len(tar) - 1) : out' = out \o SubSeq(tar, 1, n)
          /\ UNCHANGED <<tar, chunks>>
  /\ begin' = Len(tar') /\ Turns("read")
  /\ UNCHANGED <<world, walk, offset, ended, packed>>

\* buffer_read: up to the limit of the buffer.
Room == BufferLimit - Len(tar)
Unread == Len(entry.contents) - offset
Least(a, b) == IF a < b THEN a ELSE b

PackReads ==
  /\ ppc = "read" /\ Room > 0 /\ Unread > 0 /\ visit \notin broken
  /\ \E n \in 1..Least(Room, Unread) :
       LET read == SubSeq(entry.contents, offset + 1, offset + n)
       IN  /\ tar' = tar \o read /\ offset' = offset + n
           /\ packed' = [packed EXCEPT ![Len(packed)].item.contents = @ \o read]
  /\ UNCHANGED <<world, ppc, walk, begin, chunks, out, ended, faults>>

\* A result of -1 is kept unsigned, and the read is made again.  The buffer
\* keeps what it was extended by, unless it had room; one that was emptied has.
ReadFails ==
  /\ ppc = "read" /\ Room > 0 /\ visit \in broken
  /\ \/ UNCHANGED tar
     \/ tar # <<>> /\ tar' = tar \o [i \in 1..(Len(tar) + 1) |-> Garbage]
  /\ UNCHANGED <<world, ppc, walk, offset, begin, chunks, out, ended, packed, faults>>

\* Nothing was read: the file has ended, or the buffer is full.
ReadsNothing == Room <= 0 \/ (Unread <= 0 /\ visit \notin broken)

\* Mutant: what was read into a full buffer is left there.
ReadAgain_Unflushed ==
  /\ ppc = "read" /\ ReadsNothing /\ begin # Len(tar)
  /\ begin' = Len(tar)
  /\ UNCHANGED <<world, ppc, walk, offset, buffers, ended, packed, faults>>

ReadAgain ==
  /\ ppc = "read" /\ ReadsNothing /\ begin # Len(tar)
  /\ Turns("flush")
  /\ UNCHANGED <<world, walk, offset, begin, buffers, ended, packed, faults>>

\* Mutant: the loop ends with the file only.
FileEnds_NotFull ==
  /\ ppc = "read" /\ Room > 0 /\ ReadsNothing /\ begin = Len(tar)
  /\ tar' = tar \o Padding(Last(packed).size)
  /\ Back
  /\ UNCHANGED <<world, walk, offset, begin, chunks, out, ended, packed, faults>>

\* Padding is by the size in the header.
FileEnds ==
  /\ ppc = "read" /\ ReadsNothing /\ begin = Len(tar)
  /\ tar' = tar \o Padding(Last(packed).size)
  /\ Back
  /\ UNCHANGED <<world, walk, offset, begin, chunks, out, ended, packed, faults>>

-----------------------------------------------------------------------------
\* pkg_pack_finish.
PackFinish ==
  /\ ppc = "args" /\ args = <<>>
  /\ LET whole == tar \o End IN
     out' = out \o IF compress THEN Append(chunks, [kind |-> "chunk", data |-> whole]) ELSE whole
  /\ tar' = <<>> /\ chunks' = <<>>
  /\ ended' = "ok" /\ Turns("exited")
  /\ UNCHANGED <<world, walk, offset, begin, packed, faults>>

FinishFails ==
  /\ ppc = "args" /\ args = <<>> /\ CallFails
  /\ ended' = "failed" /\ Turns("exited")
  /\ UNCHANGED <<world, walk, offset, begin, buffers, packed>>

\* Someone writes a file that is being packed.
EditFile ==
  /\ edits < MaxPackEdits /\ ppc # "exited"
  /\ \E p \in DOMAIN tree : \E c \in Edited :
       /\ tree[p].type = "file" /\ tree[p].contents # c
       /\ tree' = [tree EXCEPT ![p].contents = c]
  /\ edits' = edits + 1
  /\ UNCHANGED <<compress, broken, ppc, walk, offset, begin, buffers, ended, packed, faults>>

Program ==
  \/ PackScript \/ TakeArgument \/ VisitFile \/ VisitLink \/ VisitDir \/ NextEntry \/ LeaveDir
  \/ OpenFile \/ FlushWorks \/ PackReads \/ ReadFails \/ ReadAgain \/ FileEnds \/ PackFinish

PackNext ==
  \/ Program \/ ScriptFails \/ DirCrashes \/ VisitFails \/ OpenFails \/ FlushFails \/ FinishFails
  \/ EditFile

PackSpec == PackInit /\ [][PackNext]_packVars

\* The program runs on, and no call blocks for ever.
PackSteps == Program \/ VisitFails
PackFairSpec == PackSpec /\ WF_packVars(PackSteps)

-----------------------------------------------------------------------------
Plain(stream) ==
  IF compress THEN FlattenSeq([i \in 1..Len(stream) |-> stream[i].data]) ELSE stream
Stream(entries) ==
  FlattenSeq([i \in 1..Len(entries) |->
    WriteSized(entries[i].item, entries[i].size)
      \o entries[i].item.contents
      \o IF entries[i].item.type = "file" THEN Padding(entries[i].size) ELSE <<>>])

\* The paths below the arguments.
Below == {p \in DOMAIN tree : \E i \in 1..Len(Arguments) : IsPrefix(Arguments[i], p)}

\* What an entry says of its path: the name is that below an argument.
Describes(e) ==
  /\ e.item.type = tree[e.path].type /\ e.item.link = tree[e.path].link
  /\ \E i \in 1..Len(Arguments) :
       IsPrefix(Arguments[i], e.path) /\ e.item.name = NameBelow(Arguments[i], e.path)

\* A file's entry has all its contents, and says how many.
IsWhole(e) == e.item.type = "file" =>
                e.item.contents = tree[e.path].contents /\ e.size = Len(e.item.contents)

\* No argument is below another.
ArgumentsDiffer ==
  \A i, j \in 1..Len(Arguments) : i # j => ~IsPrefix(Arguments[i], Arguments[j])

\* After a success without failures, what was written is, whatever was flushed
\* when, the script and then what was packed, up to the end of the archive: of
\* paths below the arguments, as they are, whole if no file was edited after its
\* header was written; each once, if no argument is below another; and all of
\* them, if they can be packed (pkg-pack.c:157-284).
PackedIsFaithful ==
  (ended = "ok" /\ faults = 0 /\ broken = {}) =>
    /\ Plain(out) = Stream(packed) \o End
    /\ packed # <<>> /\ packed[1].item = ScriptItem
    /\ \A i \in 2..Len(packed) :
         /\ packed[i].path \in Below /\ Describes(packed[i])
         /\ edits = 0 => IsWhole(packed[i])
    /\ ArgumentsDiffer =>
         \A i, j \in 2..Len(packed) : packed[i].path = packed[j].path => i = j
    /\ (\A p \in DOMAIN tree : tree[p].type \in Packable) =>
         Below \subseteq {packed[i].path : i \in 2..Len(packed)}

\* The program ends, when files can be read: each turn of pkg_pack_file's loop
\* reads something, or flushes it, or is the last (pkg-pack.c:173-195).
PackEnds == broken = {} => <>(ppc = "exited")
=============================================================================
