------------------------------- MODULE MCPkg -------------------------------
(* One instance of each of TarReader, PkgInstall and PkgPack: a behaviour is *)
(* one of the part that Init chooses, and the other two stay where they are. *)
EXTENDS TarReader, PkgInstall, PkgPack

VARIABLE part

\* tar: blocks of four units, of which a name may have two in a header, besides a
\* separator and the zero.
Name(s) == [i \in 1..Len(s) |-> Char(s[i])]
Contents(n) == [i \in 1..n |-> [kind |-> "byte", byte |-> i]]

File(text, n) == [type |-> "file", name |-> text, contents |-> Contents(n), link |-> <<>>]
Dir(text) == [type |-> "dir", name |-> text, contents |-> <<>>, link |-> <<>>]
LinkTo(kind, text, target) ==
  [type |-> kind, name |-> text, contents |-> <<>>, link |-> target]

A == Name(<<"a">>)
B == Name(<<"b", "c">>)              \* fits, unless a separator is added
Long == Name(<<"d", "e", "f">>)      \* does not fit; a block with its zero
Longer == Name(<<"g", "h", "i", "j", "k">>)
Exact == Name(<<"g", "h", "i", "j">>)    \* fills a block without its zero

\* Files that fill no block, a part of one, one, and one and a part; names that
\* fit, and two files and a directory with one that does not.
MCItems ==
  {File(A, 0), File(B, 1), File(A, 4), File(B, 5), File(Long, 1), File(Longer, 0),
   Dir(A), Dir(B), LinkTo("symlink", A, B), LinkTo("hardlink", B, A)}

\* Files that do and do not fill their block, and the items that are given a
\* wrong name or target after one that does.
MCMixedUp ==
  {File(A, 4), File(A, 5), LinkTo("symlink", B, Long), File(Exact, 0)}

\* pkg-install: two spellings of one directory, and none.
MCDirOf == [s \in Spellings |-> IF s = "" THEN "/" ELSE "r"]
MCPaths == {<<"a">>, <<"a", "f">>, <<"b">>, <<"build.sh">>}

BuildSh(package) ==
  [type |-> "file", path |-> <<"build.sh">>, contents |-> <<0>>, names |-> package]
Of(kind, where, data) == [type |-> kind, path |-> where, contents |-> data, names |-> None]

\* Two packages that share a file, a second version of one that has a file where
\* the first had a directory, and two that are not installed.
MCPackages ==
  {<<Of("dir", <<"a">>, <<>>), BuildSh("p"), Of("dir", <<"a">>, <<>>),
     Of("file", <<"a", "f">>, <<1, 2>>)>>,
   <<BuildSh("q"), Of("file", <<"a", "f">>, <<3>>), Of("symlink", <<"b">>, <<>>)>>,
   <<BuildSh("p"), Of("file", <<"a">>, <<4>>), Of("file", <<"b">>, <<>>)>>,
   <<Of("symlink", <<"b">>, <<>>), BuildSh("p")>>,
   <<BuildSh(None), Of("file", <<"b">>, <<>>)>>}

MCConfigs ==
  {[read |-> TRUE, protect |-> {}], [read |-> TRUE, protect |-> {<<"a">>}],
   [read |-> FALSE, protect |-> {}]}

\* pkg-pack: files shorter and longer than the buffer, an empty one, a directory
\* in a directory, a link, a path of another type, and an argument of no path.
Of3(n) == [type |-> "file", contents |-> Contents(n), link |-> <<>>]
Folder == [type |-> "dir", contents |-> <<>>, link |-> <<>>]
Other == [type |-> "fifo", contents |-> <<>>, link |-> <<>>]
LinkToT == [type |-> "symlink", contents |-> <<>>, link |-> <<Char("t")>>]

MCTrees ==
  LET One == (<<"d">> :> Folder) @@ (<<"d", "a">> :> Of3(5))
      Deep == (<<"d">> :> Folder) @@ (<<"d", "a">> :> Of3(4)) @@ (<<"d", "e">> :> Folder)
                @@ (<<"d", "e", "a">> :> Of3(11)) @@ (<<"f">> :> Of3(0))
  IN  {One @@ (<<"d", "b">> :> LinkToT), One @@ (<<"d", "b">> :> Other), Deep}
MCArguments == << <<"d">>, <<"f">> >>
MCScript == Contents(3)
MCEdited == {Contents(0), Contents(6)}

MCInit ==
  /\ part \in {"tar", "install", "pack"}
  /\ part # "tar" => items = <<>> /\ stream = <<>>
  /\ part # "install" => config = [d \in Dirs |-> [read |-> TRUE, protect |-> {}]]
  /\ part # "pack" => tree = <<>> /\ compress = FALSE
  /\ Init /\ InstallInit
  /\ IF part = "pack" THEN PackInit
     ELSE PackStart /\ broken = {}

MCNext ==
  /\ UNCHANGED part
  /\ \/ part = "tar" /\ Next /\ UNCHANGED <<installVars, packVars>>
     \/ part = "install" /\ InstallNext /\ UNCHANGED <<vars, packVars>>
     \/ part = "pack" /\ PackNext /\ UNCHANGED <<vars, installVars>>

MCSpec ==
  /\ MCInit /\ [][MCNext]_<<part, vars, installVars, packVars>>
  /\ WF_packVars(part = "pack" /\ PackSteps /\ UNCHANGED <<part, vars, installVars>>)

\* The archives alone.
MCTarSpec == part = "tar" /\ MCInit /\ [][MCNext]_<<part, vars, installVars, packVars>>

MCPackEnds == part = "pack" => PackEnds
=============================================================================
