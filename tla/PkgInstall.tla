----------------------------- MODULE PkgInstall -----------------------------
(***************************************************************************)
(* The program pkg-install (pkg/pkg-install.util.c, pkg-install.c,         *)
(* pkg-root.c), run again and again over the same roots.  A run opens a    *)
(* root (the configuration, then the log of owners), installs the items of *)
(* an archive from its standard input, and closes the root, which writes   *)
(* the log anew.  Any step may be the last one of a run that is killed, and *)
(* calls may fail.                                                         *)
(*                                                                         *)
(* A root is named by the spelling -p gives, "" standing for none; several *)
(* spellings may name one directory.  (The files of "" lie in the working  *)
(* directory, which is taken to be /, where its log and configuration are.) *)
(* A path is a sequence of names; the contents of a file are a sequence of *)
(* chunks, each of which is one turn of write_file's loop.  The archive is *)
(* what tar_update_fd makes of it (TarReader).  Packages do not hold the   *)
(* log or the configuration themselves.                                    *)
(***************************************************************************)
EXTENDS Integers, Sequences, FiniteSets

CONSTANTS
  Spellings,    \* the names of roots, "" among them
  DirOf,        \* the directory a spelling names
  Paths,        \* the paths of packages, with the directories above them
  Packages,     \* archives: sequences of items
  Configs,      \* configurations: [read |-> it can be read, protect |-> paths]
  MaxRuns,      \* bound: runs
  MaxFaults     \* bound: calls that fail, and runs that are killed

None == "none"
\* What the archives are made of.
PackageItems == UNION {{package[i] : i \in DOMAIN package} : package \in Packages}
Chunks == UNION {{item.contents[i] : i \in DOMAIN item.contents} : item \in PackageItems}

ASSUME InstallAssumption ==
  /\ "" \in Spellings
  /\ \A path \in Paths : path \in Seq({path[i] : i \in DOMAIN path})
  /\ Packages \subseteq Seq(PackageItems)
  /\ \A item \in PackageItems : item.path \in Paths /\ item.contents \in Seq(Chunks)

Dirs == {DirOf[s] : s \in Spellings}
Keys == Spellings \X Paths     \* path_cat (root, path), as the log has it

VARIABLES
  node,      \* the directories: what is at each path
  logs,      \* the logs: their lines, and whether a torn one follows these
  config,    \* the configurations
  ipc,       \* where the run is
  asked,     \* the spelling given by -p
  root,      \* pkg_root: the spelling that is open
  table,     \*   log, as owners of keys
  todo,      \*   the lines that are still to be dumped
  opened,    \* whether pkg_root_open has returned the root
  archive,   \* what is installed
  cut,       \* how much of it arrives: whole headers, and chunks of the last
  taken,     \* items taken
  name,      \* tmp.name
  chunk,     \* chunks written of the current file
  status,    \* what main returns
  fresh,     \* history: whether the current file was made by this run
  runs,      \* history: runs so far
  writer,    \* history: the package that wrote a file last, and its key
  lapses     \* history: what has gone wrong so far

fileVars == <<node, writer>>
rootVars == <<asked, root, table, opened>>
itemVars == <<archive, cut, taken, name, chunk, fresh>>
installVars == <<node, logs, config, ipc, asked, root, table, todo, opened, archive,
                 cut, taken, name, chunk, fresh, status, runs, writer, lapses>>

Absent == [kind |-> "absent"]
DirNode == [kind |-> "dir"]
FileNode(data) == [kind |-> "file", data |-> data]
NoWriter == [name |-> None, key |-> <<>>]
NoOwners == [k \in Keys |-> None]

InstallInit ==
  /\ node = [d \in Dirs |-> [p \in Paths |-> Absent]]
  /\ logs = [d \in Dirs |-> [lines |-> {}, torn |-> FALSE]]
  /\ config \in [Dirs -> Configs]
  /\ ipc = "idle" /\ asked = "" /\ root = "" /\ table = NoOwners /\ todo = {}
  /\ opened = FALSE /\ archive = <<>> /\ cut = [items |-> 0, chunks |-> 0]
  /\ taken = 0 /\ name = None /\ chunk = 0 /\ fresh = FALSE /\ status = "none" /\ runs = 0
  /\ writer = [d \in Dirs |-> [p \in Paths |-> NoWriter]]
  /\ lapses = <<>>

-----------------------------------------------------------------------------
(* Steps, and what may go wrong.                                           *)

Goes(place) == ipc' = place
Lapse(kind) == lapses' = Append(lapses, kind)
Fault(kind) ==
  /\ Cardinality({i \in DOMAIN lapses : lapses[i] # "config"}) < MaxFaults
  /\ Lapse(kind)

here == DirOf[root]

\* main's two ways out, both of which close the root.
Succeeds == status' = "ok" /\ Goes("close")
Fails == status' = "failed" /\ Goes("close")

StartRun ==
  /\ ipc \in {"idle", "exited"} /\ runs < MaxRuns
  /\ asked' \in Spellings /\ root' = asked' /\ table' = NoOwners /\ opened' = FALSE
  /\ archive' \in Packages
  /\ \E n \in 0..Len(archive') : \E c \in 0..(IF n = 0 THEN 0 ELSE Len(archive'[n].contents)) :
       cut' = [items |-> n, chunks |-> c]
  /\ taken' = 0 /\ name' = None /\ chunk' = 0 /\ fresh' = FALSE /\ status' = "none" /\ runs' = runs + 1
  /\ Goes("config")
  /\ UNCHANGED <<fileVars, logs, config, todo, lapses>>

-----------------------------------------------------------------------------
(* pkg_root_open.                                                          *)

LoadConfig ==
  /\ ipc = "config" /\ config[here].read
  /\ Goes("log")
  /\ UNCHANGED <<fileVars, logs, config, rootVars, todo, itemVars, status, runs, lapses>>

\* A configuration that is not there is one that protects nothing.
LoadConfigFails ==
  /\ ipc = "config"
  /\ \/ ~config[here].read /\ Lapse("config")
     \/ config[here].read /\ Fault("call")
  /\ Goes("close")
  /\ UNCHANGED <<fileVars, logs, config, rootVars, todo, itemVars, status, runs>>

\* The owners that lines of the log give.
OwnersIn(lines) ==
  [k \in Keys |-> IF \E l \in lines : l.key = k
                  THEN (CHOOSE l \in lines : l.key = k).owner ELSE None]

ReadLog ==
  /\ ipc = "log" /\ ~logs[here].torn
  /\ table' = OwnersIn(logs[here].lines) /\ opened' = TRUE
  /\ Goes("opened")
  /\ UNCHANGED <<fileVars, logs, config, asked, root, todo, itemVars, status, runs, lapses>>

\* A read(2) that fails ends the lines as the end of the log does.
ReadLogBreaksOff ==
  /\ ipc = "log" /\ Fault("call")
  /\ \E lines \in SUBSET logs[here].lines : table' = OwnersIn(lines)
  /\ opened' = TRUE /\ Goes("opened")
  /\ UNCHANGED <<fileVars, logs, config, asked, root, todo, itemVars, status, runs>>

\* The log cannot be opened, or its last line is not one.
ReadLogFails ==
  /\ ipc = "log"
  /\ \/ Fault("call") /\ UNCHANGED table
     \/ logs[here].torn /\ table' = OwnersIn(logs[here].lines) /\ UNCHANGED lapses
  /\ Goes("close")
  /\ UNCHANGED <<fileVars, logs, config, asked, root, opened, todo, itemVars, status, runs>>

\* A second -p, or a package given by its name.
MainRefuses ==
  /\ ipc = "opened" /\ Fails
  /\ UNCHANGED <<fileVars, logs, config, rootVars, todo, itemVars, runs, lapses>>

MainInstalls ==
  /\ ipc = "opened" /\ Goes("leading")
  /\ UNCHANGED <<fileVars, logs, config, rootVars, todo, itemVars, status, runs, lapses>>

-----------------------------------------------------------------------------
(* pkg_install_fd, up to build.sh.                                         *)

HasNext == taken < cut.items      \* tar_update_fd returns true
next == archive[taken + 1]
\* How many chunks of the next item arrive.
Arriving == IF taken + 1 < cut.items THEN Len(next.contents) ELSE cut.chunks
Arrives == Arriving = Len(next.contents)

TakesLeadingDir ==
  /\ ipc = "leading" /\ HasNext /\ next.type = "dir"
  /\ taken' = taken + 1
  /\ UNCHANGED <<fileVars, logs, config, ipc, rootVars, todo, archive, cut, name, chunk, fresh,
                 status, runs, lapses>>

\* verify_build_sh_name: what follows the first separator.
IsBuildSh(item) ==
  /\ item.type = "file"
  /\ item.path = <<"build.sh">> \/ (Len(item.path) = 2 /\ item.path[2] = "build.sh")

\* parse_build_sh has found a name without blanks.
ParsesBuildSh ==
  /\ ipc = "leading" /\ HasNext /\ IsBuildSh(next) /\ Arrives /\ next.names # None
  /\ name' = next.names /\ taken' = taken + 1
  /\ Goes("items")
  /\ UNCHANGED <<fileVars, logs, config, rootVars, todo, archive, cut, chunk, fresh, status, runs,
                 lapses>>

LeadingFails ==
  /\ ipc = "leading"
  /\ HasNext => /\ next.type # "dir"
                /\ ~(IsBuildSh(next) /\ Arrives /\ next.names # None)
  /\ Fails
  /\ UNCHANGED <<fileVars, logs, config, rootVars, todo, itemVars, runs, lapses>>

-----------------------------------------------------------------------------
(* The items after build.sh.                                               *)

Above(path) == {SubSeq(path, 1, n) : n \in 1..(Len(path) - 1)}

\* _path_mkdir: a path that exists is taken for a directory.
MkdirWorks(paths) ==
  \A p \in paths : \A q \in Above(p) : node[here][q].kind # "file"
Made(paths) ==
  [p \in Paths |-> IF p \in paths /\ node[here][p] = Absent THEN DirNode ELSE node[here][p]]

Key(path) == <<root, path>>

TakesNext == taken' = taken + 1 /\ UNCHANGED <<archive, cut, name, fresh>>

\* The archive has ended, or was cut short before a header.
ItemsEnd ==
  /\ ipc = "items" /\ ~HasNext /\ Succeeds
  /\ UNCHANGED <<fileVars, logs, config, rootVars, todo, itemVars, runs, lapses>>

InstallsDir ==
  /\ ipc = "items" /\ HasNext /\ next.type = "dir"
  /\ MkdirWorks(Above(next.path) \union {next.path})
  /\ node' = [node EXCEPT ![here] = Made(Above(next.path) \union {next.path})]
  /\ TakesNext
  /\ UNCHANGED <<logs, config, ipc, rootVars, todo, chunk, status, runs, writer, lapses>>

\* Links are not installed.
PassesLink ==
  /\ ipc = "items" /\ HasNext /\ next.type \notin {"file", "dir"}
  /\ TakesNext
  /\ UNCHANGED <<fileVars, logs, config, ipc, rootVars, todo, chunk, status, runs, lapses>>

\* Mutant: what is below an argument is not protected.
ProtectedBy_Exact(path, arg) == path = arg
\* is_protected_compare: the argument itself, or what is below it.
ProtectedBy(path, arg) ==
  Len(arg) <= Len(path) /\ SubSeq(path, 1, Len(arg)) = arg
IsProtected(path) == \E arg \in config[here].protect : ProtectedBy(path, arg)

\* A path that exists, a directory too.
IsKept(path) == node[here][path] # Absent /\ IsProtected(path)

\* tar_skip_file may fail, which ends the archive.
SkipsProtected ==
  /\ ipc = "items" /\ HasNext /\ next.type = "file" /\ IsKept(next.path)
  /\ TakesNext
  /\ UNCHANGED <<fileVars, logs, config, ipc, rootVars, todo, chunk, status, runs, lapses>>

\* Mutant: whoever comes owns.
MayTake_Always(key) == table[key] \in {None, name} \/ name # None

\* take_ownership.
MayTake(key) == table[key] \in {None, name}

\* open (O_CREAT) of a path whose parents were made, or are taken for made.
CanOpen(path) ==
  /\ node[here][path].kind # "dir"
  /\ \A q \in Above(path) : node[here][q].kind # "file"

\* Mutant: the owner is taken when the file has been written.
OpensFile_OwnsLater ==
  /\ ipc = "items" /\ HasNext /\ next.type = "file" /\ ~IsKept(next.path)
  /\ MkdirWorks(Above(next.path)) /\ MayTake(Key(next.path)) /\ CanOpen(next.path)
  /\ table' = [table EXCEPT ![Key(next.path)] = IF Arrives THEN name ELSE @]
  /\ node' = [node EXCEPT ![here] =
                [Made(Above(next.path)) EXCEPT ![next.path] =
                   IF @ = Absent THEN FileNode(<<>>) ELSE @]]
  /\ writer' = [writer EXCEPT ![here][next.path] = [name |-> name, key |-> Key(next.path)]]
  /\ chunk' = 0 /\ fresh' = (node[here][next.path] = Absent) /\ Goes("file")
  /\ UNCHANGED <<logs, config, asked, root, opened, todo, archive, cut, taken, name, status,
                 runs, lapses>>

OpensFile ==
  /\ ipc = "items" /\ HasNext /\ next.type = "file" /\ ~IsKept(next.path)
  /\ MkdirWorks(Above(next.path)) /\ MayTake(Key(next.path)) /\ CanOpen(next.path)
  /\ table' = [table EXCEPT ![Key(next.path)] = name]
  /\ node' = [node EXCEPT ![here] =
                [Made(Above(next.path)) EXCEPT ![next.path] =
                   IF @ = Absent THEN FileNode(<<>>) ELSE @]]
  /\ writer' = [writer EXCEPT ![here][next.path] = [name |-> name, key |-> Key(next.path)]]
  /\ chunk' = 0 /\ fresh' = (node[here][next.path] = Absent) /\ Goes("file")
  /\ UNCHANGED <<logs, config, asked, root, opened, todo, archive, cut, taken, name, status,
                 runs, lapses>>

\* A directory cannot be made, or the file has another owner, or, when it has
\* been made the package's own, cannot be opened.
ItemFails ==
  /\ ipc = "items" /\ HasNext /\ Fails
  /\ \/ /\ next.type \in {"dir", "file"} /\ (next.type = "file" => ~IsKept(next.path))
        /\ \/ ~MkdirWorks(Above(next.path) \union IF next.type = "dir" THEN {next.path} ELSE {})
              /\ UNCHANGED lapses
           \/ Fault("call")
        /\ UNCHANGED <<node, table>>
     \/ /\ next.type = "file" /\ ~IsKept(next.path) /\ MkdirWorks(Above(next.path))
        /\ ~MayTake(Key(next.path))
        /\ node' = [node EXCEPT ![here] = Made(Above(next.path))]
        /\ UNCHANGED <<table, lapses>>
     \/ /\ next.type = "file" /\ ~IsKept(next.path) /\ MkdirWorks(Above(next.path))
        /\ MayTake(Key(next.path))
        /\ \/ ~CanOpen(next.path) /\ UNCHANGED lapses
           \/ Fault("call")
        /\ node' = [node EXCEPT ![here] = Made(Above(next.path))]
        /\ table' = [table EXCEPT ![Key(next.path)] = name]
  /\ UNCHANGED <<logs, config, asked, root, opened, todo, itemVars, runs, writer>>

-----------------------------------------------------------------------------
(* write_file, after its open: the file is not truncated.                  *)

Overwritten(data, n, value) ==
  [i \in 1..(IF n > Len(data) THEN n ELSE Len(data)) |-> IF i = n THEN value ELSE data[i]]

WritesChunk ==
  /\ ipc = "file" /\ chunk < Arriving
  /\ node' = [node EXCEPT ![here][next.path].data =
                Overwritten(@, chunk + 1, next.contents[chunk + 1])]
  /\ chunk' = chunk + 1
  /\ UNCHANGED <<logs, config, ipc, rootVars, todo, archive, cut, taken, name, fresh, status,
                 runs, writer, lapses>>

\* Mutant: an archive that ends ends the file.
FileIsWritten_WhenEnded ==
  /\ ipc = "file" /\ (chunk = Len(next.contents) \/ chunk = Arriving)
  /\ TakesNext /\ Goes("items")
  /\ UNCHANGED <<fileVars, logs, config, rootVars, todo, chunk, status, runs, lapses>>

FileIsWritten ==
  /\ ipc = "file" /\ chunk = Len(next.contents)
  /\ TakesNext /\ Goes("items")
  /\ UNCHANGED <<fileVars, logs, config, rootVars, todo, chunk, status, runs, lapses>>

\* The archive ends inside the file, or a read(2) or write(2) fails.
WriteFails ==
  /\ ipc = "file" /\ chunk < Len(next.contents) /\ Fails
  /\ \/ chunk = Arriving /\ UNCHANGED lapses
     \/ Fault("call")
  /\ UNCHANGED <<fileVars, logs, config, rootVars, todo, itemVars, runs>>

-----------------------------------------------------------------------------
(* pkg_root_close: the log is truncated, and each key with an owner dumped, *)
(* in the order of the table's buckets.  Its result is dropped.            *)

DumpOpens ==
  /\ ipc = "close"
  /\ logs' = [logs EXCEPT ![here] = [lines |-> {}, torn |-> FALSE]]
  /\ todo' = {[owner |-> table[k], key |-> k] : k \in {l \in Keys : table[l] # None}}
  /\ Goes("dump")
  /\ UNCHANGED <<fileVars, config, rootVars, itemVars, status, runs, lapses>>

DumpCannotOpen ==
  /\ ipc = "close" /\ Fault("call")
  /\ todo' = {} /\ Goes("dump")
  /\ UNCHANGED <<fileVars, logs, config, rootVars, itemVars, status, runs>>

DumpWrites ==
  /\ ipc = "dump"
  /\ \E line \in todo :
       /\ logs' = [logs EXCEPT ![here].lines = @ \union {line}]
       /\ todo' = todo \ {line}
  /\ UNCHANGED <<fileVars, config, ipc, rootVars, itemVars, status, runs, lapses>>

\* What is left of a line that still parses: its path ends early, or is whole.
Torn(line) ==
  {l \in {[line EXCEPT !.key = <<@[1], SubSeq(@[2], 1, n)>>] : n \in 1..Len(line.key[2])} :
     l.key \in Keys}

\* A write that fails leaves nothing of its line, a line that is none, or one that
\* parses, which as the last of its path counts.
DumpBreaksOff ==
  /\ ipc = "dump" /\ todo # {} /\ Fault("call")
  /\ todo' = {}
  /\ \/ \E torn \in BOOLEAN : logs' = [logs EXCEPT ![here].torn = torn]
     \/ \E last \in UNION {Torn(line) : line \in todo} :
          logs' = [logs EXCEPT ![here].lines = {l \in @ : l.key # last.key} \union {last}]
  /\ UNCHANGED <<fileVars, config, ipc, rootVars, itemVars, status, runs>>

\* The root is closed because main is done with it.
MainReturns ==
  /\ ipc = "dump" /\ todo = {} /\ opened
  /\ Goes("exited")
  /\ UNCHANGED <<fileVars, logs, config, rootVars, todo, itemVars, status, runs, lapses>>

\* The root that was given could not be opened: main opens "" instead.
MainFallsBack ==
  /\ ipc = "dump" /\ todo = {} /\ ~opened /\ root # ""
  /\ root' = "" /\ table' = NoOwners /\ Goes("config")
  /\ UNCHANGED <<fileVars, logs, config, asked, opened, todo, itemVars, status, runs, lapses>>

\* "" could not be opened: main goes on with no root.
MainHasNoRoot ==
  /\ ipc = "dump" /\ todo = {} /\ ~opened /\ root = ""
  /\ status' = "crashed" /\ Goes("exited")
  /\ UNCHANGED <<fileVars, logs, config, rootVars, todo, itemVars, runs, lapses>>

RunIsKilled ==
  /\ ipc \notin {"idle", "exited"} /\ Fault("killed")
  /\ status' = "killed" /\ todo' = {} /\ Goes("exited")
  /\ UNCHANGED <<fileVars, logs, config, rootVars, itemVars, runs>>

InstallNext ==
  \/ StartRun \/ LoadConfig \/ LoadConfigFails \/ ReadLog \/ ReadLogBreaksOff \/ ReadLogFails
  \/ MainRefuses \/ MainInstalls
  \/ TakesLeadingDir \/ ParsesBuildSh \/ LeadingFails
  \/ ItemsEnd \/ InstallsDir \/ PassesLink \/ SkipsProtected \/ OpensFile \/ ItemFails
  \/ WritesChunk \/ FileIsWritten \/ WriteFails
  \/ DumpOpens \/ DumpCannotOpen \/ DumpWrites \/ DumpBreaksOff
  \/ MainReturns \/ MainFallsBack \/ MainHasNoRoot \/ RunIsKilled

InstallSpec == InstallInit /\ [][InstallNext]_installVars

-----------------------------------------------------------------------------
\* Between runs in which nothing went wrong, every file a package has written,
\* be it a part of one, or a package that failed, is that package's in the log:
\* ownership is taken before the file is made, and the log is written on every
\* way out of main (pkg-install.c:286-291, pkg-install.util.c:71-78).
Attributed ==
  (ipc \in {"idle", "exited"} /\ lapses = <<>>) =>
    \A d \in Dirs : \A p \in Paths : writer[d][p] # NoWriter =>
      [owner |-> writer[d][p].name, key |-> writer[d][p].key] \in logs[d].lines

\* As long as nothing has gone wrong, no package opens a file another has
\* written, whatever ran in between (pkg-install.c:111), unless the root is
\* spelled in another way than then, which the log takes for another path.
OwnersHonoured ==
  [][lapses = <<>> =>
       \A d \in Dirs : \A p \in Paths :
         (writer[d][p] # NoWriter /\ writer'[d][p] # writer[d][p]) =>
           \/ writer[d][p].name = name
           \/ writer[d][p].key # <<root, p>>]_installVars

\* A file that is there and that the configuration protects never changes,
\* whatever fails (pkg-install.c:274).
ProtectedKept ==
  [][\A d \in Dirs : \A p \in Paths :
       (/\ \E arg \in config[d].protect :
             \E n \in 0..Len(p) : arg = SubSeq(p, 1, n)
        /\ node[d][p] # Absent /\ ~(ipc = "file" /\ fresh))
       => node'[d][p] = node[d][p]]_installVars

\* Whether the archive names the file again.
NamedAgain(i) ==
  \E j \in (i + 1)..Len(archive) :
    archive[j].type = "file" /\ archive[j].path = archive[i].path

\* What there is to see of an item that was installed: something, if it was
\* protected; else its contents at the beginning of a file, which keeps its end
\* when it was longer before.
IsInstalled(i) ==
  LET item == archive[i]
      there == node[here][item.path]
  IN  \/ item.type \notin {"file", "dir"} \/ NamedAgain(i)
      \/ item.type = "dir" /\ there # Absent
      \/ item.type = "file" /\ IsProtected(item.path) /\ there # Absent
      \/ /\ item.type = "file" /\ there.kind = "file"
         /\ Len(there.data) >= Len(item.contents)
         /\ SubSeq(there.data, 1, Len(item.contents)) = item.contents

\* What a run that is about to return success has installed, when its archive
\* arrived whole: the root that is open has everything that follows build.sh in
\* the archive, but the links (pkg-install.c:255-300).
SuccessMeansInstalled ==
  (ipc = "close" /\ status = "ok" /\ Len(archive) = cut.items) =>
    \A i \in 1..Len(archive) :
      (\E j \in 1..(i - 1) : IsBuildSh(archive[j])) => IsInstalled(i)
=============================================================================
