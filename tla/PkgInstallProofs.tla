-------------------------- MODULE PkgInstallProofs --------------------------
(***************************************************************************)
(* Proofs about PkgInstall: whose files are whose, and which are left      *)
(* alone, for all archives, configurations, roots and faults; about        *)
(* TarReader: what a program is given of an archive; and about PkgPack:    *)
(* what is packed of the paths below its arguments.                        *)
(***************************************************************************)
EXTENDS PkgInstall, PkgPack, TarReader, SequenceLemmas

Names == {None} \union {item.names : item \in PackageItems}
FileNodes == [kind : {"file"}, data : Seq(Chunks)]
Nodes == {Absent, DirNode} \union FileNodes
Lines == [owner : Names, key : Keys]
Writers == {NoWriter} \union [name : Names \ {None}, key : Keys]
\* Where a run is when it has no table yet, and when it has one.
Before == {"idle", "exited", "config", "log"}
Loaded == {"opened", "leading", "items", "file", "close"}
Places == Before \union Loaded \union {"dump"}

InstallTypeOK ==
  /\ node \in [Dirs -> [Paths -> Nodes]]
  /\ logs \in [Dirs -> [lines : SUBSET Lines, torn : BOOLEAN]]
  /\ config \in [Dirs -> Configs]
  /\ ipc \in Places /\ root \in Spellings
  /\ table \in [Keys -> Names] /\ todo \in SUBSET Lines
  /\ opened \in BOOLEAN /\ fresh \in BOOLEAN
  /\ archive \in Seq(PackageItems)
  /\ cut.items \in 0..Len(archive) /\ cut.chunks \in Nat
  /\ cut.items > 0 => cut.chunks <= Len(archive[cut.items].contents)
  /\ taken \in 0..cut.items /\ name \in Names /\ chunk \in Nat
  /\ writer \in [Dirs -> [Paths -> Writers]]
  /\ lapses \in Seq({"config", "call", "killed"})

\* The package has a name once build.sh was read.
Named == ipc \in {"items", "file"} => name # None

\* The file being written: its first chunks are those of the item, and if it was
\* there before, it is not protected.
Writing ==
  ipc = "file" =>
    /\ HasNext /\ next.type = "file" /\ node[here][next.path] \in FileNodes
    /\ chunk <= Arriving /\ chunk <= Len(node[here][next.path].data)
    /\ \A i \in 1..chunk : node[here][next.path].data[i] = next.contents[i]
    /\ fresh \/ ~IsProtected(next.path)

\* The line of the log that a writer has or will have.
LineOf(w) == [owner |-> w.name, key |-> w.key]

\* Where it is known who wrote a file of directory d: in the table while it
\* stands for the log, and in the log before and after.
Known(d, w) ==
  \/ d = here /\ ipc \in Loaded /\ table[w.key] = w.name
  \/ d = here /\ ipc = "dump" /\ LineOf(w) \in logs[d].lines \union todo
  \/ (d # here \/ ipc \in Before) /\ LineOf(w) \in logs[d].lines

\* The logs are whole, and give a key one owner, while nothing has gone wrong.
LogsAreWhole ==
  /\ \A d \in Dirs : ~logs[d].torn
  /\ \A d \in Dirs : \A l, m \in logs[d].lines : l.key = m.key => l = m
  /\ ipc = "dump" => \A l \in logs[here].lines \union todo : l.owner = table[l.key]

WritersAreKnown ==
  \A d \in Dirs : \A p \in Paths : writer[d][p] # NoWriter =>
    writer[d][p].key[2] = p /\ Known(d, writer[d][p])

RootIsOpened == ipc \in Loaded \union {"dump"} => opened

Owned == lapses = <<>> => LogsAreWhole /\ WritersAreKnown /\ RootIsOpened

InstallInv == InstallTypeOK /\ Named /\ Writing /\ Owned

\* Nothing of the archive is taken before a root is open.
Opening ==
  /\ ipc \in {"config", "log"} => ~opened
  /\ ipc \in {"opened", "leading", "items", "file"} => opened
  /\ ~opened \/ ipc = "opened" => taken = 0
  /\ ~opened => status # "ok"

\* What has been taken after build.sh is installed.
Progress ==
  /\ ipc = "leading" => \A i \in 1..taken : archive[i].type = "dir"
  /\ ipc = "close" /\ status = "ok" => taken = cut.items
  /\ ipc \in {"items", "file"} \/ (ipc = "close" /\ status = "ok") =>
       \A i \in 1..taken :
         (\E j \in 1..(i - 1) : IsBuildSh(archive[j])) => IsInstalled(i)

-----------------------------------------------------------------------------
\* The item that is taken next is one of the archive's.
LEMMA NextIsItem ==
  ASSUME InstallTypeOK, HasNext
  PROVE  /\ taken + 1 \in 1..Len(archive) /\ taken + 1 \in 1..cut.items
         /\ next \in PackageItems /\ next.path \in Paths /\ next.names \in Names
         /\ next.contents \in Seq(Chunks) /\ Len(next.contents) \in Nat
         /\ Key(next.path) \in Keys
         /\ Arriving \in Nat /\ Arriving <= Len(next.contents)
<1>1. Len(archive) \in Nat /\ archive \in Seq(PackageItems) /\ root \in Spellings
      /\ cut.items \in 0..Len(archive) /\ taken \in 0..cut.items
  BY LenProperties DEF InstallTypeOK
<1>2. taken < cut.items
  BY DEF HasNext
<1>3. taken + 1 \in 1..Len(archive) /\ taken + 1 \in 1..cut.items
  BY <1>1, <1>2
<1>4. next \in PackageItems
  BY <1>1, <1>3, ElementOfSeq DEF next
<1>5. next.path \in Paths /\ next.contents \in Seq(Chunks) /\ next.names \in Names
  BY <1>4, InstallAssumption DEF Names
<1>6. Len(next.contents) \in Nat
  BY <1>5, LenProperties
<1>7. Arriving \in Nat /\ Arriving <= Len(next.contents)
  <2>1. CASE taken + 1 < cut.items
    BY <1>6, <2>1 DEF Arriving
  <2>2. CASE ~(taken + 1 < cut.items)
    <3>1. taken + 1 = cut.items /\ cut.items > 0
      BY <1>1, <1>3, <2>2
    <3>2. Arriving = cut.chunks
      BY <2>2 DEF Arriving
    <3>3. cut.chunks \in Nat /\ cut.chunks <= Len(archive[cut.items].contents)
      BY <3>1 DEF InstallTypeOK
    <3>4. QED  BY <3>1, <3>2, <3>3 DEF next
  <2>3. QED  BY <2>1, <2>2
<1>8. QED  BY <1>1, <1>3, <1>4, <1>5, <1>6, <1>7 DEF Key, Keys

\* The directories of a root are those that are there.
LEMMA HereIsDir == InstallTypeOK => here \in Dirs
BY DEF InstallTypeOK, here, Dirs

\* Directories that are made are where nothing was; the rest stays.
LEMMA MadeKeeps ==
  ASSUME InstallTypeOK, NEW paths
  PROVE  /\ Made(paths) \in [Paths -> Nodes]
         /\ \A p \in Paths : node[here][p] # Absent => Made(paths)[p] = node[here][p]
<1>1. node[here] \in [Paths -> Nodes]
  BY HereIsDir DEF InstallTypeOK
<1>2. \A p \in Paths : node[here][p] \in Nodes /\ DirNode \in Nodes
  BY <1>1 DEF Nodes
<1>3. QED  BY <1>2 DEF Made

\* Something that goes wrong is noted.
LEMMA Noted ==
  ASSUME InstallTypeOK, NEW kind \in {"config", "call", "killed"}, Lapse(kind)
  PROVE  lapses' \in Seq({"config", "call", "killed"}) /\ lapses' # <<>>
BY AppendProperties, SMTT(30) DEF Lapse, InstallTypeOK

\* So is what a call that fails, or a kill, leaves.
LEMMA FaultNoted ==
  ASSUME InstallTypeOK, NEW kind \in {"config", "call", "killed"}, Fault(kind)
  PROVE  lapses' \in Seq({"config", "call", "killed"}) /\ lapses' # <<>>
BY Noted DEF Fault

\* Once something has gone wrong, nothing is claimed of the log.
LEMMA LapsedOwned == lapses' # <<>> => Owned'
BY DEF Owned

\* Steps that leave the logs, and the table where there is one.
LEMMA QuietOwned ==
  ASSUME InstallInv, UNCHANGED <<logs, writer, lapses>>,
         \/ ipc \in Before /\ ipc' \in Before
         \/ ipc \in Loaded /\ ipc' \in Loaded /\ UNCHANGED <<root, table, opened>>
  PROVE  Owned'
<1> SUFFICES ASSUME lapses' = <<>> PROVE LogsAreWhole' /\ WritersAreKnown' /\ RootIsOpened'
  BY DEF Owned
<1>1. LogsAreWhole /\ WritersAreKnown /\ RootIsOpened
  BY DEF InstallInv, Owned
<1>2. ipc' # "dump" /\ ipc # "dump"
  BY DEF Before, Loaded
<1>3. LogsAreWhole'
  BY <1>1, <1>2 DEF LogsAreWhole
<1>4. RootIsOpened'
  BY <1>1 DEF RootIsOpened, Before, Loaded
<1>5. ASSUME NEW d \in Dirs, NEW p \in Paths, writer[d][p] # NoWriter
      PROVE  writer[d][p].key[2] = p /\ Known(d, writer[d][p])'
  <2>1. writer[d][p].key[2] = p /\ Known(d, writer[d][p])
    BY <1>1, <1>5 DEF WritersAreKnown
  <2>2. CASE ipc \in Before /\ ipc' \in Before
    BY <2>1, <2>2 DEF Known, Before, Loaded
  <2>3. CASE ipc \in Loaded /\ ipc' \in Loaded /\ UNCHANGED <<root, table, opened>>
    BY <2>1, <2>3 DEF Known, Before, Loaded, here
  <2>4. QED  BY <2>1, <2>2, <2>3
<1>6. WritersAreKnown'
  BY <1>5 DEF WritersAreKnown
<1>7. QED  BY <1>3, <1>4, <1>6

\* A run begins; its configuration is read.
LEMMA BeginStep == InstallInv /\ (StartRun \/ LoadConfig \/ LoadConfigFails) => InstallInv'
<1> SUFFICES ASSUME InstallInv, StartRun \/ LoadConfig \/ LoadConfigFails PROVE InstallInv'
  OBVIOUS
<1>1. CASE StartRun
  <2>1. /\ archive' \in Seq(PackageItems) /\ taken' = 0 /\ name' = None /\ chunk' = 0
        /\ root' \in Spellings /\ table' = NoOwners /\ opened' = FALSE /\ fresh' = FALSE
        /\ ipc' = "config" /\ ipc \in {"idle", "exited"}
        /\ UNCHANGED <<fileVars, logs, config, todo, lapses>>
    BY <1>1, InstallAssumption DEF StartRun, Goes
  <2>2. PICK n \in 0..Len(archive') :
          \E c \in 0..(IF n = 0 THEN 0 ELSE Len(archive'[n].contents)) :
            cut' = [items |-> n, chunks |-> c]
    BY <1>1 DEF StartRun
  <2>3. PICK c \in 0..(IF n = 0 THEN 0 ELSE Len(archive'[n].contents)) :
          cut' = [items |-> n, chunks |-> c]
    BY <2>2
  <2>4. Len(archive') \in Nat /\ n \in Nat
    BY <2>1, <2>2, LenProperties
  <2>5. n > 0 => c \in Nat /\ c <= Len(archive'[n].contents)
    <3>1. ASSUME n > 0 PROVE Len(archive'[n].contents) \in Nat
      <4>1. archive'[n] \in PackageItems
        BY <2>1, <2>2, <2>4, <3>1, ElementOfSeq
      <4>2. QED  BY <4>1, InstallAssumption, LenProperties
    <3>2. QED  BY <2>3, <2>4, <3>1
  <2>6. n = 0 => c \in Nat
    BY <2>3
  <2>7. /\ cut'.items = n /\ cut'.chunks = c /\ c \in Nat /\ taken' \in 0..cut'.items
        /\ cut'.items > 0 => cut'.chunks <= Len(archive'[cut'.items].contents)
    BY <2>1, <2>3, <2>4, <2>5, <2>6
  <2>8. table' \in [Keys -> Names] /\ name' \in Names
    BY <2>1 DEF NoOwners, Names
  <2>9. InstallTypeOK'
    BY <2>1, <2>2, <2>7, <2>8 DEF InstallInv, InstallTypeOK, fileVars, Places, Before
  <2>10. Owned'
    BY <2>1, QuietOwned DEF fileVars, Before
  <2>11. QED  BY <2>1, <2>9, <2>10 DEF InstallInv, Named, Writing
<1>2. CASE LoadConfig
  <2>1. /\ ipc = "config" /\ ipc' = "log"
        /\ UNCHANGED <<fileVars, logs, config, rootVars, todo, itemVars, status, runs, lapses>>
    BY <1>2 DEF LoadConfig, Goes
  <2>2. InstallTypeOK'
    BY <2>1 DEF InstallInv, InstallTypeOK, fileVars, rootVars, itemVars, Places, Before
  <2>3. Owned'
    BY <2>1, QuietOwned DEF fileVars, Before
  <2>4. QED  BY <2>1, <2>2, <2>3 DEF InstallInv, Named, Writing
<1>3. CASE LoadConfigFails
  <2>1. ipc' = "close" /\ UNCHANGED <<fileVars, logs, config, rootVars, todo, itemVars>>
    BY <1>3 DEF LoadConfigFails, Goes
  <2>2. lapses' \in Seq({"config", "call", "killed"}) /\ lapses' # <<>>
    BY <1>3, Noted, FaultNoted DEF LoadConfigFails, InstallInv
  <2>3. InstallTypeOK'
    BY <2>1, <2>2 DEF InstallInv, InstallTypeOK, fileVars, rootVars, itemVars, Places, Loaded
  <2>4. QED  BY <2>1, <2>2, <2>3, LapsedOwned DEF InstallInv, Named, Writing
<1>4. QED  BY <1>1, <1>2, <1>3

\* The table that lines of a log give.
LEMMA OwnersTyped ==
  ASSUME NEW lines \in SUBSET Lines
  PROVE  /\ OwnersIn(lines) \in [Keys -> Names]
         /\ \A l \in lines : (\A m \in lines : m.key = l.key => m = l)
                               => OwnersIn(lines)[l.key] = l.owner
<1>1. ASSUME NEW k \in Keys
      PROVE  /\ OwnersIn(lines)[k] \in Names
             /\ \A l \in lines : l.key = k /\ (\A m \in lines : m.key = l.key => m = l)
                                   => OwnersIn(lines)[k] = l.owner
  <2>1. CASE \E l \in lines : l.key = k
    <3> DEFINE m == CHOOSE l \in lines : l.key = k
    <3>1. m \in lines /\ m.key = k
      BY <2>1
    <3>2. OwnersIn(lines)[k] = m.owner
      BY <2>1 DEF OwnersIn
    <3> HIDE DEF m
    <3>3. m.owner \in Names
      BY <3>1 DEF Lines
    <3>4. QED  BY <3>1, <3>2, <3>3
  <2>2. CASE ~\E l \in lines : l.key = k
    <3>1. OwnersIn(lines)[k] = None
      BY <2>2 DEF OwnersIn
    <3>2. QED  BY <2>2, <3>1 DEF Names
  <2>3. QED  BY <2>1, <2>2
<1>2. OwnersIn(lines) \in [Keys -> Names]
  BY <1>1 DEF OwnersIn
<1>3. \A l \in lines : l.key \in Keys
  BY DEF Lines
<1>4. QED  BY <1>1, <1>2, <1>3

\* The log is read: the table stands for it.
LEMMA LogStep == InstallInv /\ (ReadLog \/ ReadLogBreaksOff \/ ReadLogFails) => InstallInv'
<1> SUFFICES ASSUME InstallInv, ReadLog \/ ReadLogBreaksOff \/ ReadLogFails PROVE InstallInv'
  OBVIOUS
<1>1. /\ here \in Dirs /\ logs[here].lines \in SUBSET Lines /\ ipc = "log"
      /\ ipc' \in {"opened", "close"}
      /\ UNCHANGED <<fileVars, logs, config, asked, root, todo, itemVars, status, runs>>
  BY HereIsDir DEF InstallInv, InstallTypeOK, ReadLog, ReadLogBreaksOff, ReadLogFails, Goes
<1>2. table' \in [Keys -> Names] /\ opened' \in BOOLEAN
  <2>1. CASE ReadLog
    BY <1>1, <2>1, OwnersTyped DEF ReadLog
  <2>2. CASE ReadLogBreaksOff
    <3>1. PICK lines \in SUBSET logs[here].lines : table' = OwnersIn(lines)
      BY <2>2 DEF ReadLogBreaksOff
    <3>2. lines \in SUBSET Lines
      BY <1>1
    <3>3. QED  BY <2>2, <3>1, <3>2, OwnersTyped DEF ReadLogBreaksOff
  <2>3. CASE ReadLogFails
    BY <1>1, <2>3, OwnersTyped DEF ReadLogFails, InstallInv, InstallTypeOK
  <2>4. QED  BY <2>1, <2>2, <2>3
<1>3. lapses' \in Seq({"config", "call", "killed"})
  BY FaultNoted DEF ReadLog, ReadLogBreaksOff, ReadLogFails, InstallInv, InstallTypeOK
<1>4. InstallTypeOK'
  BY <1>1, <1>2, <1>3 DEF InstallInv, InstallTypeOK, fileVars, itemVars, Places, Loaded
<1>5. Owned'
  <2> SUFFICES ASSUME lapses' = <<>>
               PROVE  LogsAreWhole' /\ WritersAreKnown' /\ RootIsOpened'
    BY DEF Owned
  <2>1. lapses = <<>> /\ ReadLog
    <3>1. ~ReadLogBreaksOff
      BY FaultNoted DEF ReadLogBreaksOff, InstallInv
    <3>2. ASSUME ReadLogFails PROVE FALSE
      <4>1. logs[here].torn /\ lapses = <<>>
        BY <3>2, FaultNoted DEF ReadLogFails, InstallInv
      <4>2. QED  BY <1>1, <4>1 DEF InstallInv, Owned, LogsAreWhole
    <3>3. QED  BY <3>1, <3>2 DEF ReadLog
  <2>2. LogsAreWhole /\ WritersAreKnown
    BY <2>1 DEF InstallInv, Owned
  <2>3. /\ table' = OwnersIn(logs[here].lines) /\ opened' = TRUE /\ ipc' = "opened"
        /\ logs' = logs /\ writer' = writer /\ root' = root /\ here' = here
    BY <1>1, <2>1 DEF ReadLog, Goes, fileVars, here
  <2>4. LogsAreWhole' /\ RootIsOpened'
    BY <2>2, <2>3 DEF LogsAreWhole, RootIsOpened
  <2>5. ASSUME NEW d \in Dirs, NEW p \in Paths, writer[d][p] # NoWriter
        PROVE  writer[d][p].key[2] = p /\ Known(d, writer[d][p])'
    <3> DEFINE w == writer[d][p]
    <3>1. w.key[2] = p /\ LineOf(w) \in logs[d].lines
      BY <1>1, <2>2, <2>5 DEF WritersAreKnown, Known, Before, Loaded
    <3>2. CASE d = here
      <4>1. \A m \in logs[here].lines : m.key = LineOf(w).key => m = LineOf(w)
        BY <1>1, <2>2, <3>1, <3>2 DEF LogsAreWhole
      <4>2. OwnersIn(logs[here].lines)[LineOf(w).key] = LineOf(w).owner
        BY <1>1, <3>1, <3>2, <4>1, OwnersTyped
      <4>3. table'[w.key] = w.name
        BY <2>3, <4>2 DEF LineOf
      <4>4. QED  BY <2>3, <3>1, <3>2, <4>3 DEF Known, Loaded
    <3>3. CASE d # here
      BY <2>3, <3>1, <3>3 DEF Known
    <3>4. QED  BY <3>2, <3>3
  <2>6. WritersAreKnown'
    BY <2>3, <2>5 DEF WritersAreKnown
  <2>7. QED  BY <2>4, <2>6
<1>6. QED  BY <1>1, <1>4, <1>5 DEF InstallInv, Named, Writing

\* An item is passed, and is not written any more.
LEMMA ItemTaken ==
  ASSUME InstallTypeOK, HasNext, taken' = taken + 1, UNCHANGED <<archive, cut>>
  PROVE  taken' \in 0..cut'.items /\ taken' \in Nat
BY NextIsItem DEF InstallTypeOK

\* Steps between reading the log and closing the root that write nothing.
LEMMA PassStep ==
  InstallInv /\ (\/ MainRefuses \/ MainInstalls \/ TakesLeadingDir \/ ParsesBuildSh
                 \/ LeadingFails \/ ItemsEnd \/ PassesLink \/ SkipsProtected
                 \/ FileIsWritten \/ WriteFails)
    => InstallInv'
<1> SUFFICES ASSUME InstallInv,
                    \/ MainRefuses \/ MainInstalls \/ TakesLeadingDir \/ ParsesBuildSh
                    \/ LeadingFails \/ ItemsEnd \/ PassesLink \/ SkipsProtected
                    \/ FileIsWritten \/ WriteFails
             PROVE  InstallInv'
  OBVIOUS
<1> USE DEF fileVars, rootVars, itemVars, Goes, Succeeds, Fails, TakesNext
<1>1. /\ ipc \in Loaded /\ ipc' \in Loaded /\ ipc' # "file"
      /\ UNCHANGED <<node, writer, logs, config, root, table, opened, todo, archive, cut,
                     chunk, fresh>>
  BY DEF MainRefuses, MainInstalls, TakesLeadingDir, ParsesBuildSh, LeadingFails, ItemsEnd,
         PassesLink, SkipsProtected, FileIsWritten, WriteFails, Loaded
<1>2. \/ taken' = taken
      \/ HasNext /\ taken' = taken + 1
  BY DEF MainRefuses, MainInstalls, TakesLeadingDir, ParsesBuildSh, LeadingFails, ItemsEnd,
         PassesLink, SkipsProtected, FileIsWritten, WriteFails, InstallInv, Writing
<1>3. taken' \in 0..cut'.items
  BY <1>1, <1>2, ItemTaken DEF InstallInv, InstallTypeOK
<1>4. /\ name' \in Names
      /\ ipc' = "items" => name' # None
  <2>1. CASE ParsesBuildSh
    BY <2>1, NextIsItem DEF ParsesBuildSh, InstallInv
  <2>2. CASE ~ParsesBuildSh
    BY <2>2 DEF MainRefuses, MainInstalls, TakesLeadingDir, LeadingFails, ItemsEnd,
         PassesLink, SkipsProtected, FileIsWritten, WriteFails, InstallInv, InstallTypeOK, Named
  <2>3. QED  BY <2>1, <2>2
<1>5. \/ lapses' = lapses
      \/ lapses' \in Seq({"config", "call", "killed"}) /\ lapses' # <<>>
  BY FaultNoted
     DEF MainRefuses, MainInstalls, TakesLeadingDir, ParsesBuildSh, LeadingFails, ItemsEnd,
         PassesLink, SkipsProtected, FileIsWritten, WriteFails, InstallInv
<1>6. InstallTypeOK'
  BY <1>1, <1>3, <1>4, <1>5 DEF InstallInv, InstallTypeOK, Places
<1>7. Owned'
  BY <1>1, <1>5, QuietOwned, LapsedOwned
<1>8. QED  BY <1>1, <1>4, <1>6, <1>7 DEF InstallInv, Named, Writing

\* A directory of a root gets new nodes.
LEMMA NodesTyped ==
  ASSUME InstallTypeOK, NEW nodes \in [Paths -> Nodes],
         node' = [node EXCEPT ![here] = nodes]
  PROVE  node' \in [Dirs -> [Paths -> Nodes]] /\ node'[here] = nodes
BY HereIsDir DEF InstallTypeOK

\* A directory is installed.
LEMMA DirStep == InstallInv /\ InstallsDir => InstallInv'
<1> SUFFICES ASSUME InstallInv, InstallsDir PROVE InstallInv'
  OBVIOUS
<1>1. /\ ipc = "items" /\ ipc' = "items" /\ HasNext
      /\ node' = [node EXCEPT ![here] = Made(Above(next.path) \union {next.path})]
      /\ taken' = taken + 1
      /\ UNCHANGED <<writer, logs, config, root, table, opened, todo, archive, cut, name,
                     chunk, fresh, lapses>>
  BY DEF InstallsDir, TakesNext, rootVars
<1>2. taken' \in 0..cut'.items
  BY <1>1, ItemTaken DEF InstallInv
<1>3. node' \in [Dirs -> [Paths -> Nodes]]
  BY <1>1, MadeKeeps, NodesTyped DEF InstallInv
<1>4. InstallTypeOK'
  BY <1>1, <1>2, <1>3 DEF InstallInv, InstallTypeOK
<1>5. Owned'
  BY <1>1, QuietOwned DEF Loaded
<1>6. QED  BY <1>1, <1>4, <1>5 DEF InstallInv, Named, Writing

\* What writing a chunk makes of a file.
LEMMA ChunkWritten ==
  ASSUME NEW data \in Seq(Chunks), NEW contents \in Seq(Chunks),
         NEW n \in Nat, n < Len(contents), n <= Len(data),
         \A i \in 1..n : data[i] = contents[i]
  PROVE  LET new == Overwritten(data, n + 1, contents[n + 1])
         IN  /\ new \in Seq(Chunks) /\ n + 1 <= Len(new)
             /\ \A i \in 1..n + 1 : new[i] = contents[i]
<1> DEFINE m == IF n + 1 > Len(data) THEN n + 1 ELSE Len(data)
           new == [i \in 1..m |-> IF i = n + 1 THEN contents[n + 1] ELSE data[i]]
<1>1. Len(data) \in Nat /\ Len(contents) \in Nat /\ n + 1 \in 1..Len(contents)
  BY LenProperties
<1>2. m \in Nat /\ n + 1 <= m /\ \A i \in 1..m : i = n + 1 \/ i \in 1..Len(data)
  BY <1>1
<1>3. contents[n + 1] \in Chunks /\ \A i \in 1..Len(data) : data[i] \in Chunks
  BY <1>1, ElementOfSeq
<1> HIDE DEF m
<1>4. \A i \in 1..m : (IF i = n + 1 THEN contents[n + 1] ELSE data[i]) \in Chunks
  BY <1>2, <1>3
<1>5. new \in Seq(Chunks) /\ Len(new) = m
  BY <1>2, <1>4, IsASeq, LenProperties
<1>6. \A i \in 1..n + 1 : new[i] = contents[i]
  BY <1>1, <1>2
<1>7. Overwritten(data, n + 1, contents[n + 1]) = new
  BY DEF Overwritten, m
<1> HIDE DEF new
<1>8. QED  BY <1>2, <1>5, <1>6, <1>7

\* A chunk is written to the file that is open.
LEMMA ChunkStep == InstallInv /\ WritesChunk => InstallInv'
<1> SUFFICES ASSUME InstallInv, WritesChunk PROVE InstallInv'
  OBVIOUS
<1>1. /\ ipc = "file" /\ ipc' = "file" /\ chunk < Arriving /\ chunk' = chunk + 1
      /\ node' = [node EXCEPT ![here][next.path].data =
                    Overwritten(@, chunk + 1, next.contents[chunk + 1])]
      /\ UNCHANGED <<writer, logs, config, root, table, opened, todo, archive, cut, taken,
                     name, fresh, lapses>>
  BY DEF WritesChunk, rootVars
<1> DEFINE place == next.path
           file == node[here][place]
           contents == next.contents
           data == Overwritten(file.data, chunk + 1, contents[chunk + 1])
<1>2. /\ HasNext /\ next.type = "file" /\ file \in FileNodes /\ chunk <= Len(file.data) /\ chunk \in Nat
      /\ \A i \in 1..chunk : file.data[i] = contents[i]
      /\ fresh \/ ~IsProtected(place)
  BY <1>1 DEF InstallInv, Writing, InstallTypeOK
<1>3. /\ place \in Paths /\ contents \in Seq(Chunks) /\ Len(contents) \in Nat
      /\ Arriving \in Nat /\ Arriving <= Len(contents) /\ here \in Dirs
  BY <1>2, NextIsItem, HereIsDir DEF InstallInv
<1>4. file.data \in Seq(Chunks) /\ chunk < Len(contents) /\ chunk + 1 <= Arriving
      /\ chunk + 1 \in Nat
  BY <1>1, <1>2, <1>3 DEF FileNodes
<1>5. /\ data \in Seq(Chunks) /\ chunk + 1 <= Len(data)
      /\ \A i \in 1..chunk + 1 : data[i] = contents[i]
  BY <1>2, <1>3, <1>4, ChunkWritten
<1>6. node \in [Dirs -> [Paths -> Nodes]]
  BY DEF InstallInv, InstallTypeOK
<1>7. node' = [node EXCEPT ![here] =
                  [node[here] EXCEPT ![place] = [node[here][place] EXCEPT !.data = data]]]
  BY <1>1, Zenon
<1> HIDE DEF data
<1>8. [file EXCEPT !.data = data] \in FileNodes /\ [file EXCEPT !.data = data].data = data
  BY <1>2, <1>5 DEF FileNodes
<1>9. /\ node' \in [Dirs -> [Paths -> Nodes]]
      /\ node'[here][place] = [file EXCEPT !.data = data]
  <2> DEFINE written == [file EXCEPT !.data = data]
             nodes == [node[here] EXCEPT ![place] = written]
  <2>1. written \in Nodes /\ node[here] \in [Paths -> Nodes]
    BY <1>3, <1>6, <1>8 DEF Nodes
  <2>2. node' = [node EXCEPT ![here] = nodes]
    BY <1>7
  <2> HIDE DEF written
  <2>3. nodes \in [Paths -> Nodes] /\ nodes[place] = written
    BY <1>3, <2>1
  <2> HIDE DEF nodes
  <2>4. QED  BY <2>2, <2>3, NodesTyped DEF InstallInv, written
<1>10. /\ here' = here /\ next' = next /\ HasNext' = HasNext /\ Arriving' = Arriving
       /\ IsProtected(place)' = IsProtected(place)
  BY <1>1 DEF here, next, HasNext, Arriving, IsProtected
<1>11. Writing'
  <2> DEFINE written == [file EXCEPT !.data = data]
  <2>1. node'[here'][next'.path] = written
    BY <1>9, <1>10
  <2>2. written \in FileNodes /\ written.data = data
    BY <1>8
  <2> HIDE DEF written
  <2>3. HasNext' /\ next'.type = "file" /\ (fresh \/ ~IsProtected(next.path))'
    BY <1>1, <1>2, <1>10
  <2>4. chunk' <= Arriving' /\ chunk' <= Len(node'[here'][next'.path].data)
    BY <1>1, <1>4, <1>5, <1>10, <2>1, <2>2
  <2>5. \A i \in 1..chunk' : node'[here'][next'.path].data[i] = next'.contents[i]
    BY <1>1, <1>5, <1>10, <2>1, <2>2
  <2>6. QED  BY <2>1, <2>2, <2>3, <2>4, <2>5 DEF Writing
<1>12. InstallTypeOK'
  BY <1>1, <1>4, <1>9 DEF InstallInv, InstallTypeOK
<1>13. Owned'
  BY <1>1, QuietOwned DEF Loaded
<1>14. QED  BY <1>1, <1>11, <1>12, <1>13 DEF InstallInv, Named

\* When a package takes a path that nobody has, or itself, what is known of the
\* files of other packages stays known.
LEMMA TakeOwned ==
  ASSUME InstallInv, ipc = "items", ipc' \in Loaded, name # None,
         NEW place \in Paths, MayTake(Key(place)),
         table' = [table EXCEPT ![Key(place)] = name],
         UNCHANGED <<logs, root, opened, lapses>>,
         \/ writer' = writer
         \/ writer' = [writer EXCEPT ![here] =
                         [writer[here] EXCEPT ![place] = [name |-> name, key |-> Key(place)]]]
  PROVE  Owned'
<1> SUFFICES ASSUME lapses' = <<>> PROVE LogsAreWhole' /\ WritersAreKnown' /\ RootIsOpened'
  BY DEF Owned
<1>1. LogsAreWhole /\ WritersAreKnown /\ RootIsOpened
  BY DEF InstallInv, Owned
<1>2. /\ here' = here /\ Key(place) = <<root, place>> /\ Key(place) \in Keys /\ here \in Dirs
      /\ table \in [Keys -> Names] /\ writer \in [Dirs -> [Paths -> Writers]]
      /\ ipc' # "dump" /\ ipc \in Loaded /\ ipc \notin Before /\ ipc # "dump"
  BY HereIsDir DEF here, Key, Keys, InstallInv, InstallTypeOK, Loaded, Before
<1>3. LogsAreWhole'
  BY <1>1, <1>2 DEF LogsAreWhole
<1>4. RootIsOpened'
  BY <1>1, <1>2 DEF RootIsOpened
<1>5. ASSUME NEW d \in Dirs, NEW p \in Paths, writer'[d][p] # NoWriter
      PROVE  writer'[d][p].key[2] = p /\ Known(d, writer[d][p])'
  <2>1. CASE writer'[d][p] = writer[d][p]
    <3> DEFINE w == writer[d][p]
    <3>1. w.key[2] = p /\ Known(d, w) /\ w.key \in Keys /\ w.name # None
      BY <1>1, <1>2, <1>5, <2>1 DEF WritersAreKnown, Writers
    <3>2. CASE d = here
      <4>1. table[w.key] = w.name
        BY <1>2, <3>1, <3>2 DEF Known
      <4>2. table'[w.key] = w.name
        BY <1>2, <3>1, <4>1 DEF MayTake
      <4>3. QED  BY <1>2, <2>1, <3>1, <3>2, <4>2 DEF Known
    <3>3. CASE d # here
      BY <1>2, <2>1, <3>1, <3>3 DEF Known
    <3>4. QED  BY <3>2, <3>3
  <2>2. CASE writer'[d][p] # writer[d][p]
    <3>1. d = here /\ p = place /\ writer'[d][p] = [name |-> name, key |-> Key(place)]
      BY <1>2, <2>2
    <3>2. writer'[d][p].key[2] = p /\ table'[writer'[d][p].key] = writer'[d][p].name
      BY <1>2, <3>1
    <3>3. QED  BY <1>2, <3>1, <3>2 DEF Known
  <2>3. QED  BY <2>1, <2>2
<1>6. WritersAreKnown'
  BY <1>5 DEF WritersAreKnown
<1>7. QED  BY <1>3, <1>4, <1>6

\* A file is opened, or made.
LEMMA OpenStep == InstallInv /\ OpensFile => InstallInv'
<1> SUFFICES ASSUME InstallInv, OpensFile PROVE InstallInv'
  OBVIOUS
<1> DEFINE place == next.path
           new == [name |-> name, key |-> Key(place)]
           made == Made(Above(place))
           file == IF made[place] = Absent THEN FileNode(<<>>) ELSE made[place]
           nodes == [made EXCEPT ![place] = file]
<1>1. /\ ipc = "items" /\ HasNext /\ next.type = "file" /\ ~IsKept(place) /\ MayTake(Key(place)) /\ CanOpen(place)
      /\ table' = [table EXCEPT ![Key(place)] = name]
      /\ chunk' = 0 /\ fresh' = (node[here][place] = Absent) /\ ipc' = "file"
      /\ UNCHANGED <<logs, config, root, opened, todo, archive, cut, taken, name, lapses>>
  BY DEF OpensFile, Goes
<1>2. node' = [node EXCEPT ![here] = nodes]
  BY DEF OpensFile
<1>3. writer' = [writer EXCEPT ![here] = [writer[here] EXCEPT ![place] = new]]
  BY Zenon DEF OpensFile
<1>4. /\ place \in Paths /\ Key(place) \in Keys /\ here \in Dirs /\ name \in Names
      /\ name # None /\ made \in [Paths -> Nodes]
      /\ node[here][place] \in Nodes /\ Arriving \in Nat
      /\ node[here][place] # Absent => made[place] = node[here][place]
  BY <1>1, NextIsItem, HereIsDir, MadeKeeps DEF InstallInv, InstallTypeOK, Named
<1>5. node[here][place] \in {Absent} \union FileNodes
  BY <1>1, <1>4 DEF CanOpen, Nodes, DirNode
<1>6. node[here][place] = Absent => made[place] \in {Absent, DirNode}
  BY <1>4 DEF Made
<1>7. made[place] # DirNode
  <2>1. ASSUME node[here][place] = Absent PROVE made[place] # DirNode
    <3>1. place \notin Above(place)
      <4>1. place \in Seq({place[i] : i \in DOMAIN place}) /\ Len(place) \in Nat
        BY <1>4, InstallAssumption, LenProperties
      <4>2. ASSUME NEW n \in 1..(Len(place) - 1), place = SubSeq(place, 1, n) PROVE FALSE
        <5>1. Len(SubSeq(place, 0 + 1, n)) = n
          BY <4>1, <4>2, Piece
        <5>2. 0 + 1 = 1
          OBVIOUS
        <5>3. Len(place) = n
          BY <4>2, <5>1, <5>2
        <5>4. QED  BY <4>1, <4>2, <5>3
      <4>3. QED  BY <4>2 DEF Above
    <3>2. made[place] = Absent
      BY <1>4, <2>1, <3>1 DEF Made
    <3>3. QED  BY <3>2 DEF Absent, DirNode
  <2>2. ASSUME node[here][place] # Absent PROVE made[place] # DirNode
    BY <1>4, <1>5, <2>2 DEF FileNodes, DirNode
  <2>3. QED  BY <2>1, <2>2
<1>8. file \in FileNodes
  <2>1. FileNode(<<>>) \in FileNodes
    BY EmptySeq DEF FileNode, FileNodes
  <2>2. made[place] = Absent \/ made[place] \in FileNodes
    BY <1>4, <1>7 DEF Nodes
  <2>3. QED  BY <2>1, <2>2
<1> HIDE DEF file, made
<1>9. nodes \in [Paths -> Nodes] /\ nodes[place] = file
  BY <1>4, <1>8 DEF Nodes
<1> HIDE DEF nodes
<1>10. node' \in [Dirs -> [Paths -> Nodes]] /\ node'[here] = nodes
  BY <1>2, <1>9, NodesTyped DEF InstallInv
<1>11. new \in Writers
  BY <1>4 DEF Writers
<1>12. writer' \in [Dirs -> [Paths -> Writers]]
  <2> HIDE DEF new
  <2> DEFINE row == [writer[here] EXCEPT ![place] = new]
  <2>1. row \in [Paths -> Writers]
    BY <1>4, <1>11 DEF InstallInv, InstallTypeOK
  <2> HIDE DEF row
  <2>2. writer' = [writer EXCEPT ![here] = row]
    BY <1>3 DEF row
  <2>3. QED  BY <1>4, <2>1, <2>2 DEF InstallInv, InstallTypeOK
<1>13. table' \in [Keys -> Names]
  BY <1>1, <1>4 DEF InstallInv, InstallTypeOK
<1>14. InstallTypeOK'
  BY <1>1, <1>10, <1>12, <1>13 DEF InstallInv, InstallTypeOK, Places, Loaded
<1>15. Owned'
  BY <1>1, <1>3, <1>4, TakeOwned DEF Loaded
<1>16. /\ here' = here /\ next' = next /\ HasNext' = HasNext /\ Arriving' = Arriving
       /\ IsProtected(place)' = IsProtected(place)
  BY <1>1 DEF here, next, HasNext, Arriving, IsProtected
<1>17. fresh' \/ ~IsProtected(place)
  BY <1>1 DEF IsKept
<1>18. node'[here'][next'.path] = file /\ Len(file.data) \in Nat
  BY <1>8, <1>9, <1>10, <1>16, LenProperties DEF FileNodes
<1>19. Writing'
  BY <1>1, <1>4, <1>8, <1>16, <1>17, <1>18 DEF Writing
<1>20. QED  BY <1>1, <1>4, <1>14, <1>15, <1>19 DEF InstallInv, Named

\* An item cannot be installed; its path may have been taken.
LEMMA FailStep == InstallInv /\ ItemFails => InstallInv'
<1> SUFFICES ASSUME InstallInv, ItemFails PROVE InstallInv'
  OBVIOUS
<1> DEFINE place == next.path
<1>1. /\ ipc = "items" /\ HasNext /\ ipc' = "close"
      /\ UNCHANGED <<logs, config, root, opened, todo, archive, cut, taken, name, chunk, fresh,
                     writer>>
  BY DEF ItemFails, Fails, Goes, itemVars
<1>2. place \in Paths /\ Key(place) \in Keys /\ name \in Names /\ name # None
  BY <1>1, NextIsItem DEF InstallInv, InstallTypeOK, Named
<1>3. \/ node' = node
      \/ node' = [node EXCEPT ![here] = Made(Above(place))]
  BY DEF ItemFails
<1>4. node' \in [Dirs -> [Paths -> Nodes]]
  BY <1>3, MadeKeeps, NodesTyped DEF InstallInv, InstallTypeOK
<1>5. \/ lapses' = lapses
      \/ lapses' \in Seq({"config", "call", "killed"}) /\ lapses' # <<>>
  BY FaultNoted DEF ItemFails, InstallInv
<1>6. \/ table' = table
      \/ MayTake(Key(place)) /\ table' = [table EXCEPT ![Key(place)] = name]
  BY DEF ItemFails
<1>7. table' \in [Keys -> Names]
  BY <1>2, <1>6 DEF InstallInv, InstallTypeOK
<1>8. InstallTypeOK'
  BY <1>1, <1>4, <1>5, <1>7 DEF InstallInv, InstallTypeOK, Places, Loaded
<1>9. Owned'
  <2>1. CASE lapses' # <<>>
    BY <2>1, LapsedOwned
  <2>2. CASE lapses' = lapses /\ table' = table
    BY <1>1, <2>2, QuietOwned DEF Loaded
  <2>3. CASE lapses' = lapses /\ MayTake(Key(place))
               /\ table' = [table EXCEPT ![Key(place)] = name]
    BY <1>1, <1>2, <2>3, TakeOwned DEF Loaded
  <2>4. QED  BY <1>5, <1>6, <2>1, <2>2, <2>3
<1>10. QED  BY <1>1, <1>8, <1>9 DEF InstallInv, Named, Writing

-----------------------------------------------------------------------------
\* The log is written: a line for each path that has an owner.
LEMMA DumpStep ==
  InstallInv /\ (DumpOpens \/ DumpCannotOpen \/ DumpWrites \/ DumpBreaksOff) => InstallInv'
<1> SUFFICES ASSUME InstallInv,
                    DumpOpens \/ DumpCannotOpen \/ DumpWrites \/ DumpBreaksOff
             PROVE  InstallInv'
  OBVIOUS
<1>1. /\ ipc \in {"close", "dump"} /\ ipc' = "dump"
      /\ UNCHANGED <<node, writer, config, root, table, opened, archive, cut, taken, name,
                     chunk, fresh>>
  BY DEF DumpOpens, DumpCannotOpen, DumpWrites, DumpBreaksOff, Goes, fileVars, rootVars, itemVars
<1>2. /\ here \in Dirs /\ here' = here /\ table \in [Keys -> Names]
      /\ logs \in [Dirs -> [lines : SUBSET Lines, torn : BOOLEAN]] /\ todo \in SUBSET Lines
  BY <1>1, HereIsDir DEF InstallInv, InstallTypeOK, here
<1>3. ASSUME logs' \in [Dirs -> [lines : SUBSET Lines, torn : BOOLEAN]],
             todo' \in SUBSET Lines,
             lapses' \in Seq({"config", "call", "killed"}), Owned'
      PROVE  InstallInv'
  <2>1. InstallTypeOK'
    BY <1>1, <1>3 DEF InstallInv, InstallTypeOK, Places
  <2>2. QED  BY <1>1, <1>3, <2>1 DEF InstallInv, Named, Writing
<1>4. CASE DumpCannotOpen
  <2>1. todo' = {} /\ logs' = logs /\ Fault("call")
    BY <1>4 DEF DumpCannotOpen
  <2>2. QED  BY <1>2, <1>3, <2>1, FaultNoted, LapsedOwned DEF InstallInv
<1>5. CASE DumpBreaksOff
  <2>1. todo' = {} /\ Fault("call")
    BY <1>5 DEF DumpBreaksOff
  <2>2. logs' \in [Dirs -> [lines : SUBSET Lines, torn : BOOLEAN]]
    <3>1. CASE \E torn \in BOOLEAN : logs' = [logs EXCEPT ![here].torn = torn]
      BY <1>2, <3>1
    <3>2. CASE \E last \in UNION {Torn(line) : line \in todo} :
                 logs' = [logs EXCEPT ![here].lines = {l \in @ : l.key # last.key} \union {last}]
      <4>1. PICK last \in UNION {Torn(line) : line \in todo} :
              logs' = [logs EXCEPT ![here].lines = {l \in @ : l.key # last.key} \union {last}]
        BY <3>2
      <4>2. PICK line \in todo : last \in Torn(line)
        BY <4>1
      <4>3. last \in Lines
        BY <1>2, <4>2 DEF Torn, Lines
      <4>4. QED  BY <1>2, <4>1, <4>3
    <3>3. QED  BY <1>5, <3>1, <3>2 DEF DumpBreaksOff
  <2>3. QED  BY <1>3, <2>1, <2>2, FaultNoted, LapsedOwned DEF InstallInv
<1>6. CASE DumpOpens
  <2>1. /\ logs' = [logs EXCEPT ![here] = [lines |-> {}, torn |-> FALSE]]
        /\ todo' = {[owner |-> table[k], key |-> k] : k \in {l \in Keys : table[l] # None}}
        /\ ipc = "close" /\ lapses' = lapses
    BY <1>6 DEF DumpOpens
  <2>2. todo' \in SUBSET Lines
    BY <1>2, <2>1 DEF Lines
  <2>3. logs' \in [Dirs -> [lines : SUBSET Lines, torn : BOOLEAN]]
    BY <1>2, <2>1
  <2>4. /\ logs'[here] = [lines |-> {}, torn |-> FALSE]
        /\ \A d \in Dirs : d # here => logs'[d] = logs[d]
    BY <1>2, <2>1
  <2>5. ASSUME lapses' = <<>> PROVE LogsAreWhole' /\ WritersAreKnown' /\ RootIsOpened'
    <3>1. LogsAreWhole /\ WritersAreKnown /\ RootIsOpened
      BY <2>1, <2>5 DEF InstallInv, Owned
    <3>2. LogsAreWhole'
      <4>1. \A d \in Dirs : ~logs'[d].torn
        BY <2>4, <3>1 DEF LogsAreWhole
      <4>2. ASSUME NEW d \in Dirs, NEW l \in logs'[d].lines, NEW m \in logs'[d].lines,
                   l.key = m.key
            PROVE  l = m
        <5>1. d # here
          BY <2>4
        <5>2. QED  BY <2>4, <3>1, <4>2, <5>1 DEF LogsAreWhole
      <4>3. \A l \in logs'[here'].lines \union todo' : l.owner = table'[l.key]
        BY <1>1, <1>2, <2>1, <2>4
      <4>4. QED  BY <4>1, <4>2, <4>3 DEF LogsAreWhole
    <3>3. ASSUME NEW d \in Dirs, NEW p \in Paths, writer[d][p] # NoWriter
          PROVE  writer[d][p].key[2] = p /\ Known(d, writer[d][p])'
      <4> DEFINE w == writer[d][p]
      <4>1. w.key[2] = p /\ Known(d, w)
        BY <3>1, <3>3 DEF WritersAreKnown
      <4>2. w.key \in Keys /\ w.name # None
        BY <3>3 DEF InstallInv, InstallTypeOK, Writers
      <4> HIDE DEF w
      <4>3. CASE d = here
        <5>1. table[w.key] = w.name
          BY <2>1, <4>1, <4>3 DEF Known, Before
        <5>2. LineOf(w) \in todo'
          BY <2>1, <4>2, <5>1 DEF LineOf
        <5>3. QED  BY <1>1, <1>2, <4>1, <4>3, <5>2 DEF Known, w
      <4>4. CASE d # here
        BY <1>1, <1>2, <2>4, <4>1, <4>4 DEF Known, w
      <4>5. QED  BY <4>3, <4>4
    <3>4. WritersAreKnown'
      BY <1>1, <3>3 DEF WritersAreKnown
    <3>5. RootIsOpened'
      BY <1>1, <2>1, <3>1 DEF RootIsOpened, Loaded
    <3>6. QED  BY <3>2, <3>4, <3>5
  <2>6. lapses' \in Seq({"config", "call", "killed"})
    BY <2>1 DEF InstallInv, InstallTypeOK
  <2>7. QED  BY <1>3, <2>2, <2>3, <2>5, <2>6 DEF Owned
<1>7. CASE DumpWrites
  <2>1. PICK line \in todo :
          /\ logs' = [logs EXCEPT ![here].lines = @ \union {line}]
          /\ todo' = todo \ {line}
    BY <1>7 DEF DumpWrites
  <2>2. ipc = "dump" /\ lapses' = lapses
    BY <1>7 DEF DumpWrites
  <2>3. line \in Lines /\ todo' \in SUBSET Lines
    BY <1>2, <2>1
  <2>4. logs' \in [Dirs -> [lines : SUBSET Lines, torn : BOOLEAN]]
    BY <1>2, <2>1, <2>3
  <2>5. /\ logs'[here].lines = logs[here].lines \union {line}
        /\ logs'[here].torn = logs[here].torn
        /\ \A d \in Dirs : d # here => logs'[d] = logs[d]
    BY <1>2, <2>1
  <2>6. logs'[here].lines \union todo' = logs[here].lines \union todo
    BY <2>1, <2>5
  <2>7. ASSUME lapses' = <<>> PROVE LogsAreWhole' /\ WritersAreKnown' /\ RootIsOpened'
    <3>1. LogsAreWhole /\ WritersAreKnown /\ RootIsOpened
      BY <2>2, <2>7 DEF InstallInv, Owned
    <3>2. \A l \in logs[here].lines \union todo : l.owner = table[l.key]
      BY <2>2, <3>1 DEF LogsAreWhole
    <3>3. LogsAreWhole'
      <4>1. \A d \in Dirs : ~logs'[d].torn
        BY <2>5, <3>1 DEF LogsAreWhole
      <4>2. ASSUME NEW d \in Dirs, NEW l \in logs'[d].lines, NEW m \in logs'[d].lines,
                   l.key = m.key
            PROVE  l = m
        <5>1. CASE d # here
          BY <2>5, <3>1, <4>2, <5>1 DEF LogsAreWhole
        <5>2. CASE d = here
          <6>1. l \in logs[here].lines \union todo /\ m \in logs[here].lines \union todo
            BY <2>1, <2>5, <5>2
          <6>2. l.owner = m.owner /\ l \in Lines /\ m \in Lines
            BY <1>2, <3>2, <4>2, <6>1
          <6>3. QED  BY <4>2, <6>2 DEF Lines
        <5>3. QED  BY <5>1, <5>2
      <4>3. \A l \in logs'[here'].lines \union todo' : l.owner = table'[l.key]
        BY <1>1, <1>2, <2>6, <3>2
      <4>4. QED  BY <4>1, <4>2, <4>3 DEF LogsAreWhole
    <3>4. ASSUME NEW d \in Dirs, NEW p \in Paths, writer[d][p] # NoWriter
          PROVE  writer[d][p].key[2] = p /\ Known(d, writer[d][p])'
      <4>1. writer[d][p].key[2] = p /\ Known(d, writer[d][p])
        BY <3>1, <3>4 DEF WritersAreKnown
      <4>2. CASE d = here
        BY <1>1, <1>2, <2>2, <2>6, <4>1, <4>2 DEF Known, Before, Loaded
      <4>3. CASE d # here
        BY <1>1, <1>2, <2>5, <4>1, <4>3 DEF Known
      <4>4. QED  BY <4>2, <4>3
    <3>5. WritersAreKnown'
      BY <1>1, <3>4 DEF WritersAreKnown
    <3>6. RootIsOpened'
      BY <1>1, <2>2, <3>1 DEF RootIsOpened
    <3>7. QED  BY <3>3, <3>5, <3>6
  <2>8. lapses' \in Seq({"config", "call", "killed"})
    BY <2>2 DEF InstallInv, InstallTypeOK
  <2>9. QED  BY <1>3, <2>3, <2>4, <2>7, <2>8 DEF Owned
<1>8. QED  BY <1>4, <1>5, <1>6, <1>7

\* The run ends, or goes on with the root "".
LEMMA ReturnStep ==
  InstallInv /\ (MainReturns \/ MainFallsBack \/ MainHasNoRoot \/ RunIsKilled) => InstallInv'
<1> SUFFICES ASSUME InstallInv,
                    MainReturns \/ MainFallsBack \/ MainHasNoRoot \/ RunIsKilled
             PROVE  InstallInv'
  OBVIOUS
<1>1. /\ ipc' \in {"exited", "config"}
      /\ root' \in {root, ""} /\ table' \in {table, NoOwners} /\ todo' \in {todo, {}}
      /\ UNCHANGED <<node, writer, logs, config, opened, archive, cut, taken, name, chunk, fresh>>
  BY DEF MainReturns, MainFallsBack, MainHasNoRoot, RunIsKilled, Goes, fileVars, rootVars, itemVars
<1>2. NoOwners \in [Keys -> Names] /\ "" \in Spellings
  BY InstallAssumption DEF NoOwners, Names
<1>3. \/ lapses' = lapses
      \/ lapses' \in Seq({"config", "call", "killed"}) /\ lapses' # <<>>
  BY FaultNoted DEF MainReturns, MainFallsBack, MainHasNoRoot, RunIsKilled, InstallInv
<1>4. InstallTypeOK'
  BY <1>1, <1>2, <1>3 DEF InstallInv, InstallTypeOK, Places, Before
<1>5. ASSUME lapses' = <<>> PROVE LogsAreWhole' /\ WritersAreKnown' /\ RootIsOpened'
  <2>1. lapses = <<>> /\ ~RunIsKilled
    BY <1>3, <1>5, FaultNoted DEF RunIsKilled, InstallInv
  <2>2. LogsAreWhole /\ WritersAreKnown /\ RootIsOpened
    BY <2>1 DEF InstallInv, Owned
  <2>3. ipc = "dump" /\ todo = {}
    BY <2>1 DEF MainReturns, MainFallsBack, MainHasNoRoot
  <2>4. MainReturns
    BY <2>1, <2>2, <2>3 DEF RootIsOpened, MainFallsBack, MainHasNoRoot
  <2>5. ipc' = "exited" /\ root' = root /\ here' = here
    BY <2>4 DEF MainReturns, Goes, rootVars, here
  <2>6. LogsAreWhole' /\ RootIsOpened'
    BY <1>1, <2>2, <2>5 DEF LogsAreWhole, RootIsOpened, Loaded
  <2>7. ASSUME NEW d \in Dirs, NEW p \in Paths, writer[d][p] # NoWriter
        PROVE  writer[d][p].key[2] = p /\ Known(d, writer[d][p])'
    BY <1>1, <2>2, <2>3, <2>5, <2>7 DEF WritersAreKnown, Known, Before, Loaded
  <2>8. WritersAreKnown'
    BY <1>1, <2>7 DEF WritersAreKnown
  <2>9. QED  BY <2>6, <2>8
<1>6. QED  BY <1>1, <1>4, <1>5 DEF InstallInv, Named, Writing, Owned

-----------------------------------------------------------------------------
\* Every step of pkg-install keeps the inductive invariant.
LEMMA InstallInductive == InstallInv /\ [InstallNext]_installVars => InstallInv'
<1>1. InstallInv /\ UNCHANGED installVars => InstallInv'
  <2> SUFFICES ASSUME InstallInv, UNCHANGED installVars PROVE InstallInv'
    OBVIOUS
  <2>1. here' = here /\ \A d, w : Known(d, w)' = Known(d, w)
    BY DEF installVars, here, Known
  <2>2. InstallTypeOK'
    BY DEF installVars, InstallInv, InstallTypeOK
  <2>3. Named' /\ RootIsOpened' = RootIsOpened /\ (lapses' = <<>>) = (lapses = <<>>)
    BY DEF installVars, InstallInv, Named, RootIsOpened
  <2>4. LogsAreWhole' = LogsAreWhole
    BY <2>1 DEF installVars, LogsAreWhole
  <2>5. WritersAreKnown => WritersAreKnown'
    BY DEF installVars, WritersAreKnown, Known, here
  <2>6. Writing'
    BY DEF installVars, InstallInv, Writing, HasNext, next, Arriving, IsProtected, here
  <2>7. QED  BY <2>2, <2>3, <2>4, <2>5, <2>6 DEF InstallInv, Owned
<1>2. QED
  BY <1>1, BeginStep, LogStep, PassStep, DirStep, ChunkStep, OpenStep, FailStep, DumpStep,
     ReturnStep DEF InstallNext

\* The inductive invariant of pkg-install.
THEOREM InstallInvariant == InstallSpec => []InstallInv
<1>1. InstallInit => InstallInv
  <2> SUFFICES ASSUME InstallInit PROVE InstallInv
    OBVIOUS
  <2>1. /\ <<>> \in Seq(PackageItems) /\ <<>> \in Seq({"config", "call", "killed"})
        /\ Len(<<>>) = 0 /\ "" \in Spellings
    BY EmptySeq, InstallAssumption
  <2>2. /\ ipc = "idle" /\ root = "" /\ table = NoOwners /\ todo = {} /\ opened = FALSE
        /\ archive = <<>> /\ cut = [items |-> 0, chunks |-> 0] /\ taken = 0 /\ name = None
        /\ chunk = 0 /\ fresh = FALSE /\ lapses = <<>>
        /\ logs = [d \in Dirs |-> [lines |-> {}, torn |-> FALSE]]
        /\ config \in [Dirs -> Configs]
    BY DEF InstallInit
  <2>3. node \in [Dirs -> [Paths -> Nodes]] /\ writer \in [Dirs -> [Paths -> Writers]]
    BY DEF InstallInit, Nodes, Writers
  <2>4. table \in [Keys -> Names] /\ name \in Names
    BY <2>2 DEF NoOwners, Names
  <2>5. /\ archive \in Seq(PackageItems) /\ Len(archive) = 0
        /\ lapses \in Seq({"config", "call", "killed"})
    BY <2>1, <2>2, Zenon
  <2>6. cut.items \in 0..Len(archive) /\ taken \in 0..cut.items /\ cut.items = 0
        /\ cut.chunks \in Nat
    <3>1. cut.items = 0 /\ cut.chunks = 0 /\ taken = 0
      BY <2>2
    <3>2. QED  BY <2>5, <3>1
  <2>7. logs \in [Dirs -> [lines : SUBSET Lines, torn : BOOLEAN]]
    BY <2>2
  <2>8. InstallTypeOK
    <3>1. ipc \in Places /\ root \in Spellings /\ todo \in SUBSET Lines /\ opened \in BOOLEAN
          /\ fresh \in BOOLEAN /\ chunk \in Nat /\ config \in [Dirs -> Configs]
      BY <2>1, <2>2 DEF Places, Before
    <3>2. QED  BY <2>3, <2>4, <2>5, <2>6, <2>7, <3>1 DEF InstallTypeOK
  <2>9. LogsAreWhole /\ RootIsOpened
    BY <2>2 DEF LogsAreWhole, RootIsOpened, Loaded
  <2>10. WritersAreKnown
    BY DEF InstallInit, WritersAreKnown
  <2>11. QED  BY <2>2, <2>8, <2>9, <2>10 DEF InstallInv, Named, Writing, Owned
<1>2. QED  BY <1>1, InstallInductive, PTL DEF InstallSpec

\* Between runs in which nothing went wrong, the log names the owner of every file a
\* package wrote (PkgInstall!Attributed; pkg-install.c:286-291).
THEOREM FilesAreAttributed == InstallSpec => []Attributed
<1>1. InstallInv => Attributed
  <2> SUFFICES ASSUME InstallInv, ipc \in {"idle", "exited"}, lapses = <<>>,
                      NEW d \in Dirs, NEW p \in Paths, writer[d][p] # NoWriter
               PROVE  [owner |-> writer[d][p].name, key |-> writer[d][p].key] \in logs[d].lines
    BY DEF Attributed
  <2>1. Known(d, writer[d][p])
    BY DEF InstallInv, Owned, WritersAreKnown
  <2>2. QED  BY <2>1 DEF Known, Loaded, Before, LineOf
<1>2. QED  BY <1>1, InstallInvariant, PTL

\* Only the opening of a file makes a package its writer.
LEMMA OthersKeepWriter ==
  ASSUME InstallNext
  PROVE  OpensFile \/ writer' = writer
BY DEF InstallNext, StartRun, LoadConfig, LoadConfigFails, ReadLog, ReadLogBreaksOff,
       ReadLogFails, MainRefuses, MainInstalls, TakesLeadingDir, ParsesBuildSh, LeadingFails,
       ItemsEnd, InstallsDir, PassesLink, SkipsProtected, ItemFails, WritesChunk,
       FileIsWritten, WriteFails, DumpOpens, DumpCannotOpen, DumpWrites, DumpBreaksOff,
       MainReturns, MainFallsBack, MainHasNoRoot, RunIsKilled, fileVars

\* While nothing has gone wrong, no package opens what another wrote under the
\* same spelling of the root (OwnersHonoured; pkg-install.c:111).
THEOREM OwnersAreHonoured == InstallSpec => OwnersHonoured
<1> DEFINE Honours ==
      lapses = <<>> =>
        \A d \in Dirs : \A p \in Paths :
          (writer[d][p] # NoWriter /\ writer'[d][p] # writer[d][p]) =>
            \/ writer[d][p].name = name
            \/ writer[d][p].key # <<root, p>>
<1>1. InstallInv /\ [InstallNext]_installVars => [Honours]_installVars
  <2> SUFFICES ASSUME InstallInv, InstallNext, lapses = <<>>,
                      NEW d \in Dirs, NEW p \in Paths, writer[d][p] # NoWriter,
                      writer'[d][p] # writer[d][p], writer[d][p].key = <<root, p>>
               PROVE  writer[d][p].name = name
    OBVIOUS
  <2>1. OpensFile
    BY OthersKeepWriter
  <2>2. /\ writer' = [writer EXCEPT ![here] = [writer[here] EXCEPT
                        ![next.path] = [name |-> name, key |-> Key(next.path)]]]
        /\ ipc = "items" /\ MayTake(Key(next.path))
    BY <2>1, Zenon DEF OpensFile
  <2>3. writer \in [Dirs -> [Paths -> Writers]]
    BY DEF InstallInv, InstallTypeOK
  <2>4. d = here /\ p = next.path
    BY <2>2, <2>3
  <2>5. Known(d, writer[d][p])
    BY DEF InstallInv, Owned, WritersAreKnown
  <2>6. table[Key(p)] = writer[d][p].name
    BY <2>2, <2>4, <2>5 DEF Known, Before, Key
  <2>7. writer[d][p].name # None
    BY <2>3 DEF Writers
  <2>8. QED  BY <2>2, <2>4, <2>6, <2>7 DEF MayTake
<1>2. QED  BY <1>1, InstallInvariant, PTL DEF InstallSpec, OwnersHonoured

\* What is below an argument of protect is protected.
LEMMA PrefixIsProtected ==
  ASSUME InstallTypeOK, NEW p \in Paths, NEW arg \in config[here].protect,
         NEW n \in 0..Len(p), arg = SubSeq(p, 1, n)
  PROVE  IsProtected(p)
<1>1. p \in Seq({p[i] : i \in DOMAIN p}) /\ Len(p) \in Nat
  BY InstallAssumption, LenProperties
<1>2. Len(SubSeq(p, 0 + 1, n)) = n /\ 0 + 1 = 1
  BY <1>1, Piece
<1>3. Len(arg) = n
  BY <1>2
<1>4. ProtectedBy(p, arg)
  BY <1>1, <1>3 DEF ProtectedBy
<1>5. QED  BY <1>4 DEF IsProtected

\* What is there and protected never changes, whatever fails and whoever is
\* killed (ProtectedKept; pkg-install.c:274).
THEOREM ProtectedIsKept == InstallSpec => ProtectedKept
<1> DEFINE Keeps ==
      \A d \in Dirs : \A p \in Paths :
        (/\ \E arg \in config[d].protect :
              \E n \in 0..Len(p) : arg = SubSeq(p, 1, n)
         /\ node[d][p] # Absent /\ ~(ipc = "file" /\ fresh))
        => node'[d][p] = node[d][p]
<1>1. InstallInv /\ [InstallNext]_installVars => [Keeps]_installVars
  <2> SUFFICES ASSUME InstallInv, InstallNext, NEW d \in Dirs, NEW p \in Paths,
                      NEW arg \in config[d].protect, NEW n \in 0..Len(p),
                      arg = SubSeq(p, 1, n), node[d][p] # Absent,
                      ~(ipc = "file" /\ fresh)
               PROVE  node'[d][p] = node[d][p]
    OBVIOUS
  <2>1. node \in [Dirs -> [Paths -> Nodes]] /\ here \in Dirs
    BY HereIsDir DEF InstallInv, InstallTypeOK
  <2>2. d = here => IsProtected(p)
    BY PrefixIsProtected DEF InstallInv
  <2>3. ASSUME NEW paths, node' = [node EXCEPT ![here] = Made(paths)]
        PROVE  node'[d][p] = node[d][p]
    BY <2>1, <2>3, MadeKeeps DEF InstallInv
  <2>4. CASE InstallsDir
    BY <2>3, <2>4 DEF InstallsDir
  <2>5. CASE ItemFails
    BY <2>3, <2>5 DEF ItemFails
  <2>6. CASE WritesChunk
    <3>1. ipc = "file" /\ ~IsProtected(next.path)
      BY <2>6 DEF WritesChunk, InstallInv, Writing
    <3>2. ~(d = here /\ p = next.path)
      BY <2>2, <3>1
    <3>3. node' = [node EXCEPT ![here] = [node[here] EXCEPT ![next.path] =
                     [node[here][next.path] EXCEPT !.data =
                        Overwritten(node[here][next.path].data, chunk + 1,
                                    next.contents[chunk + 1])]]]
      BY <2>6, Zenon DEF WritesChunk
    <3>4. QED  BY <2>1, <3>2, <3>3
  <2>7. CASE OpensFile
    <3> DEFINE made == Made(Above(next.path))
               file == IF made[next.path] = Absent THEN FileNode(<<>>) ELSE made[next.path]
    <3>1. node' = [node EXCEPT ![here] = [made EXCEPT ![next.path] = file]]
      BY <2>7 DEF OpensFile
    <3>2. made \in [Paths -> Nodes] /\ (d = here => made[p] = node[d][p])
      BY MadeKeeps DEF InstallInv
    <3> HIDE DEF made
    <3>3. CASE d = here
      <4>1. [made EXCEPT ![next.path] = file][p] = made[p]
        BY <3>2, <3>3
      <4>2. QED  BY <2>1, <3>1, <3>2, <3>3, <4>1
    <3>4. CASE d # here
      BY <2>1, <3>1, <3>4
    <3>5. QED  BY <3>3, <3>4
  <2>8. CASE ~(InstallsDir \/ ItemFails \/ WritesChunk \/ OpensFile)
    <3>1. node' = node
      BY <2>8 DEF InstallNext, StartRun, LoadConfig, LoadConfigFails, ReadLog,
         ReadLogBreaksOff, ReadLogFails, MainRefuses, MainInstalls, TakesLeadingDir,
         ParsesBuildSh, LeadingFails, ItemsEnd, PassesLink, SkipsProtected, FileIsWritten,
         WriteFails, DumpOpens, DumpCannotOpen, DumpWrites, DumpBreaksOff, MainReturns,
         MainFallsBack, MainHasNoRoot, RunIsKilled, fileVars
    <3>2. QED  BY <3>1
  <2>9. QED  BY <2>4, <2>5, <2>6, <2>7, <2>8
<1>2. QED  BY <1>1, InstallInvariant, PTL DEF InstallSpec, ProtectedKept
-----------------------------------------------------------------------------
\* Where the steps of a run lead, and what is taken on the way.
LEMMA OpeningStep == InstallInv /\ Opening /\ [InstallNext]_installVars => Opening'
<1> SUFFICES ASSUME InstallInv, Opening, [InstallNext]_installVars PROVE Opening'
  OBVIOUS
<1>1. CASE UNCHANGED installVars
  BY <1>1 DEF installVars, Opening
<1>2. CASE StartRun \/ LoadConfig \/ LoadConfigFails \/ ReadLog \/ ReadLogBreaksOff \/ ReadLogFails
  BY <1>2 DEF Opening, StartRun, LoadConfig, LoadConfigFails, ReadLog, ReadLogBreaksOff,
     ReadLogFails, Goes, rootVars, itemVars
<1>3. CASE MainRefuses \/ MainInstalls \/ LeadingFails \/ ItemsEnd \/ ItemFails \/ WriteFails
  BY <1>3 DEF Opening, MainRefuses, MainInstalls, LeadingFails, ItemsEnd, ItemFails, WriteFails,
     Succeeds, Fails, Goes, rootVars, itemVars
<1>4. CASE TakesLeadingDir \/ ParsesBuildSh \/ InstallsDir \/ PassesLink \/ SkipsProtected
           \/ OpensFile \/ WritesChunk \/ FileIsWritten
  BY <1>4 DEF Opening, TakesLeadingDir, ParsesBuildSh, InstallsDir, PassesLink, SkipsProtected,
     OpensFile, WritesChunk, FileIsWritten, Goes, rootVars
<1>5. CASE DumpOpens \/ DumpCannotOpen \/ DumpWrites \/ DumpBreaksOff
  <2>1. ipc' = "dump" /\ UNCHANGED <<opened, taken, status>>
    BY <1>5 DEF DumpOpens, DumpCannotOpen, DumpWrites, DumpBreaksOff, Goes, rootVars, itemVars
  <2>2. QED  BY <2>1 DEF Opening
<1>6. CASE MainReturns \/ MainFallsBack \/ MainHasNoRoot \/ RunIsKilled
  <2>1. /\ ipc' = "exited" \/ (ipc' = "config" /\ ~opened)
        /\ UNCHANGED <<opened, taken>> /\ status' \in {status, "crashed", "killed"}
    BY <1>6 DEF MainReturns, MainFallsBack, MainHasNoRoot, RunIsKilled, Goes, rootVars, itemVars
  <2>2. QED  BY <2>1 DEF Opening
<1>7. QED  BY <1>1, <1>2, <1>3, <1>4, <1>5, <1>6 DEF InstallNext

\* What is installed stays so while what is at its path stays.
LEMMA InstalledStays ==
  ASSUME NEW i, IsInstalled(i), UNCHANGED <<config, root, archive>>,
         node[here][archive[i].path] # Absent =>
           node'[here][archive[i].path] = node[here][archive[i].path]
  PROVE  IsInstalled(i)'
<1>1. NamedAgain(i)' = NamedAgain(i) /\ here' = here
      /\ IsProtected(archive[i].path)' = IsProtected(archive[i].path)
  BY DEF NamedAgain, here, IsProtected
<1>2. CASE archive[i].type \notin {"file", "dir"} \/ NamedAgain(i)
  BY <1>1, <1>2 DEF IsInstalled
<1>3. CASE ~(archive[i].type \notin {"file", "dir"} \/ NamedAgain(i))
  <2>1. node[here][archive[i].path] # Absent
    BY <1>3 DEF IsInstalled, Absent
  <2>2. QED  BY <1>1, <2>1 DEF IsInstalled
<1>4. QED  BY <1>2, <1>3

\* Everything of the archive that was taken after build.sh is installed.
TakenInstalled ==
  \A i \in 1..taken : (\E j \in 1..(i - 1) : IsBuildSh(archive[j])) => IsInstalled(i)

\* It still is when nothing that is there has changed, and so is the item taken.
LEMMA TakingInstalled ==
  ASSUME InstallTypeOK, TakenInstalled, UNCHANGED <<config, root, archive>>,
         \A p \in Paths : node[here][p] # Absent => node'[here][p] = node[here][p],
         taken' = taken \/ (HasNext /\ taken' = taken + 1
                              /\ \A n \in {taken + 1} : IsInstalled(n)')
  PROVE  TakenInstalled'
<1> SUFFICES ASSUME NEW i \in 1..taken', \E j \in 1..(i - 1) : IsBuildSh(archive[j])
             PROVE  IsInstalled(i)'
  BY DEF TakenInstalled, IsBuildSh
<1>1. taken \in Nat /\ taken <= Len(archive) /\ Len(archive) \in Nat
  BY LenProperties DEF InstallTypeOK
<1>2. CASE i \in 1..taken
  <2>1. i \in 1..Len(archive)
    BY <1>1, <1>2
  <2>2. archive[i].path \in Paths
    BY <2>1, ElementOfSeq, InstallAssumption DEF InstallTypeOK
  <2>3. QED  BY <1>2, <2>2, InstalledStays DEF TakenInstalled
<1>3. CASE ~(i \in 1..taken)
  <2>1. i \in {taken + 1} /\ taken' = taken + 1
    BY <1>1, <1>3
  <2>2. QED  BY <1>1, <1>3, <2>1
<1>4. QED  BY <1>2, <1>3

\* A file that has been written to its end begins with what the archive has.
LEMMA WrittenIsInstalled ==
  ASSUME InstallInv, FileIsWritten
  PROVE  IsInstalled(taken + 1)
<1> DEFINE there == node[here][next.path]
           contents == next.contents
<1>1. /\ HasNext /\ there \in FileNodes /\ chunk = Len(contents) /\ next.type = "file"
      /\ chunk <= Len(there.data) /\ \A i \in 1..chunk : there.data[i] = contents[i]
  BY DEF InstallInv, Writing, FileIsWritten
<1>2. contents \in Seq(Chunks) /\ Len(contents) \in Nat
  BY <1>1, NextIsItem DEF InstallInv
<1>3. there.kind = "file" /\ there.data \in Seq(Chunks) /\ Len(there.data) \in Nat
  BY <1>1, LenProperties DEF FileNodes
<1> DEFINE data == there.data
           amount == Len(contents)
<1>4. amount <= Len(data) /\ \A i \in 1..amount : data[i] = contents[i]
  BY <1>1
<1>5. SubSeq(data, 1, amount) = contents
  <2> HIDE DEF data, contents
  <2>1. 0 + 1 = 1 /\ 0 \in Nat /\ amount \in Nat
    BY <1>2
  <2>2. /\ SubSeq(data, 0 + 1, amount) \in Seq(Chunks)
        /\ Len(SubSeq(data, 0 + 1, amount)) = IF 0 <= amount THEN amount - 0 ELSE 0
        /\ \A i \in 1..amount - 0 : SubSeq(data, 0 + 1, amount)[i] = data[0 + i]
    BY <1>3, <1>4, <2>1, Piece DEF data
  <2>3. /\ SubSeq(data, 1, amount) \in Seq(Chunks) /\ Len(SubSeq(data, 1, amount)) = amount
        /\ \A i \in 1..amount : SubSeq(data, 1, amount)[i] = data[i]
    BY <2>1, <2>2
  <2>4. QED  BY <1>2, <1>4, <2>3, SeqEqual
<1>6. Len(data) >= amount
  BY <1>2, <1>3, <1>4
<1>7. QED  BY <1>1, <1>3, <1>5, <1>6 DEF IsInstalled, next

\* Steps after which nothing is claimed to be installed.
LEMMA IdleProgress ==
  ASSUME ipc' \notin {"leading", "items", "file"}, ipc' = "close" => status' # "ok"
  PROVE  Progress'
BY DEF Progress

\* The steps up to build.sh: only directories precede it, and none is claimed.
LEMMA LeadingProgress ==
  InstallInv /\ Opening /\ Progress /\ (MainInstalls \/ TakesLeadingDir \/ ParsesBuildSh) => Progress'
<1> SUFFICES ASSUME InstallInv, Opening, Progress,
                    MainInstalls \/ TakesLeadingDir \/ ParsesBuildSh
             PROVE  Progress'
  OBVIOUS
<1>1. taken \in Nat /\ archive' = archive
  BY LenProperties DEF InstallInv, InstallTypeOK, MainInstalls, TakesLeadingDir, ParsesBuildSh,
     itemVars
<1>2. CASE MainInstalls
  BY <1>2 DEF MainInstalls, Opening, Progress, Goes, itemVars
<1>3. CASE TakesLeadingDir
  <2>1. /\ ipc' = "leading" /\ taken' = taken + 1 /\ archive[taken + 1].type = "dir"
        /\ \A i \in 1..taken : archive[i].type = "dir"
    BY <1>3 DEF TakesLeadingDir, Progress, next
  <2>2. \A i \in 1..(taken + 1) : i \in 1..taken \/ i = taken + 1
    BY <1>1
  <2>3. QED  BY <1>1, <2>1, <2>2 DEF Progress
<1>4. CASE ParsesBuildSh
  <2>1. /\ ipc' = "items" /\ taken' = taken + 1
        /\ \A i \in 1..taken : archive[i].type = "dir"
    BY <1>4 DEF ParsesBuildSh, Progress, Goes
  <2>2. \A i \in 1..(taken + 1) : \A j \in 1..(i - 1) : j \in 1..taken
    BY <1>1
  <2>3. \A i \in 1..taken' : \A j \in 1..(i - 1) : ~IsBuildSh(archive[j])
    BY <2>1, <2>2 DEF IsBuildSh
  <2>4. \A i \in 1..taken' : ~(\E j \in 1..(i - 1) : IsBuildSh(archive[j]))'
    BY <1>1, <2>3 DEF IsBuildSh
  <2>5. QED  BY <2>1, <2>4 DEF Progress
<1>5. QED  BY <1>2, <1>3, <1>4

\* The steps that take the items: what was there stays, and what is taken is
\* installed.
LEMMA ItemsProgress ==
  /\ InstallInv /\ Progress
  /\ ItemsEnd \/ InstallsDir \/ PassesLink \/ SkipsProtected \/ OpensFile \/ FileIsWritten
  => Progress'
<1> SUFFICES ASSUME InstallInv, Progress,
                    \/ ItemsEnd \/ InstallsDir \/ PassesLink
                    \/ SkipsProtected \/ OpensFile \/ FileIsWritten
             PROVE  Progress'
  OBVIOUS
<1>1. InstallTypeOK /\ TakenInstalled /\ UNCHANGED <<config, root, archive>>
  BY DEF InstallInv, Progress, TakenInstalled, ItemsEnd, InstallsDir, PassesLink, SkipsProtected,
     OpensFile, FileIsWritten, rootVars, itemVars, TakesNext
<1>2. here' = here /\ here \in Dirs /\ node \in [Dirs -> [Paths -> Nodes]]
  BY <1>1, HereIsDir DEF here, InstallTypeOK
<1>3. TakenInstalled' /\ (ipc' = "close" => taken' = cut'.items)
  <2>1. CASE ItemsEnd
    <3>1. node' = node /\ taken' = taken /\ cut' = cut /\ ~(taken < cut.items)
      BY <2>1 DEF ItemsEnd, HasNext, fileVars, itemVars
    <3>2. taken = cut.items
      BY <1>1, <3>1, LenProperties DEF InstallTypeOK
    <3>3. QED  BY <1>1, <3>1, <3>2, TakingInstalled
  <2>2. CASE InstallsDir
    <3> DEFINE paths == Above(next.path) \union {next.path}
    <3>1. /\ HasNext /\ taken' = taken + 1 /\ next.type = "dir" /\ ipc' = "items"
          /\ node' = [node EXCEPT ![here] = Made(paths)]
      BY <2>2 DEF InstallsDir, TakesNext
    <3>2. node'[here] = Made(paths) /\ next.path \in Paths
      BY <1>1, <1>2, <3>1, NextIsItem
    <3>3. node'[here][next.path] # Absent
      BY <3>2 DEF Made, Absent, DirNode
    <3>4. \A n \in {taken + 1} : IsInstalled(n)'
      BY <1>1, <1>2, <3>1, <3>3 DEF IsInstalled, next
    <3>5. \A p \in Paths : node[here][p] # Absent => node'[here][p] = node[here][p]
      BY <1>1, <3>2, MadeKeeps
    <3>6. QED  BY <1>1, <3>1, <3>4, <3>5, TakingInstalled
  <2>3. CASE PassesLink
    <3>1. /\ HasNext /\ taken' = taken + 1 /\ next.type \notin {"file", "dir"}
          /\ node' = node /\ ipc' = "items"
      BY <2>3 DEF PassesLink, TakesNext, fileVars
    <3>2. \A n \in {taken + 1} : IsInstalled(n)'
      BY <1>1, <3>1 DEF IsInstalled, next
    <3>3. QED  BY <1>1, <3>1, <3>2, TakingInstalled
  <2>4. CASE SkipsProtected
    <3>1. /\ HasNext /\ taken' = taken + 1 /\ next.type = "file" /\ IsKept(next.path)
          /\ node' = node /\ ipc' = "items"
      BY <2>4 DEF SkipsProtected, TakesNext, fileVars
    <3>2. IsInstalled(taken + 1)
      BY <3>1 DEF IsInstalled, IsKept, next
    <3>3. \A n \in {taken + 1} : IsInstalled(n)'
      BY <1>1, <3>1, <3>2, InstalledStays
    <3>4. QED  BY <1>1, <3>1, <3>3, TakingInstalled
  <2>5. CASE OpensFile
    <3> DEFINE made == Made(Above(next.path))
               file == IF made[next.path] = Absent THEN FileNode(<<>>) ELSE made[next.path]
    <3>1. /\ taken' = taken /\ ipc' = "file"
          /\ node' = [node EXCEPT ![here] = [made EXCEPT ![next.path] = file]]
      BY <2>5 DEF OpensFile, Goes
    <3>2. /\ made \in [Paths -> Nodes]
          /\ \A p \in Paths : node[here][p] # Absent => made[p] = node[here][p]
      BY <1>1, MadeKeeps
    <3> HIDE DEF made
    <3>3. node'[here] = [made EXCEPT ![next.path] = file]
      BY <1>2, <3>1
    <3>4. \A p \in Paths : node[here][p] # Absent => node'[here][p] = node[here][p]
      BY <3>2, <3>3
    <3>5. QED  BY <1>1, <3>1, <3>4, TakingInstalled
  <2>6. CASE FileIsWritten
    <3>1. /\ HasNext /\ taken' = taken + 1 /\ node' = node /\ ipc' = "items"
      BY <2>6 DEF FileIsWritten, TakesNext, fileVars, Goes, InstallInv, Writing
    <3>2. \A n \in {taken + 1} : IsInstalled(n)'
      BY <1>1, <2>6, <3>1, WrittenIsInstalled, InstalledStays
    <3>3. QED  BY <1>1, <3>1, <3>2, TakingInstalled
  <2>7. QED  BY <2>1, <2>2, <2>3, <2>4, <2>5, <2>6
<1>4. ipc' \in {"close", "items", "file"}
  BY DEF ItemsEnd, InstallsDir, PassesLink, SkipsProtected, OpensFile, FileIsWritten, Succeeds, Goes
<1>5. QED  BY <1>3, <1>4 DEF Progress, TakenInstalled

\* A chunk may change what an earlier item left only where the archive names its
\* file again.
LEMMA ChunkProgress == InstallInv /\ Progress /\ WritesChunk => Progress'
<1> SUFFICES ASSUME InstallInv, Progress, WritesChunk PROVE Progress'
  OBVIOUS
<1>1. /\ ipc = "file" /\ ipc' = "file" /\ taken' = taken
      /\ UNCHANGED <<config, root, archive>> /\ TakenInstalled
  BY DEF WritesChunk, rootVars, Progress, TakenInstalled
<1>2. HasNext /\ next.type = "file" /\ InstallTypeOK /\ taken \in Nat
      /\ taken <= Len(archive) /\ Len(archive) \in Nat
  BY <1>1, LenProperties DEF InstallInv, Writing, InstallTypeOK
<1>3. node' = [node EXCEPT ![here] = [node[here] EXCEPT ![next.path] =
                 [node[here][next.path] EXCEPT !.data =
                    Overwritten(node[here][next.path].data, chunk + 1,
                                next.contents[chunk + 1])]]]
  BY Zenon DEF WritesChunk
<1>4. ASSUME NEW i \in 1..taken, IsInstalled(i) PROVE IsInstalled(i)'
  <2>1. i \in 1..Len(archive) /\ taken + 1 \in (i + 1)..Len(archive)
    BY <1>2, NextIsItem
  <2>2. archive[i].path \in Paths
    BY <1>2, <2>1, ElementOfSeq, InstallAssumption DEF InstallTypeOK
  <2>3. CASE archive[i].path = next.path
    <3>1. NamedAgain(i)
      BY <1>2, <2>1, <2>3 DEF NamedAgain, next
    <3>2. NamedAgain(i)'
      BY <1>1, <3>1 DEF NamedAgain
    <3>3. QED  BY <3>2 DEF IsInstalled
  <2>4. CASE archive[i].path # next.path
    <3>1. node \in [Dirs -> [Paths -> Nodes]] /\ here \in Dirs
      BY <1>2, HereIsDir DEF InstallTypeOK
    <3>2. node'[here][archive[i].path] = node[here][archive[i].path]
      BY <1>3, <2>2, <2>4, <3>1
    <3>3. QED  BY <1>1, <1>4, <3>2, InstalledStays
  <2>5. QED  BY <2>3, <2>4
<1>5. TakenInstalled'
  BY <1>1, <1>4 DEF TakenInstalled, IsBuildSh
<1>6. QED  BY <1>1, <1>5 DEF Progress, TakenInstalled

\* What a step of pkg-install has installed stays installed.
LEMMA ProgressStep ==
  InstallInv /\ Opening /\ Progress /\ [InstallNext]_installVars => Progress'
<1> SUFFICES ASSUME InstallInv, Opening, Progress, [InstallNext]_installVars PROVE Progress'
  OBVIOUS
<1>1. CASE UNCHANGED installVars
  <2>1. UNCHANGED <<ipc, status, taken, cut, archive, node, root, config>>
    BY <1>1 DEF installVars, fileVars, rootVars, itemVars
  <2>2. \A i : IsInstalled(i)' = IsInstalled(i)
    BY <2>1 DEF IsInstalled, NamedAgain, IsProtected, here
  <2>3. QED  BY <2>1, <2>2 DEF Progress, IsBuildSh
<1>2. CASE StartRun \/ LoadConfig \/ LoadConfigFails \/ ReadLog \/ ReadLogBreaksOff \/ ReadLogFails
  BY <1>2, IdleProgress DEF Opening, StartRun, LoadConfig, LoadConfigFails, ReadLog,
     ReadLogBreaksOff, ReadLogFails, Goes
<1>3. CASE MainRefuses \/ LeadingFails \/ ItemFails \/ WriteFails
  BY <1>3, IdleProgress DEF MainRefuses, LeadingFails, ItemFails, WriteFails, Fails, Goes
<1>4. CASE DumpOpens \/ DumpCannotOpen \/ DumpWrites \/ DumpBreaksOff \/ MainReturns
           \/ MainFallsBack \/ MainHasNoRoot \/ RunIsKilled
  BY <1>4, IdleProgress DEF DumpOpens, DumpCannotOpen, DumpWrites, DumpBreaksOff, MainReturns,
     MainFallsBack, MainHasNoRoot, RunIsKilled, Goes
<1>5. QED
  BY <1>1, <1>2, <1>3, <1>4, LeadingProgress, ItemsProgress, ChunkProgress DEF InstallNext

\* When pkg-install is about to return success and its archive arrived whole, the
\* root that is open has all that follows build.sh (PkgInstall!SuccessMeansInstalled;
\* pkg-install.c:255-300).
THEOREM SuccessIsInstalled == InstallSpec => []SuccessMeansInstalled
<1>1. InstallInit => Opening /\ Progress
  BY DEF InstallInit, Opening, Progress
<1>2. Progress => SuccessMeansInstalled
  BY DEF Progress, SuccessMeansInstalled
<1>3. QED
  BY <1>1, <1>2, InstallInvariant, OpeningStep, ProgressStep, PTL DEF InstallSpec

-----------------------------------------------------------------------------
(* Reading an archive.                                                     *)

\* Whole blocks add up to whole blocks.
LEMMA BlocksAdd ==
  ASSUME NEW a \in Nat, NEW b \in Nat, a % Block = 0, b % Block = 0
  PROVE  (a + b) % Block = 0
<1>1. Block \in Nat /\ Block > 0
  BY TarAssumption
<1>2. PICK p \in Nat, q \in Nat : a = Block * p /\ b = Block * q
  <2>1. a = Block * (a \div Block) + (a % Block) /\ b = Block * (b \div Block) + (b % Block)
    BY <1>1
  <2>2. a \div Block \in Nat /\ b \div Block \in Nat
    BY <1>1
  <2> DEFINE p == a \div Block
             q == b \div Block
  <2>3. a = Block * p /\ b = Block * q
    <3>1. \A z \in Nat : Block * z \in Nat
      BY <1>1
    <3>2. Block * p + 0 = Block * p /\ Block * q + 0 = Block * q
      BY <2>2, <3>1
    <3>3. QED  BY <2>1, <3>2
  <2>4. p \in Nat /\ q \in Nat
    BY <2>2
  <2> HIDE DEF p, q
  <2>5. QED  BY <2>3, <2>4
<1>3. a + b = Block * (p + q) /\ p + q \in Nat
  BY <1>1, <1>2
<1>4. \A z \in Nat : (Block * z) % Block = 0
  BY <1>1
<1>5. QED  BY <1>3, <1>4

LEMMA RoundsUp ==
  ASSUME NEW n \in Nat
  PROVE  RoundUp(n) \in Nat /\ n <= RoundUp(n) /\ RoundUp(n) % Block = 0
<1>1. Block \in Nat /\ Block > 0
  BY TarAssumption
<1>2. CASE n % Block = 0
  BY <1>2 DEF RoundUp
<1>3. CASE n % Block # 0
  <2> DEFINE q == n \div Block
  <2>1. q \in Nat /\ n = Block * q + (n % Block) /\ n % Block < Block
    BY <1>1
  <2>2. RoundUp(n) = (q + 1) * Block
    BY <1>3 DEF RoundUp
  <2> HIDE DEF q
  <2>3. (q + 1) * Block = Block * q + Block /\ (q + 1) * Block \in Nat
    BY <1>1, <2>1
  <2>4. n <= (q + 1) * Block
    BY <1>1, <2>1, <2>3
  <2>5. ((q + 1) * Block) % Block = 0
    BY <1>1, <2>1
  <2>6. QED  BY <2>2, <2>3, <2>4, <2>5
<1>4. QED  BY <1>2, <1>3

\* What an archive is made of.
ItemTexts == {Sep} \cup UNION {Range(item.name) \cup Range(item.link) : item \in Items}
ItemBytes == UNION {Range(item.contents) : item \in Items}
HeaderUnits ==
  [kind : {"header"}, flag : {"0", "1", "2", "5"}, name : Seq(ItemTexts), size : Nat,
   link : Seq(ItemTexts)]
TarUnits == HeaderUnits \cup ItemBytes \cup {Zero, Field}

\* The parts of an item.
LEMMA ItemParts ==
  ASSUME NEW item \in Items
  PROVE  /\ item.type \in DOMAIN Flag
         /\ item.name \in Seq(ItemTexts) /\ item.link \in Seq(ItemTexts)
         /\ item.contents \in Seq(TarUnits)
         /\ Zero \notin ItemTexts
         /\ item.type # "file" => item.contents = <<>>
         /\ item.type \notin {"symlink", "hardlink"} => item.link = <<>>
<1>1. /\ item.type \in DOMAIN Flag
      /\ item.name \in Seq(Range(item.name)) /\ item.link \in Seq(Range(item.link))
      /\ item.contents \in Seq(Range(item.contents))
      /\ item.type # "file" => item.contents = <<>>
      /\ item.type \notin {"symlink", "hardlink"} => item.link = <<>>
  BY ReaderAssumption DEF IsText
<1>2. /\ Range(item.name) \subseteq ItemTexts /\ Range(item.link) \subseteq ItemTexts
      /\ Range(item.contents) \subseteq TarUnits
  BY DEF ItemTexts, TarUnits, ItemBytes
<1>3. item.name \in Seq(ItemTexts) /\ item.link \in Seq(ItemTexts) /\ item.contents \in Seq(TarUnits)
  BY <1>1, <1>2, SeqMonotonic
<1>4. Zero \notin ItemTexts
  <2>1. \A other \in Items : Zero \notin Range(other.name) /\ Zero \notin Range(other.link)
    BY ReaderAssumption DEF IsText
  <2>2. Zero # Sep
    BY DEF Zero, Sep, Char
  <2>3. Zero \notin UNION {Range(other.name) \cup Range(other.link) : other \in Items}
    BY <2>1
  <2>4. QED  BY <2>2, <2>3 DEF ItemTexts
<1>5. QED  BY <1>1, <1>3, <1>4

\* A name without its separators is made of what the name is made of.
LEMMA RelativeIsText ==
  ASSUME NEW T, NEW n \in Seq(T)
  PROVE  Relative(n) \in Seq(T)
<1> DEFINE Is(b) == /\ \A j \in 1..(b - 1) : n[j] = Sep
                    /\ b <= Len(n) => n[b] # Sep
           B == {b \in 1..Len(n) + 1 : b <= Len(n) => n[b] # Sep}
<1>1. Len(n) \in Nat
  BY LenProperties
<1>2. PICK b \in B : \A other \in B : b <= other
  <2>1. Len(n) + 1 \in B /\ B \subseteq Nat
    BY <1>1
  <2> HIDE DEF B
  <2>2. QED  BY <2>1, LeastElement
<1>3. b \in 1..Len(n) + 1 /\ Is(b)
  <2>1. b \in 1..Len(n) + 1 /\ (b <= Len(n) => n[b] # Sep)
    BY <1>2
  <2>2. \A j \in 1..b - 1 : n[j] = Sep
    <3> TAKE j \in 1..b - 1
    <3>1. j \in 1..Len(n) + 1 /\ ~(b <= j) /\ j <= Len(n)
      BY <1>1, <2>1
    <3>2. j \notin B
      BY <1>2, <3>1
    <3>3. QED  BY <3>1, <3>2
  <2>3. QED  BY <2>1, <2>2
<1> HIDE DEF Is, B
<1> DEFINE start == CHOOSE i \in 1..(Len(n) + 1) : Is(i)
<1>4. start \in 1..(Len(n) + 1)
  BY <1>3
<1>5. Relative(n) = SubSeq(n, start, Len(n))
  BY DEF Relative, Is
<1> HIDE DEF start
<1>6. \A i \in start..Len(n) : n[i] \in T
  BY <1>1, <1>4, ElementOfSeq
<1>7. QED  BY <1>1, <1>4, <1>5, <1>6, SubSeqProperties

LEMMA FullNameTyped ==
  ASSUME NEW T, Sep \in T, NEW item, item.name \in Seq(T)
  PROVE  FullName(item) \in Seq(T)
<1>1. Relative(item.name) \in Seq(T)
  BY RelativeIsText
<1>2. Append(Relative(item.name), Sep) \in Seq(T)
  BY <1>1, AppendProperties
<1>3. QED  BY <1>1, <1>2 DEF FullName

LEMMA FullNameIsText ==
  ASSUME NEW item \in Items
  PROVE  FullName(item) \in Seq(ItemTexts)
<1>1. item.name \in Seq(ItemTexts) /\ Sep \in ItemTexts
  BY ItemParts DEF ItemTexts
<1>2. QED  BY <1>1, FullNameTyped

\* A string without a zero is its own.
LEMMA WholeString ==
  ASSUME NEW units \in Seq(ItemTexts), Zero \notin ItemTexts
  PROVE  String(units) = units
<1> DEFINE Is(n) == /\ \A i \in 1..n : units[i] # Zero
                    /\ n < Len(units) => units[n + 1] = Zero
           end == CHOOSE n \in 0..Len(units) : Is(n)
<1>1. Len(units) \in Nat /\ \A i \in 1..Len(units) : units[i] # Zero
  BY LenProperties, ElementOfSeq
<1>2. Len(units) \in 0..Len(units) /\ Is(Len(units))
  BY <1>1
<1>3. end \in 0..Len(units) /\ Is(end)
  <2> HIDE DEF Is
  <2>1. QED  BY <1>2
<1>4. String(units) = SubSeq(units, 1, end)
  BY DEF String
<1> HIDE DEF end
<1>5. end = Len(units)
  <2>1. CASE end < Len(units)
    <3>1. end + 1 \in 1..Len(units)
      BY <1>1, <1>3, <2>1
    <3>2. QED  BY <1>1, <1>3, <2>1, <3>1
  <2>2. QED  BY <1>1, <1>3, <2>1
<1>6. QED  BY <1>4, <1>5, SubSeqFull

\* An item that fits is a block with its header, and its contents in whole blocks.
Fits(item) == NameFits(item) /\ LinkFits(item)
HeaderOf(item) ==
  [kind |-> "header", flag |-> Flag[item.type], name |-> FullName(item),
   size |-> Len(item.contents), link |-> item.link]

LEMMA ItemIsWritten ==
  ASSUME NEW item \in Items, Fits(item)
  PROVE  /\ WriteItem(item) \in Seq(TarUnits)
         /\ Len(WriteItem(item)) = Block + RoundUp(Len(item.contents))
         /\ WriteItem(item)[1] = HeaderOf(item)
         /\ \A j \in 1..Len(item.contents) : WriteItem(item)[Block + j] = item.contents[j]
<1> DEFINE c == item.contents
           h == <<HeaderOf(item)>>
           rest == [i \in 1..(Block - 1) |-> Field]
           p == Padding(Len(c))
<1>1. Block \in Nat /\ Block > 1
  BY TarAssumption
<1>2. c \in Seq(TarUnits) /\ Len(c) \in Nat /\ item.type \in DOMAIN Flag
  BY ItemParts, LenProperties
<1>3. HeaderOf(item) \in TarUnits
  BY <1>2, ItemParts, FullNameIsText DEF HeaderOf, TarUnits, HeaderUnits, Flag
<1>4. WriteHeader(item) = h \o rest
  <2>1. WriteHeader(item) = <<>> \o <<>> \o (h \o rest)
    BY DEF WriteHeader, WriteSized, Fits, Header, HeaderOf
  <2>2. QED  BY <2>1
<1>5. h \in Seq(TarUnits) /\ Len(h) = 1 /\ h[1] = HeaderOf(item)
  BY <1>3
<1>6. rest \in Seq(TarUnits) /\ Len(rest) = Block - 1
  <2>1. Block - 1 \in Nat /\ Field \in TarUnits
    BY <1>1 DEF TarUnits
  <2>2. QED  BY <2>1
<1>7. p \in Seq(TarUnits) /\ Len(p) = RoundUp(Len(c)) - Len(c)
  <2>1. RoundUp(Len(c)) \in Nat /\ Len(c) <= RoundUp(Len(c)) /\ Zero \in TarUnits
    BY <1>2, RoundsUp DEF TarUnits
  <2>2. p = [i \in 1..RoundUp(Len(c)) - Len(c) |-> Zero]
    BY DEF Padding, Zeros
  <2>3. RoundUp(Len(c)) - Len(c) \in Nat
    BY <1>2, <2>1
  <2> HIDE DEF p
  <2>4. QED  BY <2>1, <2>2, <2>3
<1>8. WriteItem(item) = ((h \o rest) \o c) \o p
  BY <1>4 DEF WriteItem
<1> HIDE DEF h, rest, p, c
<1>9. /\ h \o rest \in Seq(TarUnits) /\ Len(h \o rest) = Block /\ (h \o rest)[1] = HeaderOf(item)
  <2>1. 1 \in 1..Len(h) + Len(rest) /\ 1 <= Len(h) /\ 1 + (Block - 1) = Block
    BY <1>1, <1>5, <1>6
  <2>2. QED  BY <1>5, <1>6, <2>1, ConcatProperties, ZenonT(30)
<1> DEFINE hr == h \o rest
<1> HIDE DEF hr
<1>10. /\ hr \o c \in Seq(TarUnits) /\ Len(hr \o c) = Block + Len(c)
       /\ (hr \o c)[1] = HeaderOf(item)
       /\ \A j \in 1..Len(c) : (hr \o c)[Block + j] = c[j]
  <2>1. hr \in Seq(TarUnits) /\ Len(hr) = Block /\ hr[1] = HeaderOf(item)
    BY <1>9 DEF hr
  <2>2. 1 \in 1..Len(hr) + Len(c) /\ 1 <= Block
    BY <1>1, <1>2, <2>1 DEF c
  <2>3. \A j \in 1..Len(c) : Block + j \in 1..Len(hr) + Len(c) /\ ~(Block + j <= Block)
                             /\ (Block + j) - Block = j
    BY <1>1, <1>2, <2>1 DEF c
  <2>4. c \in Seq(TarUnits)
    BY <1>2 DEF c
  <2>5. /\ hr \o c \in Seq(TarUnits) /\ Len(hr \o c) = Len(hr) + Len(c)
        /\ \A i \in 1..Len(hr) + Len(c) :
             (hr \o c)[i] = IF i <= Len(hr) THEN hr[i] ELSE c[i - Len(hr)]
    BY <2>1, <2>4, ConcatProperties
  <2>6. QED  BY <2>1, <2>2, <2>3, <2>5
<1> DEFINE body == hr \o c
<1> HIDE DEF body
<1>11. /\ body \o p \in Seq(TarUnits) /\ Len(body \o p) = Block + RoundUp(Len(c))
       /\ (body \o p)[1] = HeaderOf(item)
       /\ \A j \in 1..Len(c) : (body \o p)[Block + j] = c[j]
  <2>1. /\ body \in Seq(TarUnits) /\ Len(body) = Block + Len(c) /\ body[1] = HeaderOf(item)
        /\ \A j \in 1..Len(c) : body[Block + j] = c[j]
    BY <1>10 DEF body
  <2>2. Len(p) \in Nat /\ Len(c) \in Nat /\ RoundUp(Len(c)) \in Nat
    BY <1>2, <1>7, LenProperties, RoundsUp DEF c
  <2>3. 1 \in 1..Len(body) + Len(p) /\ 1 <= Len(body) /\ Len(body) + Len(p) = Block + RoundUp(Len(c))
    BY <1>1, <1>7, <2>1, <2>2
  <2>4. \A j \in 1..Len(c) : Block + j \in 1..Len(body) + Len(p) /\ Block + j <= Len(body)
    BY <1>1, <2>1, <2>2
  <2>5. body \in Seq(TarUnits) /\ p \in Seq(TarUnits)
    BY <1>7, <2>1
  <2>6. /\ body \o p \in Seq(TarUnits) /\ Len(body \o p) = Len(body) + Len(p)
        /\ \A i \in 1..Len(body) + Len(p) :
             (body \o p)[i] = IF i <= Len(body) THEN body[i] ELSE p[i - Len(body)]
    BY <2>5, ConcatProperties
  <2>7. (body \o p)[1] = HeaderOf(item)
    BY <2>1, <2>3, <2>6
  <2>8. \A j \in 1..Len(c) : (body \o p)[Block + j] = c[j]
    BY <2>1, <2>4, <2>6
  <2>9. QED  BY <2>3, <2>6, <2>7, <2>8
<1>12. QED  BY <1>8, <1>11 DEF body, hr, c

\* A sequence of sequences in one: it grows by one of them after the other, and
\* what it has it keeps.
Joins(w, s, S) ==
  /\ w \in [0..Len(s) -> Seq(S)]
  /\ w[0] = <<>> /\ FlattenSeq(s) = w[Len(s)]
  /\ \A i \in 1..Len(s) : w[i] = w[i - 1] \o s[i]
  /\ \A i \in 0..Len(s) : \A j \in i..Len(s) :
       Len(w[i]) <= Len(w[j]) /\ \A x \in 1..Len(w[i]) : w[j][x] = w[i][x]

LEMMA Flattened ==
  ASSUME NEW S, NEW s \in Seq(Seq(S))
  PROVE  \E w : Joins(w, s, S)
<1> DEFINE n == Len(s)
<1>1. n \in Nat /\ \A i \in 1..n : s[i] \in Seq(S)
  BY LenProperties, ElementOfSeq
<1>2. PICK f : JoinsUpTo(s, n, f) /\ \A i \in 1..n : f[i] \in Seq(S)
  BY JoinExists
<1>3. \E w : /\ w[0] = <<>> /\ FlattenSeq(s) = w[n] /\ w = [i \in 0..n |-> w[i]]
             /\ \A i \in 1..n : w[i] = w[i - 1] \o s[i]
  <2>1. CASE n = 0
    <3> DEFINE w == [i \in 0..n |-> <<>>]
    <3>1. s = <<>>
      BY <2>1
    <3>2. FlattenSeq(s) = <<>>
      BY <2>1, <3>1 DEF FlattenSeq
    <3>3. w[0] = <<>> /\ w[n] = <<>> /\ w = [i \in 0..n |-> w[i]] /\ 1..n = {}
      BY <2>1
    <3> HIDE DEF w
    <3>4. QED  BY <3>2, <3>3
  <2>2. CASE n # 0
    <3>1. \A i \in 1..n : f[i] = IF i = 1 THEN s[i] ELSE f[i - 1] \o s[i]
      BY <1>2 DEF JoinsUpTo
    <3>2. FlattenSeq(s) = f[n]
      BY <1>2, <2>2, FlattenJoins
    <3> DEFINE w == [i \in 0..n |-> IF i = 0 THEN <<>> ELSE f[i]]
    <3>3. w[0] = <<>> /\ w[n] = f[n] /\ w = [i \in 0..n |-> w[i]]
      BY <1>1, <2>2
    <3>4. \A i \in 1..n : w[i] = w[i - 1] \o s[i]
      <4> TAKE i \in 1..n
      <4>1. w[i] = f[i] /\ i - 1 \in 0..n /\ (i # 1 => i - 1 # 0)
        BY <1>1
      <4>2. f[i] = IF i = 1 THEN s[i] ELSE f[i - 1] \o s[i]
        BY <3>1
      <4>3. i = 1 => w[i - 1] = <<>>
        BY <1>1
      <4>4. i # 1 => w[i - 1] = f[i - 1]
        BY <4>1
      <4>5. s[i] = <<>> \o s[i]
        BY <1>1, ConcatEmptySeq
      <4>6. QED  BY <4>1, <4>2, <4>3, <4>4, <4>5
    <3> HIDE DEF w
    <3>5. QED  BY <3>2, <3>3, <3>4
  <2>3. QED  BY <2>1, <2>2
<1>4. PICK w : /\ w[0] = <<>> /\ FlattenSeq(s) = w[n] /\ w = [i \in 0..n |-> w[i]]
               /\ \A i \in 1..n : w[i] = w[i - 1] \o s[i]
  BY <1>3
<1> HIDE DEF n
<1>5. \A i \in 0..n : w[i] \in Seq(S)
  <2> DEFINE Other == {i \in 0..n : w[i] \notin Seq(S)}
  <2> SUFFICES ASSUME Other # {} PROVE FALSE
    OBVIOUS
  <2>1. PICK i \in Other : \A o \in Other : i <= o
    <3>1. Other \subseteq Nat
      BY <1>1
    <3> HIDE DEF Other
    <3>2. QED  BY <3>1, LeastElement
  <2>2. CASE i = 0
    BY <1>4, <2>1, <2>2, EmptySeq
  <2>3. CASE i # 0
    <3>1. i \in 1..n /\ i - 1 \in 0..n /\ ~(i <= i - 1)
      BY <1>1, <2>1, <2>3
    <3>2. w[i - 1] \in Seq(S)
      BY <2>1, <3>1
    <3>3. w[i] \in Seq(S)
      BY <1>1, <1>4, <3>1, <3>2, ConcatProperties, ZenonT(30)
    <3>4. QED  BY <2>1, <3>3
  <2>4. QED  BY <2>2, <2>3
<1>6. ASSUME NEW i \in 0..n
      PROVE  \A j \in i..n : Len(w[i]) <= Len(w[j]) /\ \A x \in 1..Len(w[i]) : w[j][x] = w[i][x]
  <2> DEFINE Keeps(j) == Len(w[i]) <= Len(w[j]) /\ \A x \in 1..Len(w[i]) : w[j][x] = w[i][x]
             Other == {j \in i..n : ~Keeps(j)}
  <2> SUFFICES ASSUME Other # {} PROVE FALSE
    OBVIOUS
  <2>1. PICK j \in Other : \A o \in Other : j <= o
    <3>1. Other \subseteq Nat
      BY <1>1
    <3> HIDE DEF Other
    <3>2. QED  BY <3>1, LeastElement
  <2>2. Len(w[i]) \in Nat
    BY <1>5, LenProperties
  <2>3. CASE j = i
    BY <2>1, <2>2, <2>3
  <2>4. CASE j # i
    <3>1. j \in 1..n /\ j - 1 \in 0..n /\ j - 1 \in i..n /\ ~(j <= j - 1)
      BY <1>1, <2>1, <2>4
    <3>2. Keeps(j - 1)
      BY <2>1, <3>1
    <3>3. w[j - 1] \in Seq(S) /\ s[j] \in Seq(S) /\ w[j] = w[j - 1] \o s[j]
      BY <1>1, <1>4, <1>5, <3>1
    <3> DEFINE a == Len(w[j - 1])
               b == Len(s[j])
    <3>4. /\ a \in Nat /\ b \in Nat /\ Len(w[j]) = a + b
          /\ \A x \in 1..a + b : w[j][x] = IF x <= a THEN w[j - 1][x] ELSE s[j][x - a]
      <4>1. a \in Nat /\ b \in Nat
        BY <3>3, LenProperties
      <4>2. /\ Len(w[j - 1] \o s[j]) = a + b
            /\ \A x \in 1..a + b :
                 (w[j - 1] \o s[j])[x] = IF x <= a THEN w[j - 1][x] ELSE s[j][x - a]
        BY <3>3, ConcatProperties
      <4> HIDE DEF a, b
      <4>3. QED  BY <3>3, <4>1, <4>2
    <3>5. Keeps(j)
      <4>0. Len(w[i]) <= a /\ \A x \in 1..Len(w[i]) : w[j - 1][x] = w[i][x]
        BY <3>2
      <4> HIDE DEF a, b
      <4>1. Len(w[i]) <= Len(w[j])
        BY <2>2, <3>4, <4>0
      <4>2. ASSUME NEW x \in 1..Len(w[i]) PROVE w[j][x] = w[i][x]
        <5>1. x \in 1..a + b /\ x <= a
          BY <2>2, <3>4, <4>0
        <5>2. QED  BY <3>4, <4>0, <5>1
      <4>3. QED  BY <4>1, <4>2
    <3>6. QED  BY <2>1, <3>5
  <2>5. QED  BY <2>3, <2>4
<1>7. w \in [0..n -> Seq(S)]
  BY <1>4, <1>5
<1>8. Joins(w, s, S)
  BY <1>4, <1>6, <1>7 DEF Joins, n
<1>9. QED  BY <1>8

\* The archives of this case: no name and no link is longer than a header holds.
HeadersHold == \A i \in DOMAIN items : Fits(items[i])

\* Where the items of an archive begin and end: e[i] units are up to the i-th.
AreEdges(e) ==
  LET n == Len(items)  all == Archive(items)
  IN  /\ e \in [0..n -> Nat] /\ e[0] = 0
      /\ \A i \in 0..n : e[i] % Block = 0 /\ e[i] <= e[n]
      /\ \A i \in 1..n :
           /\ e[i] = e[i - 1] + Block + RoundUp(Len(items[i].contents))
           /\ all[e[i - 1] + 1] = HeaderOf(items[i])
           /\ \A j \in 1..Len(items[i].contents) :
                all[e[i - 1] + Block + j] = items[i].contents[j]
      /\ all \in Seq(TarUnits) /\ Len(all) = e[n] + 2 * Block
      /\ \A j \in 1..2 * Block : all[e[n] + j] = Zero

LEMMA ArchiveHasEdges ==
  ASSUME items \in Seq(Items), HeadersHold
  PROVE  \E e : AreEdges(e)
<1> DEFINE n == Len(items)
           s == [i \in 1..n |-> WriteItem(items[i])]
           end == Zeros(2 * Block)
<1>1. Block \in Nat /\ Block > 1
  BY TarAssumption
<1>2. n \in Nat /\ DOMAIN items = 1..n /\ \A i \in 1..n : items[i] \in Items /\ Fits(items[i])
  BY LenProperties, ElementOfSeq DEF HeadersHold
<1>3. s \in Seq(Seq(TarUnits)) /\ Len(s) = n /\ \A i \in 1..n : s[i] = WriteItem(items[i])
  <2>1. \A i \in 1..n : WriteItem(items[i]) \in Seq(TarUnits)
    BY <1>2, ItemIsWritten
  <2> HIDE DEF n
  <2>2. QED  BY <1>2, <2>1
<1> HIDE DEF s, n
<1>4. PICK w \in [0..n -> Seq(TarUnits)] :
           /\ w[0] = <<>> /\ FlattenSeq(s) = w[n]
           /\ \A i \in 1..n : w[i] = w[i - 1] \o s[i]
           /\ \A i \in 0..n : \A j \in i..n :
                Len(w[i]) <= Len(w[j]) /\ \A x \in 1..Len(w[i]) : w[j][x] = w[i][x]
  <2>1. PICK w : Joins(w, s, TarUnits)
    BY <1>3, Flattened
  <2>2. QED  BY <1>3, <2>1 DEF Joins
<1>5. Archive(items) = w[n] \o end
  BY <1>4 DEF Archive, End, s, n
<1>6. end \in Seq(TarUnits) /\ Len(end) = 2 * Block /\ \A j \in 1..2 * Block : end[j] = Zero
  <2>1. 2 * Block \in Nat /\ Zero \in TarUnits
    BY <1>1 DEF TarUnits
  <2>2. end = [i \in 1..2 * Block |-> Zero]
    BY DEF Zeros
  <2> HIDE DEF end
  <2>3. QED  BY <2>1, <2>2
<1> HIDE DEF end
<1> DEFINE e == [i \in 0..n |-> Len(w[i])]
           all == w[n] \o end
<1>7. \A i \in 0..n : w[i] \in Seq(TarUnits) /\ e[i] = Len(w[i]) /\ e[i] \in Nat
  BY <1>4, LenProperties
<1>8. e \in [0..n -> Nat] /\ e[0] = 0
  <2>1. Len(w[0]) = 0 /\ 0 \in 0..n
    BY <1>2, <1>4
  <2>2. e = [i \in 0..n |-> e[i]]
    OBVIOUS
  <2>3. e[0] = 0
    BY <1>7, <2>1
  <2> HIDE DEF e
  <2>4. QED  BY <1>7, <2>2, <2>3
<1> HIDE DEF e
<1>9. n \in 0..n /\ \A i \in 0..n : e[i] <= e[n] /\ \A x \in 1..e[i] : w[n][x] = w[i][x]
  <2>1. n \in 0..n /\ \A i \in 0..n : n \in i..n
    BY <1>2
  <2>2. QED  BY <1>4, <1>7, <2>1
<1>10. /\ all \in Seq(TarUnits) /\ Len(all) = e[n] + 2 * Block
       /\ \A x \in 1..e[n] + 2 * Block :
            all[x] = IF x <= e[n] THEN w[n][x] ELSE end[x - e[n]]
  <2>1. w[n] \in Seq(TarUnits) /\ Len(w[n]) = e[n]
    BY <1>7, <1>9
  <2>2. /\ w[n] \o end \in Seq(TarUnits) /\ Len(w[n] \o end) = Len(w[n]) + Len(end)
        /\ \A x \in 1..Len(w[n]) + Len(end) :
             (w[n] \o end)[x] = IF x <= Len(w[n]) THEN w[n][x] ELSE end[x - Len(w[n])]
    BY <1>6, <2>1, ConcatProperties, ZenonT(30)
  <2>3. QED  BY <1>6, <2>1, <2>2
<1> HIDE DEF all
<1>11. \A j \in 1..2 * Block : all[e[n] + j] = Zero
  <2> TAKE j \in 1..2 * Block
  <2>1. e[n] + j \in 1..e[n] + 2 * Block /\ ~(e[n] + j <= e[n]) /\ (e[n] + j) - e[n] = j
    BY <1>1, <1>7, <1>9
  <2>2. QED  BY <1>6, <1>10, <2>1
<1>12. ASSUME NEW i \in 1..n
       PROVE  /\ e[i] = e[i - 1] + Block + RoundUp(Len(items[i].contents))
              /\ all[e[i - 1] + 1] = HeaderOf(items[i])
              /\ \A j \in 1..Len(items[i].contents) :
                   all[e[i - 1] + Block + j] = items[i].contents[j]
  <2> DEFINE c == items[i].contents
             p == e[i - 1]
             r == RoundUp(Len(c))
  <2>1. i - 1 \in 0..n /\ i \in 0..n
    BY <1>2
  <2>2. /\ s[i] \in Seq(TarUnits) /\ Len(s[i]) = Block + r /\ s[i][1] = HeaderOf(items[i])
        /\ \A j \in 1..Len(c) : s[i][Block + j] = c[j]
    BY <1>2, <1>3, ItemIsWritten
  <2>3. Len(c) \in Nat /\ r \in Nat /\ Len(c) <= r
    BY <1>2, ItemParts, LenProperties, RoundsUp
  <2>4. p \in Nat /\ p = Len(w[i - 1]) /\ w[i - 1] \in Seq(TarUnits)
    BY <1>7, <2>1
  <2> HIDE DEF c, p, r
  <2>4a. p \in Nat /\ r \in Nat
    BY <2>3, <2>4
  <2>4b. Len(c) \in Nat /\ \A j \in 1..Len(c) : j \in Nat /\ j <= r /\ j >= 1
    BY <2>3
  <2>5. /\ Len(w[i]) = p + (Block + r)
        /\ \A x \in 1..p + (Block + r) : w[i][x] = IF x <= p THEN w[i - 1][x] ELSE s[i][x - p]
    <3>1. w[i] = w[i - 1] \o s[i]
      BY <1>4
    <3>2. /\ Len(w[i - 1] \o s[i]) = Len(w[i - 1]) + Len(s[i])
          /\ \A x \in 1..Len(w[i - 1]) + Len(s[i]) :
               (w[i - 1] \o s[i])[x] = IF x <= Len(w[i - 1]) THEN w[i - 1][x]
                                       ELSE s[i][x - Len(w[i - 1])]
      BY <2>2, <2>4, ConcatProperties, ZenonT(30)
    <3>3. QED  BY <2>2, <2>4, <3>1, <3>2
  <2>6. e[i] = p + (Block + r) /\ e[i] <= e[n]
    BY <1>7, <1>9, <2>1, <2>5
  <2>7. \A x \in 1..Block + r : all[p + x] = s[i][x]
    <3> TAKE x \in 1..Block + r
    <3>1. p + x \in 1..p + (Block + r) /\ ~(p + x <= p) /\ (p + x) - p = x
      BY <1>1, <2>4a
    <3>2. w[i][p + x] = s[i][x]
      BY <2>5, <3>1
    <3>3. p + x \in 1..e[i] /\ p + x <= e[n] /\ p + x \in 1..e[n] + 2 * Block
      BY <1>1, <1>7, <1>9, <2>1, <2>6, <3>1, SMTT(30)
    <3>4. QED  BY <1>9, <1>10, <2>1, <3>2, <3>3
  <2>8. p + 1 = p + 1 /\ all[p + 1] = HeaderOf(items[i])
    <3>1. 1 \in 1..Block + r
      BY <1>1, <2>3
    <3>2. QED  BY <2>2, <2>7, <3>1
  <2>9. \A j \in 1..Len(c) : all[p + Block + j] = c[j]
    <3> TAKE j \in 1..Len(c)
    <3>1. j \in Nat /\ j <= r /\ j >= 1
      BY <2>4b
    <3>2. Block + j \in 1..Block + r /\ p + (Block + j) = p + Block + j
      BY <1>1, <2>4a, <3>1
    <3>3. QED  BY <2>2, <2>7, <3>2
  <2>10. e[i] = p + Block + r
    <3>1. p + (Block + r) = p + Block + r
      BY <1>1, <2>4a
    <3>2. QED  BY <2>6, <3>1
  <2>11. QED  BY <2>8, <2>9, <2>10 DEF c, p, r
<1>13. \A i \in 0..n : e[i] % Block = 0
  <2> DEFINE Other == {i \in 0..n : e[i] % Block # 0}
  <2> SUFFICES ASSUME Other # {} PROVE FALSE
    OBVIOUS
  <2>1. PICK i \in Other : \A o \in Other : i <= o
    <3>1. Other \subseteq 0..n
      OBVIOUS
    <3> HIDE DEF Other
    <3>2. Other \subseteq Nat
      BY <1>2, <3>1
    <3>3. QED  BY <3>2, LeastElement
  <2>2. i # 0
    BY <1>1, <1>8, <2>1
  <2>3. i \in 1..n /\ i - 1 \in 0..n /\ ~(i <= i - 1)
    BY <1>2, <2>1, <2>2
  <2>4. e[i - 1] % Block = 0 /\ e[i - 1] \in Nat
    BY <1>7, <2>1, <2>3
  <2>5. PICK r \in Nat : r % Block = 0 /\ e[i] = e[i - 1] + Block + r
    <3>1. Len(items[i].contents) \in Nat
      BY <1>2, <2>3, ItemParts, LenProperties
    <3>2. QED  BY <1>12, <2>3, <3>1, RoundsUp
  <2>6. Block % Block = 0
    BY <1>1
  <2>7. (e[i - 1] + Block) % Block = 0 /\ e[i - 1] + Block \in Nat
    <3>1. e[i - 1] + Block \in Nat
      BY <1>1, <2>4
    <3>2. QED  BY <1>1, <2>4, <2>6, <3>1, BlocksAdd
  <2>8. e[i] % Block = 0
    BY <2>5, <2>7, BlocksAdd
  <2>9. QED  BY <2>1, <2>8
<1>14. AreEdges(e)
  <2>1. all = Archive(items)
    BY <1>5 DEF all
  <2>2. QED  BY <1>8, <1>9, <1>10, <1>11, <1>12, <1>13, <2>1 DEF AreEdges, n
<1>15. QED  BY <1>14

\* Where the reader is in such an archive: before an item, between the two empty
\* blocks of its end, or before the contents of an item.
Edge == CHOOSE e : AreEdges(e)

AtItem == /\ type \in {"error", "file", "dir", "symlink", "LNKTYPE"}
          /\ at = Edge[Len(given)]
AtEnd == /\ type = "end" /\ Len(given) = Len(items) /\ at = Edge[Len(items)] + Block
HasItem(item) ==
  /\ type = TypeOf(Flag[item.type]) /\ path = FullName(item)
  /\ item.type = "symlink" => link = item.link
  /\ item.type = "file" => size = Len(item.contents)

GivenItems ==
  {Shown(item) : item \in Items} \cup {[Shown(item) EXCEPT !.contents = Skipped] : item \in Items}

TarInv ==
  /\ items \in Seq(Items) /\ HeadersHold
  /\ \E upto \in 0..Len(Archive(items)) : stream = SubSeq(Archive(items), 1, upto)
  /\ TypeOK /\ given \in Seq(GivenItems) /\ ItemsAreFaithful
  /\ pc = "update" => AtItem \/ AtEnd
  /\ pc = "have" => /\ Len(given) < Len(items) /\ at = Edge[Len(given)] + Block
                    /\ HasItem(items[Len(given) + 1])
  /\ pc = "ended" => Len(given) = Len(items)
  /\ pc = "failed" => errors > 0 \/ stream # Archive(items)

\* What the reader sees is there in the archive.
LEMMA TarFacts ==
  ASSUME TarInv
  PROVE  /\ Block \in Nat /\ Block > 1
         /\ Len(items) \in Nat /\ Len(given) \in Nat /\ Len(given) <= Len(items)
         /\ \A i \in 1..Len(items) : items[i] \in Items /\ Fits(items[i])
         /\ AreEdges(Edge) /\ at \in Nat /\ Len(stream) \in Nat
         /\ \A m \in Nat : Whole(m) => /\ Len(Ahead(m)) = m /\ Ahead(m) \in Seq(TarUnits)
                                       /\ \A j \in 1..m : Ahead(m)[j] = Archive(items)[at + j]
         /\ stream = Archive(items) => Len(stream) = Edge[Len(items)] + 2 * Block
<1>1. Block \in Nat /\ Block > 1
  BY TarAssumption
<1>2. /\ items \in Seq(Items) /\ HeadersHold /\ given \in Seq(GivenItems)
      /\ Len(given) <= Len(items)
  BY DEF TarInv, ItemsAreFaithful
<1>3. Len(items) \in Nat /\ Len(given) \in Nat
      /\ \A i \in 1..Len(items) : items[i] \in Items /\ Fits(items[i])
  <2>1. DOMAIN items = 1..Len(items)
    BY <1>2, LenProperties
  <2>2. QED  BY <1>2, <2>1, LenProperties, ElementOfSeq DEF HeadersHold
<1>4. AreEdges(Edge)
  <2>1. \E e : AreEdges(e)
    BY <1>2, ArchiveHasEdges
  <2>2. QED  BY <2>1 DEF Edge
<1>5. Archive(items) \in Seq(TarUnits) /\ Len(Archive(items)) = Edge[Len(items)] + 2 * Block
  BY <1>4 DEF AreEdges
<1>6. PICK upto \in 0..Len(Archive(items)) : stream = SubSeq(Archive(items), 1, upto)
  BY DEF TarInv
<1> DEFINE a == Archive(items)
<1>7. /\ Len(stream) = upto /\ upto \in Nat /\ upto <= Len(a)
      /\ \A j \in 1..upto : stream[j] = a[j] /\ a[j] \in TarUnits
  <2>1. a \in Seq(TarUnits) /\ Len(a) \in Nat
    BY <1>5, LenProperties
  <2> HIDE DEF a
  <2>2. \A j \in 1..upto : a[j] \in TarUnits
    <3>1. \A j \in 1..upto : j \in 1..Len(a)
      BY <1>6, <2>1 DEF a
    <3>2. QED  BY <2>1, <3>1, ElementOfSeq
  <2>3. upto \in Nat /\ upto <= Len(a)
    BY <1>6, <2>1 DEF a
  <2>4. /\ Len(SubSeq(a, 1, upto)) = IF 1 <= upto THEN upto - 1 + 1 ELSE 0
        /\ \A i \in 1..upto - 1 + 1 : SubSeq(a, 1, upto)[i] = a[1 + i - 1]
    BY <2>2, <2>3, SubSeqProperties
  <2>5. \A i \in 1..upto : i \in 1..upto - 1 + 1 /\ 1 + i - 1 = i
    BY <2>3
  <2>6. stream = SubSeq(a, 1, upto)
    BY <1>6 DEF a
  <2>7. Len(stream) = upto
    BY <2>3, <2>4, <2>6
  <2>8. QED  BY <2>2, <2>3, <2>4, <2>5, <2>6, <2>7
<1>8. at \in Nat
  BY <1>7 DEF TarInv, TypeOK
<1>9. ASSUME NEW m \in Nat, Whole(m)
      PROVE  /\ Len(Ahead(m)) = m /\ Ahead(m) \in Seq(TarUnits)
             /\ \A j \in 1..m : Ahead(m)[j] = a[at + j]
  <2>1. at + m <= upto
    BY <1>7, <1>9 DEF Whole
  <2> HIDE DEF a
  <2>2. \A i \in at + 1..at + m : stream[i] \in TarUnits
    <3>1. \A i \in at + 1..at + m : i \in 1..upto
      BY <1>7, <1>8, <2>1
    <3>2. QED  BY <1>7, <3>1
  <2>3. at + 1 \in Int /\ at + m \in Int
    BY <1>8
  <2>4. /\ SubSeq(stream, at + 1, at + m) \in Seq(TarUnits)
        /\ Len(SubSeq(stream, at + 1, at + m)) =
             IF at + 1 <= at + m THEN (at + m) - (at + 1) + 1 ELSE 0
        /\ \A i \in 1..(at + m) - (at + 1) + 1 :
             SubSeq(stream, at + 1, at + m)[i] = stream[(at + 1) + i - 1]
    BY <2>2, <2>3, SubSeqProperties
  <2>5. (at + m) - (at + 1) + 1 = m /\ (at + 1 <= at + m <=> m # 0)
    BY <1>8
  <2>6. \A j \in 1..m : (at + 1) + j - 1 = at + j /\ at + j \in 1..upto
    BY <1>7, <1>8, <2>1
  <2>7. Ahead(m) = SubSeq(stream, at + 1, at + m)
    BY DEF Ahead
  <2>8. Len(Ahead(m)) = m
    BY <2>4, <2>5, <2>7
  <2>9. \A j \in 1..m : Ahead(m)[j] = a[at + j]
    <3> TAKE j \in 1..m
    <3>1. Ahead(m)[j] = stream[(at + 1) + j - 1]
      BY <2>4, <2>5, <2>7
    <3>2. QED  BY <1>7, <2>6, <3>1
  <2>10. QED  BY <2>4, <2>7, <2>8, <2>9
<1>10. stream = a => Len(stream) = Edge[Len(items)] + 2 * Block
  BY <1>5
<1>11. QED  BY <1>1, <1>2, <1>3, <1>4, <1>7, <1>8, <1>9, <1>10

\* The next block is the header of the next item, or one of the empty ones.
LEMMA BlockIs ==
  ASSUME TarInv, InUpdate
  PROVE  /\ ~IsLong
         /\ AtItem /\ Len(given) < Len(items) =>
              block[1] = HeaderOf(items[Len(given) + 1])
         /\ (AtItem /\ Len(given) = Len(items)) \/ AtEnd =>
              \A j \in 1..Block : block[j] = Zero
<1>1. pc = "update" /\ Whole(Block)
  BY DEF InUpdate
<1>2. /\ Block \in Nat /\ Block > 1 /\ AreEdges(Edge) /\ at \in Nat
      /\ Len(items) \in Nat /\ Len(given) \in Nat /\ Len(given) <= Len(items)
      /\ \A j \in 1..Block : block[j] = Archive(items)[at + j]
  BY <1>1, TarFacts DEF block
<1>3. ~IsLong
  BY <1>1 DEF TarInv, AtItem, AtEnd, IsLong
<1>4. ASSUME AtItem, Len(given) < Len(items)
      PROVE  block[1] = HeaderOf(items[Len(given) + 1])
  <2> DEFINE i == Len(given) + 1
  <2>1. i \in 1..Len(items) /\ i - 1 = Len(given)
    BY <1>2, <1>4
  <2>2. Archive(items)[Edge[i - 1] + 1] = HeaderOf(items[i])
    BY <1>2, <2>1 DEF AreEdges
  <2>3. 1 \in 1..Block
    BY <1>2
  <2>4. QED  BY <1>2, <1>4, <2>1, <2>2, <2>3 DEF AtItem
<1>5. ASSUME (AtItem /\ Len(given) = Len(items)) \/ AtEnd
      PROVE  \A j \in 1..Block : block[j] = Zero
  <2>1. Edge[Len(items)] \in Nat
    <3>1. Len(items) \in 0..Len(items)
      BY <1>2
    <3>2. QED  BY <1>2, <3>1 DEF AreEdges
  <2>2. PICK z \in Nat : at = Edge[Len(items)] + z /\ z + Block <= 2 * Block
    <3>1. CASE AtEnd
      BY <1>2, <3>1 DEF AtEnd
    <3>2. CASE AtItem /\ Len(given) = Len(items)
      <4>1. at = Edge[Len(items)] + 0 /\ 0 + Block <= 2 * Block
        BY <1>2, <2>1, <3>2 DEF AtItem
      <4>2. QED  BY <4>1
    <3>3. QED  BY <1>5, <3>1, <3>2
  <2>3. ASSUME NEW j \in 1..Block PROVE Archive(items)[at + j] = Zero
    <3>1. z + j \in 1..2 * Block /\ at + j = Edge[Len(items)] + (z + j)
      BY <1>2, <2>1, <2>2, SMTT(30)
    <3>2. QED  BY <1>2, <3>1 DEF AreEdges
  <2>4. QED  BY <1>2, <2>3
<1>6. QED  BY <1>3, <1>4, <1>5

\* What the steps leave alone, which is what an archive is made of.
LEMMA TarKept ==
  ASSUME TarInv, UNCHANGED <<items, stream>>
  PROVE  /\ (items \in Seq(Items) /\ HeadersHold)' /\ Edge' = Edge
         /\ (\E upto \in 0..Len(Archive(items)) : stream = SubSeq(Archive(items), 1, upto))'
         /\ Archive(items)' = Archive(items)
BY DEF TarInv, HeadersHold, Edge, AreEdges

\* A step on: whole blocks of what there is.
LEMMA TarMoves ==
  ASSUME TarInv, NEW m \in Nat, Whole(m), m % Block = 0, at' = at + m, UNCHANGED stream
  PROVE  (at \in 0..Len(stream) /\ at % Block = 0)'
<1>1. at \in Nat /\ at % Block = 0 /\ Len(stream) \in Nat
  BY TarFacts DEF TarInv, TypeOK
<1>2. (at + m) % Block = 0
  BY <1>1, BlocksAdd
<1>3. at + m \in 0..Len(stream)
  BY <1>1 DEF Whole
<1>4. QED  BY <1>2, <1>3

LEMMA MeetsZerosKeeps == TarInv /\ UpdateMeetsZeros => TarInv'
<1> SUFFICES ASSUME TarInv, UpdateMeetsZeros PROVE TarInv'
  OBVIOUS
<1>1. /\ InUpdate /\ \A i \in 1..Block : block[i] = Zero
      /\ IF type = "end" THEN pc' = "ended" /\ type' = type ELSE type' = "end" /\ pc' = pc
      /\ at' = at + Block /\ items' = items /\ stream' = stream /\ errors' = errors
      /\ path' = path /\ link' = link /\ size' = size /\ given' = given
  BY DEF UpdateMeetsZeros, AtHeader, IsZero, Advance
<1>2. pc = "update" /\ Whole(Block)
  BY <1>1 DEF InUpdate
<1>3. Block \in Nat /\ Block > 1 /\ Len(items) \in Nat /\ Len(given) \in Nat
      /\ Len(given) <= Len(items)
  BY TarFacts
<1>4. AtEnd \/ (AtItem /\ Len(given) = Len(items))
  <2> SUFFICES ASSUME AtItem, Len(given) < Len(items) PROVE FALSE
    BY <1>2, <1>3 DEF TarInv
  <2>1. block[1] = HeaderOf(items[Len(given) + 1]) /\ block[1] = Zero
    BY <1>1, <1>3, BlockIs
  <2>2. block[1].kind = "header" /\ block[1].kind = "zero"
    BY <2>1 DEF HeaderOf, Zero
  <2>3. QED  BY <2>2
<1>5. (at \in 0..Len(stream) /\ at % Block = 0)'
  BY <1>1, <1>2, <1>3, TarMoves
<1>6. TypeOK'
  BY <1>1, <1>2, <1>5 DEF TarInv, TypeOK
<1>7. (given \in Seq(GivenItems) /\ ItemsAreFaithful)'
  BY <1>1 DEF TarInv, ItemsAreFaithful
<1>8. pc' = "update" => AtEnd'
  <2>1. pc' = "update" => type' = "end" /\ AtItem
    BY <1>1, <1>4 DEF AtEnd
  <2>2. QED  BY <1>1, <1>4, <2>1, TarKept DEF AtItem, AtEnd
<1>9. pc' = "ended" => Len(given') = Len(items')
  BY <1>1, <1>4 DEF AtEnd
<1>10. pc' \in {"update", "ended"}
  BY <1>1, <1>2
<1>11. QED  BY <1>1, <1>6, <1>7, <1>8, <1>9, <1>10, TarKept DEF TarInv

LEMMA MeetsItemKeeps == TarInv /\ UpdateMeetsItem => TarInv'
<1> SUFFICES ASSUME TarInv, UpdateMeetsItem PROVE TarInv'
  OBVIOUS
<1> DEFINE k == Len(given)
           item == items[k + 1]
<1>1. InUpdate /\ IsHeader /\ Advance(Block) /\ UNCHANGED given
  BY DEF UpdateMeetsItem, AtHeader
<1>2. pc = "update" /\ Whole(Block) /\ block[1].kind = "header"
      /\ at' = at + Block /\ items' = items /\ stream' = stream /\ errors' = errors /\ given' = given
  BY <1>1 DEF InUpdate, IsHeader, Advance
<1>3. /\ Block \in Nat /\ Block > 1 /\ Len(items) \in Nat /\ k \in Nat /\ k <= Len(items)
      /\ \A i \in 1..Len(items) : items[i] \in Items
  BY TarFacts
<1>4. AtItem /\ k < Len(items)
  <2> SUFFICES ASSUME (AtItem /\ k = Len(items)) \/ AtEnd PROVE FALSE
    BY <1>2, <1>3 DEF TarInv
  <2>1. \A j \in 1..Block : block[j] = Zero
    BY <1>1, BlockIs
  <2>2. block[1] = Zero
    BY <1>3, <2>1
  <2>3. QED  BY <1>2, <2>2 DEF Zero
<1>5. block[1] = HeaderOf(item) /\ item \in Items
  <2>1. k + 1 \in 1..Len(items)
    BY <1>3, <1>4
  <2>2. QED  BY <1>1, <1>3, <1>4, <2>1, BlockIs
<1>6. item.type \in DOMAIN Flag /\ Len(item.contents) \in Nat
  BY <1>5, ItemParts, LenProperties
<1> HIDE DEF item
<1>7. /\ type # "longname" /\ type # "longlink"
      /\ path' = FullName(item)
      /\ IF Flag[item.type] = "2" THEN link' = item.link ELSE link' = link
      /\ type' = TypeOf(Flag[item.type]) /\ pc' = "have"
      /\ size' = IF Flag[item.type] = "0" THEN Len(item.contents) ELSE size
  <2>1. type # "longname" /\ type # "longlink"
    BY <1>4 DEF AtItem
  <2>2. /\ HeaderOf(item).name = FullName(item) /\ HeaderOf(item).flag = Flag[item.type]
        /\ HeaderOf(item).link = item.link /\ HeaderOf(item).size = Len(item.contents)
    BY DEF HeaderOf
  <2>3. QED  BY <1>5, <2>1, <2>2 DEF UpdateMeetsItem
<1>8. HasItem(item)'
  <2>1. item' = item
    BY <1>2 DEF item
  <2>2. item.type \in {"file", "hardlink", "symlink", "dir"}
        /\ (item.type = "symlink" => Flag[item.type] = "2")
        /\ (item.type = "file" => Flag[item.type] = "0")
    BY <1>6 DEF Flag
  <2>3. type' = TypeOf(Flag[item.type]) /\ path' = FullName(item)
        /\ (item.type = "symlink" => link' = item.link)
        /\ (item.type = "file" => size' = Len(item.contents))
    BY <1>7, <2>2
  <2>4. QED  BY <2>1, <2>3 DEF HasItem
<1>9. (at \in 0..Len(stream) /\ at % Block = 0)'
  BY <1>2, <1>3, TarMoves
<1>10. TypeOK'
  <2>1. type' \in {"file", "LNKTYPE", "symlink", "dir"}
    BY <1>6, <1>7 DEF TypeOf, Flag
  <2>2. size' \in Nat
    BY <1>6, <1>7 DEF TarInv, TypeOK
  <2>3. errors' \in 0..MaxErrors
    BY <1>2 DEF TarInv, TypeOK
  <2>4. QED  BY <1>7, <1>9, <2>1, <2>2, <2>3 DEF TypeOK
<1>11. (given \in Seq(GivenItems) /\ ItemsAreFaithful)'
  BY <1>2 DEF TarInv, ItemsAreFaithful
<1>12. /\ Len(given') < Len(items') /\ at' = Edge'[Len(given')] + Block
       /\ HasItem(items[Len(given) + 1])'
  BY <1>2, <1>4, <1>8, TarKept DEF AtItem, item
<1>13. QED  BY <1>2, <1>7, <1>10, <1>11, <1>12, TarKept DEF TarInv

\* An item that is given is the next one, with its contents if they were read.
LEMMA GiveKeeps ==
  ASSUME TarInv, pc = "have", NEW contents, Give(contents),
         contents \in {items[Len(given) + 1].contents, Skipped},
         UNCHANGED <<items, stream, type, path, link, size, errors>>,
         at' = at + RoundUp(Len(items[Len(given) + 1].contents)),
         RoundUp(Len(items[Len(given) + 1].contents)) <= Len(stream) - at
  PROVE  TarInv'
<1> DEFINE k == Len(given)
           item == items[k + 1]
           r == RoundUp(Len(item.contents))
<1>1. k < Len(items) /\ at = Edge[k] + Block /\ HasItem(item)
  BY DEF TarInv
<1>2. /\ Block \in Nat /\ Block > 1 /\ Len(items) \in Nat /\ k \in Nat
      /\ \A i \in 1..Len(items) : items[i] \in Items
      /\ AreEdges(Edge) /\ Len(stream) \in Nat /\ at \in Nat
  BY TarFacts
<1>3. k + 1 \in 1..Len(items) /\ item \in Items /\ (k + 1) - 1 = k
  BY <1>1, <1>2
<1>4. /\ item.type \in DOMAIN Flag /\ Zero \notin ItemTexts
      /\ item.link \in Seq(ItemTexts) /\ Len(item.contents) \in Nat
      /\ item.type # "file" => item.contents = <<>>
      /\ item.type \notin {"symlink", "hardlink"} => item.link = <<>>
      /\ FullName(item) \in Seq(ItemTexts)
  BY <1>3, ItemParts, FullNameIsText, LenProperties
<1>5. r \in Nat /\ r % Block = 0
  BY <1>4, RoundsUp
<1> HIDE DEF item, k, r
<1>6. given' = Append(given, Item(contents)) /\ pc' = "update"
  BY DEF Give
<1>7. Item(contents) = [Shown(item) EXCEPT !.contents = contents]
  <2>1. String(path) = FullName(item)
    BY <1>1, <1>4, WholeString DEF HasItem
  <2>2. type = IF item.type = "hardlink" THEN "LNKTYPE" ELSE item.type
    BY <1>1, <1>4 DEF HasItem, TypeOf, Flag
  <2>3. (IF type = "symlink" THEN String(link) ELSE <<>>)
           = IF item.type = "hardlink" THEN <<>> ELSE item.link
    <3>1. CASE item.type = "symlink"
      <4>1. type = "symlink" /\ String(link) = item.link
        BY <1>1, <1>4, <2>2, <3>1, WholeString DEF HasItem
      <4>2. QED  BY <3>1, <4>1
    <3>2. CASE item.type # "symlink"
      BY <1>4, <2>2, <3>2 DEF Flag
    <3>3. QED  BY <3>1, <3>2
  <2>4. QED  BY <2>1, <2>2, <2>3 DEF Item, Shown
<1>8. Item(contents) \in {Shown(item), [Shown(item) EXCEPT !.contents = Skipped]}
  <2>1. contents \in {item.contents, Skipped}
    BY DEF item, k
  <2>2. [Shown(item) EXCEPT !.contents = item.contents] = Shown(item)
    BY DEF Shown
  <2>3. QED  BY <1>7, <2>1, <2>2
<1>9. given \in Seq(GivenItems) /\ Item(contents) \in GivenItems
  BY <1>3, <1>8 DEF TarInv, GivenItems
<1>10. /\ given' \in Seq(GivenItems) /\ Len(given') = k + 1
       /\ \A i \in 1..k : given'[i] = given[i]
       /\ given'[k + 1] = Item(contents)
  BY <1>6, <1>9, AppendProperties DEF k
<1>11. ItemsAreFaithful'
  <2>1. \A i \in 1..k :
          given[i] \in {Shown(items[i]), [Shown(items[i]) EXCEPT !.contents = Skipped]}
    BY DEF TarInv, ItemsAreFaithful, k
  <2>2. ASSUME NEW i \in 1..k + 1
        PROVE  given'[i] \in {Shown(items[i]), [Shown(items[i]) EXCEPT !.contents = Skipped]}
    <3>1. CASE i = k + 1
      BY <1>8, <1>10, <3>1 DEF item
    <3>2. CASE i # k + 1
      <4>1. i \in 1..k
        BY <1>2, <2>2, <3>2 DEF k
      <4>2. QED  BY <1>10, <2>1, <4>1
    <3>3. QED  BY <3>1, <3>2
  <2>3. k + 1 <= Len(items)
    BY <1>3
  <2>4. QED  BY <1>10, <2>2, <2>3 DEF ItemsAreFaithful, Shown, FullName
<1>12. at' = at + r /\ r <= Len(stream) - at
  BY DEF r, item, k
<1>13. (at \in 0..Len(stream) /\ at % Block = 0)'
  <2>1. Whole(r)
    BY <1>2, <1>5, <1>12 DEF Whole
  <2>2. QED  BY <1>5, <1>12, <2>1, TarMoves
<1>14. AtItem'
  <2>1. Edge[k + 1] = Edge[k] + Block + r
    BY <1>2, <1>3 DEF AreEdges, item, r
  <2>2. at' = Edge'[Len(given')]
    BY <1>1, <1>10, <1>12, <2>1, TarKept
  <2>3. type \in {"file", "dir", "symlink", "LNKTYPE"}
    BY <1>1, <1>4 DEF HasItem, TypeOf, Flag
  <2>4. QED  BY <2>2, <2>3 DEF AtItem
<1>15. TypeOK'
  BY <1>6, <1>13 DEF TarInv, TypeOK
<1>16. QED  BY <1>6, <1>10, <1>11, <1>14, <1>15, TarKept DEF TarInv

LEMMA TakesItemKeeps == TarInv /\ TakesItem => TarInv'
<1> SUFFICES ASSUME TarInv, TakesItem PROVE TarInv'
  OBVIOUS
<1>1. /\ pc = "have" /\ type # "file" /\ Give(<<>>)
      /\ UNCHANGED <<items, stream, at, type, path, link, size, errors>>
  BY DEF TakesItem
<1> DEFINE item == items[Len(given) + 1]
<1>2. Len(given) < Len(items) /\ HasItem(item)
  BY <1>1 DEF TarInv
<1>3. /\ Block \in Nat /\ Block > 1 /\ at \in Nat /\ Len(stream) \in Nat /\ at <= Len(stream)
      /\ item \in Items
  <2>1. Len(given) + 1 \in 1..Len(items)
    BY <1>2, TarFacts
  <2>2. QED  BY <2>1, TarFacts DEF TarInv, TypeOK
<1>4. item.type \in DOMAIN Flag /\ (item.type # "file" => item.contents = <<>>)
  BY <1>3, ItemParts
<1> HIDE DEF item
<1>5. item.contents = <<>>
  BY <1>1, <1>2, <1>4 DEF HasItem, TypeOf, Flag
<1>6. RoundUp(Len(item.contents)) = 0
  BY <1>3, <1>5 DEF RoundUp
<1>7. at' = at + RoundUp(Len(item.contents)) /\ RoundUp(Len(item.contents)) <= Len(stream) - at
  BY <1>1, <1>3, <1>6
<1>8. UNCHANGED <<items, stream, type, path, link, size, errors>>
  BY <1>1
<1>9. QED  BY <1>1, <1>5, <1>7, <1>8, GiveKeeps DEF item

\* The contents that are read are those of the item.
LEMMA FileStep ==
  ASSUME TarInv, ReadsFile \/ SkipsFile
  PROVE  TarInv'
<1> DEFINE item == items[Len(given) + 1]
           r == RoundUp(size)
<1>1. /\ pc = "have" /\ type = "file" /\ Whole(r)
      /\ Give(SubSeq(Ahead(r), 1, size)) \/ Give(Skipped)
      /\ at' = at + r /\ UNCHANGED <<items, stream, type, path, link, size, errors>>
  BY DEF ReadsFile, SkipsFile, Advance
<1>2. Len(given) < Len(items) /\ HasItem(item) /\ at = Edge[Len(given)] + Block
  BY <1>1 DEF TarInv
<1>3. /\ Block \in Nat /\ Block > 1 /\ at \in Nat /\ Len(stream) \in Nat
      /\ Len(items) \in Nat /\ Len(given) \in Nat
      /\ \A m \in Nat : Whole(m) => /\ Len(Ahead(m)) = m /\ Ahead(m) \in Seq(TarUnits)
                                    /\ \A j \in 1..m : Ahead(m)[j] = Archive(items)[at + j]
      /\ AreEdges(Edge)
  BY TarFacts
<1>4. Len(given) + 1 \in 1..Len(items) /\ (Len(given) + 1) - 1 = Len(given)
  BY <1>2, <1>3
<1>5. item \in Items
  BY <1>4, TarFacts
<1>6. item.type \in DOMAIN Flag /\ item.contents \in Seq(TarUnits)
  BY <1>5, ItemParts
<1>7. size = Len(item.contents) /\ size \in Nat
  <2>1. item.type = "file"
    BY <1>1, <1>2, <1>6 DEF HasItem, TypeOf, Flag
  <2>2. QED  BY <1>2, <1>6, <2>1, LenProperties DEF HasItem
<1>8. r \in Nat /\ size <= r
  BY <1>7, RoundsUp
<1>9. SubSeq(Ahead(r), 1, size) = item.contents
  <2> DEFINE ahead == Ahead(r)
             c == item.contents
  <2>1. /\ Len(ahead) = r /\ ahead \in Seq(TarUnits)
        /\ \A j \in 1..r : ahead[j] = Archive(items)[at + j]
    BY <1>1, <1>3, <1>8
  <2>2. \A j \in 1..size : c[j] = Archive(items)[at + j]
    BY <1>2, <1>3, <1>4, <1>7, SMTT(30) DEF AreEdges
  <2> HIDE DEF ahead, r
  <2>3. \A j \in 1..size : j \in 1..r /\ ahead[j] = c[j] /\ ahead[j] \in TarUnits
    <3>1. \A j \in 1..size : j \in 1..r
      BY <1>7, <1>8
    <3>2. QED  BY <2>1, <2>2, <3>1, ElementOfSeq
  <2>4. /\ SubSeq(ahead, 1, size) \in Seq(TarUnits)
        /\ Len(SubSeq(ahead, 1, size)) = IF 1 <= size THEN size - 1 + 1 ELSE 0
        /\ \A i \in 1..size - 1 + 1 : SubSeq(ahead, 1, size)[i] = ahead[1 + i - 1]
    BY <1>7, <2>3, SubSeqProperties
  <2>5. Len(SubSeq(ahead, 1, size)) = size
    BY <1>7, <2>4
  <2>6. \A i \in 1..size : SubSeq(ahead, 1, size)[i] = c[i]
    <3> TAKE i \in 1..size
    <3>1. i \in 1..size - 1 + 1 /\ 1 + i - 1 = i
      BY <1>7
    <3>2. QED  BY <2>3, <2>4, <3>1
  <2>7. SubSeq(ahead, 1, size) = c
    BY <1>6, <1>7, <2>4, <2>5, <2>6, SeqEqual
  <2>8. QED  BY <2>7 DEF ahead
<1>10. RoundUp(Len(item.contents)) <= Len(stream) - at
  <2>1. at + r <= Len(stream)
    BY <1>1 DEF Whole
  <2> HIDE DEF r
  <2>2. r <= Len(stream) - at
    BY <1>3, <1>8, <2>1
  <2>3. QED  BY <1>7, <2>2 DEF r
<1>11. PICK contents \in {item.contents, Skipped} : Give(contents)
  BY <1>1, <1>9
<1>12. QED  BY <1>1, <1>7, <1>10, <1>11, GiveKeeps

\* Reading fails where the archive, or a read, does.
LEMMA FailsKeeps == TarInv /\ (UpdateFails \/ FileFails) => TarInv'
<1> SUFFICES ASSUME TarInv, UpdateFails \/ FileFails PROVE TarInv'
  OBVIOUS
<1>1. /\ pc' = "failed" /\ UNCHANGED <<items, stream, at, path, link, size, given>>
      /\ type' \in {type, "error"}
      /\ \/ pc = "update" /\ ~Whole(Block) /\ errors' = errors
         \/ pc = "have" /\ ~Whole(RoundUp(size)) /\ errors' = errors /\ type = "file"
         \/ errors < MaxErrors /\ errors' = errors + 1
  BY DEF UpdateFails, FileFails, UpdateIsFatal
<1>2. /\ Block \in Nat /\ Block > 1 /\ AreEdges(Edge) /\ at \in Nat /\ Len(stream) \in Nat
      /\ Len(items) \in Nat /\ Len(given) \in Nat /\ Len(given) <= Len(items)
      /\ stream = Archive(items) => Len(stream) = Edge[Len(items)] + 2 * Block
      /\ \A i \in 1..Len(items) : items[i] \in Items
  BY TarFacts
<1>3. \A i \in 0..Len(items) : Edge[i] \in Nat /\ Edge[i] <= Edge[Len(items)]
  BY <1>2 DEF AreEdges
<1>4. Edge[Len(given)] \in Nat /\ Edge[Len(items)] \in Nat /\ Edge[Len(given)] <= Edge[Len(items)]
  <2>1. Len(given) \in 0..Len(items) /\ Len(items) \in 0..Len(items)
    BY <1>2
  <2>2. QED  BY <1>3, <2>1
<1>5. ASSUME pc = "update", ~Whole(Block) PROVE stream # Archive(items)
  <2> SUFFICES ASSUME stream = Archive(items) PROVE Whole(Block)
    BY <1>5
  <2>1. at <= Edge[Len(items)] + Block
    BY <1>2, <1>4, <1>5 DEF TarInv, AtItem, AtEnd
  <2>2. at + Block <= Edge[Len(items)] + 2 * Block
    BY <1>2, <1>4, <2>1
  <2>3. QED  BY <1>2, <2>2 DEF Whole
<1>6. ASSUME pc = "have", type = "file", ~Whole(RoundUp(size)) PROVE stream # Archive(items)
  <2> DEFINE k == Len(given)
             item == items[k + 1]
             r == RoundUp(size)
  <2> SUFFICES ASSUME stream = Archive(items) PROVE Whole(r)
    BY <1>6
  <2>1. k < Len(items) /\ at = Edge[k] + Block /\ HasItem(item)
    BY <1>6 DEF TarInv
  <2>2. k + 1 \in 1..Len(items) /\ (k + 1) - 1 = k
    BY <1>2, <2>1
  <2>3. item \in Items
    BY <1>2, <2>2
  <2>4. size = Len(item.contents)
    <3>1. item.type \in DOMAIN Flag
      BY <2>3, ItemParts
    <3>2. QED  BY <1>6, <2>1, <3>1 DEF HasItem, TypeOf, Flag
  <2>5. Edge[k + 1] = Edge[k] + Block + r
    BY <1>2, <2>2, <2>4 DEF AreEdges
  <2>6. Edge[k + 1] <= Edge[Len(items)] /\ Edge[k + 1] \in Nat
    BY <1>3, <2>2
  <2>7. at + r = Edge[k + 1]
    BY <2>1, <2>5
  <2>8. at + r <= Edge[Len(items)] + 2 * Block
    <3> HIDE DEF r, k
    <3>1. QED  BY <1>2, <1>4, <2>6, <2>7
  <2>9. QED  BY <1>2, <2>8 DEF Whole
<1>7. errors' > 0 \/ stream # Archive(items)
  <2>1. errors \in Nat
    BY ReaderAssumption DEF TarInv, TypeOK
  <2>2. QED  BY <1>1, <1>5, <1>6, <2>1
<1>8. TypeOK'
  <2>1. errors' \in 0..MaxErrors
    BY <1>1, ReaderAssumption DEF TarInv, TypeOK
  <2>2. type' \in {"error", "end", "longname", "longlink", "file", "dir", "symlink", "LNKTYPE"}
        /\ size' \in Nat
    BY <1>1 DEF TarInv, TypeOK
  <2>3. (at \in 0..Len(stream) /\ at % Block = 0)'
    BY <1>1 DEF TarInv, TypeOK
  <2>4. QED  BY <1>1, <2>1, <2>2, <2>3 DEF TypeOK
<1>9. (given \in Seq(GivenItems) /\ ItemsAreFaithful)'
  BY <1>1 DEF TarInv, ItemsAreFaithful
<1>10. QED  BY <1>1, <1>7, <1>8, <1>9, TarKept DEF TarInv

\* Nothing in such an archive is long, or neither a header nor empty.
LEMMA NeverOther ==
  ASSUME TarInv
  PROVE  ~UpdateRecords /\ ~UpdateIsOversized /\ ~UpdateMeetsOther /\ ~UpdateMeetsLong
<1>1. ~UpdateRecords /\ ~UpdateIsOversized
  BY BlockIs DEF UpdateRecords, UpdateIsOversized
<1>2. ASSUME InUpdate
      PROVE  IsZero \/ \E item \in Items : block[1] = HeaderOf(item)
  <2>1. pc = "update"
    BY <1>2 DEF InUpdate
  <2>2. /\ Len(items) \in Nat /\ Len(given) \in Nat /\ Len(given) <= Len(items)
        /\ \A i \in 1..Len(items) : items[i] \in Items
    BY TarFacts
  <2>3. CASE AtEnd \/ (AtItem /\ Len(given) = Len(items))
    BY <1>2, <2>3, BlockIs DEF IsZero
  <2>4. CASE AtItem /\ Len(given) < Len(items)
    <3>1. Len(given) + 1 \in 1..Len(items)
      BY <2>2, <2>4
    <3>2. QED  BY <1>2, <2>2, <2>4, <3>1, BlockIs
  <2>5. QED  BY <2>1, <2>2, <2>3, <2>4 DEF TarInv
<1>3. ASSUME NEW item \in Items, block[1] = HeaderOf(item)
      PROVE  block[1].kind = "header" /\ block[1].flag \in {"0", "1", "2", "5"}
  <2>1. item.type \in DOMAIN Flag
    BY <1>3, ItemParts
  <2>2. Flag[item.type] \in {"0", "1", "2", "5"}
    BY <2>1 DEF Flag
  <2>3. QED  BY <1>3, <2>2 DEF HeaderOf
<1>4. ~UpdateMeetsOther
  BY <1>2, <1>3 DEF UpdateMeetsOther, AtHeader, IsHeader
<1>5. ~UpdateMeetsLong
  <2> SUFFICES ASSUME UpdateMeetsLong PROVE FALSE
    OBVIOUS
  <2>1. InUpdate /\ block[1].kind = "header" /\ block[1].flag \in {"L", "K"}
    BY DEF UpdateMeetsLong, AtHeader, IsHeader
  <2>2. ~IsZero
    <3>1. 1 \in 1..Block
      BY TarFacts
    <3>2. QED  BY <2>1, <3>1 DEF IsZero, Zero
  <2>3. QED  BY <1>2, <1>3, <2>1, <2>2
<1>6. QED  BY <1>1, <1>4, <1>5

LEMMA TarInitHolds == Init /\ HeadersHold => TarInv
<1> SUFFICES ASSUME Init, HeadersHold PROVE TarInv
  OBVIOUS
<1>1. /\ at = 0 /\ type = "error" /\ size = 0 /\ pc = "update" /\ given = <<>> /\ errors = 0
      /\ \E upto \in 0..Len(Archive(items)) : stream = SubSeq(Archive(items), 1, upto)
  BY DEF Init
<1>2. items \in Seq(Items)
  <2>1. PICK n \in 0..MaxItems : items \in [1..n -> Items]
    BY DEF Init
  <2>2. n \in Nat
    BY <2>1, ReaderAssumption
  <2>3. QED  BY <2>1, <2>2
<1>3. AreEdges(Edge)
  <2>1. \E e : AreEdges(e)
    BY <1>2, ArchiveHasEdges
  <2>2. QED  BY <2>1 DEF Edge
<1>4. Len(given) = 0 /\ given \in Seq(GivenItems)
  BY <1>1, EmptySeq
<1>5. AtItem
  BY <1>1, <1>3, <1>4 DEF AtItem, AreEdges
<1>6. Len(stream) \in Nat
  <2>1. PICK upto \in 0..Len(Archive(items)) : stream = SubSeq(Archive(items), 1, upto)
    BY <1>1
  <2>2. Archive(items) \in Seq(TarUnits)
    BY <1>3 DEF AreEdges
  <2>3. Len(Archive(items)) \in Nat
    BY <2>2, LenProperties
  <2>4. \A i \in 1..upto : Archive(items)[i] \in TarUnits
    <3>1. \A i \in 1..upto : i \in 1..Len(Archive(items))
      BY <2>1, <2>3
    <3>2. QED  BY <2>2, <3>1, ElementOfSeq
  <2>5. stream \in Seq(TarUnits)
    BY <2>1, <2>3, <2>4, SubSeqProperties
  <2>6. QED  BY <2>5, LenProperties
<1>7. TypeOK
  <2>1. 0 % Block = 0
    BY TarAssumption
  <2>2. QED  BY <1>1, <1>6, <2>1, ReaderAssumption DEF TypeOK
<1>8. ItemsAreFaithful
  <2>1. Len(items) \in Nat
    BY <1>2, LenProperties
  <2>2. QED  BY <1>4, <2>1 DEF ItemsAreFaithful
<1>9. QED  BY <1>1, <1>2, <1>4, <1>5, <1>7, <1>8 DEF TarInv

LEMMA TarKeeps == TarInv /\ [Next]_vars => TarInv'
<1> SUFFICES ASSUME TarInv, [Next]_vars PROVE TarInv'
  OBVIOUS
<1>1. CASE UNCHANGED vars
  <2>1. UNCHANGED <<items, stream, at, type, path, link, size, pc, given, errors>>
    BY <1>1 DEF vars
  <2>2. TypeOK' /\ ItemsAreFaithful' /\ AtItem' = AtItem /\ AtEnd' = AtEnd
    BY <2>1, TarKept DEF TarInv, TypeOK, ItemsAreFaithful, AtItem, AtEnd
  <2>3. HasItem(items[Len(given) + 1])' = HasItem(items[Len(given) + 1])
    BY <2>1 DEF HasItem
  <2>4. QED  BY <2>1, <2>2, <2>3, TarKept DEF TarInv
<1>2. QED
  BY <1>1, NeverOther, MeetsZerosKeeps, MeetsItemKeeps, TakesItemKeeps, FileStep, FailsKeeps
     DEF Next

LEMMA TarInvSuffices == TarInv => ArchiveIsGiven /\ ReadingKeepsPlace
<1> SUFFICES ASSUME TarInv PROVE ArchiveIsGiven /\ ReadingKeepsPlace
  OBVIOUS
<1>1. pc = "ended" => Whole(0)
  <2>1. at \in 0..Len(stream) /\ Len(stream) \in Nat
    BY TarFacts DEF TarInv, TypeOK
  <2>2. QED  BY <2>1 DEF Whole
<1>2. QED
  BY <1>1 DEF TarInv, ArchiveIsGiven, EndMeansAll, ReadingKeepsPlace, FailureHasCause

\* The inductive invariant of a reader of an archive whose names and links fit into
\* their headers: what was given of it, the item that is being read, and where in
\* the archive that is (tar/read.c).
THEOREM TarInvariant == Spec /\ HeadersHold => []TarInv
<1>1. Init /\ HeadersHold => TarInv
  BY TarInitHolds
<1>2. TarInv /\ [Next]_vars => TarInv'
  BY TarKeeps
<1>3. QED  BY <1>1, <1>2, PTL DEF Spec

\* Of an archive whose names and links fit into their headers, whatever files it
\* has, a program is given the items that were written, in their order, each with
\* its own name, link, size and contents, whether it read or skipped the contents
\* of those before, and none is missing when the archive has ended (tar/read.c).
THEOREM ArchivesAreGiven == Spec /\ HeadersHold => []ArchiveIsGiven
<1>1. TarInv => ArchiveIsGiven
  BY TarInvSuffices
<1>2. QED  BY TarInvariant, <1>1, PTL

\* Of such an archive, reading stays at the edge of a block between two items, and
\* fails only with the archive or with a read (tar/read.c).
THEOREM PlaceIsKept == Spec /\ HeadersHold => []ReadingKeepsPlace
<1>1. TarInv => ReadingKeepsPlace
  BY TarInvSuffices
<1>2. QED  BY TarInvariant, <1>1, PTL

-----------------------------------------------------------------------------
(* Packing.                                                                *)

\* What paths, names and archives of what can be packed are made of.
PathsOf(t) == UNION {Range(p) : p \in DOMAIN t}
LinksOf(t) == UNION {Range(t[p].link) : p \in DOMAIN t}
ContentsOf(t) == UNION {Range(t[p].contents) : p \in DOMAIN t}
Letters ==
  (UNION {PathsOf(t) : t \in Trees}) \cup (UNION {Range(a) : a \in Range(Arguments)})
PackTexts ==
  {Sep, Char("s")} \cup {Char(c) : c \in Letters} \cup (UNION {LinksOf(t) : t \in Trees})
FileBytes ==
  Range(Script) \cup (UNION {Range(c) : c \in Edited}) \cup (UNION {ContentsOf(t) : t \in Trees})
PackHeaders ==
  [kind : {"header"}, flag : {"0", "1", "2", "5", "L", "K"}, name : Seq(PackTexts), size : Nat,
   link : Seq(PackTexts)]
PackUnits == PackHeaders \cup PackTexts \cup FileBytes \cup {Zero, Field, Garbage}
Chunked == [kind : {"chunk"}, data : Seq(PackUnits)]
Packed ==
  [path : Seq(Letters), size : Nat,
   item : [type : Packable, name : Seq(PackTexts), contents : Seq(FileBytes),
           link : Seq(PackTexts)]]

\* Zeros fill what a size leaves of a block.
LEMMA PaddingTyped ==
  ASSUME NEW n \in Nat
  PROVE  Padding(n) \in Seq(PackUnits)
<1>1. RoundUp(n) - n \in Nat
  BY RoundsUp
<1>2. PICK k \in Nat : k = RoundUp(n) - n
  BY <1>1
<1>3. [i \in 1..k |-> Zero] \in Seq(PackUnits)
  BY DEF PackUnits
<1>4. QED  BY <1>2, <1>3 DEF Padding, Zeros

LEMMA HeaderTyped ==
  ASSUME NEW flag \in {"0", "1", "2", "5", "L", "K"}, NEW n \in Seq(PackTexts), NEW s \in Nat,
         NEW l \in Seq(PackTexts)
  PROVE  Header(flag, n, s, l) \in Seq(PackUnits)
<1> DEFINE h == [kind |-> "header", flag |-> flag, name |-> n, size |-> s, link |-> l]
<1>1. h \in PackUnits
  BY DEF PackUnits, PackHeaders
<1> HIDE DEF h
<1>2. PICK k \in Nat : k = Block - 1
  BY TarAssumption
<1>3. [i \in 1..k |-> Field] \in Seq(PackUnits) /\ <<h>> \in Seq(PackUnits)
  BY <1>1 DEF PackUnits
<1>4. Header(flag, n, s, l) = <<h>> \o [i \in 1..k |-> Field]
  BY <1>2 DEF Header, h
<1>5. QED  BY <1>3, <1>4, ConcatProperties

\* A header that is written, with what goes before it, is made of units.
LEMMA SizedTyped ==
  ASSUME NEW item, item.type \in DOMAIN Flag, item.name \in Seq(PackTexts),
         item.link \in Seq(PackTexts), NEW s \in Nat
  PROVE  WriteSized(item, s) \in Seq(PackUnits)
<1> DEFINE relative == Relative(item.name)
           full == FullName(item)
           fits == IF NameFits(item) THEN full ELSE <<>>
           target == IF LinkFits(item) THEN item.link ELSE <<>>
           before == IF NameFits(item) THEN <<>> ELSE LongName(item)
           between == IF LinkFits(item) THEN <<>> ELSE LongLink(item)
<1>1. Sep \in PackTexts /\ PackTexts \subseteq PackUnits /\ Zero \in PackUnits /\ Garbage \in PackUnits
  BY DEF PackTexts, PackUnits
<1>2. /\ relative \in Seq(PackTexts) /\ full \in Seq(PackTexts)
      /\ Len(relative) \in Nat /\ Len(item.link) \in Nat
  BY <1>1, RelativeIsText, FullNameTyped, LenProperties
<1>3. fits \in Seq(PackTexts) /\ target \in Seq(PackTexts)
  BY <1>2, EmptySeq
<1>4. Flag[item.type] \in {"0", "1", "2", "5", "L", "K"}
  BY DEF Flag
<1>5. Header(Flag[item.type], fits, s, target) \in Seq(PackUnits)
  BY <1>3, <1>4, HeaderTyped
<1>6. LongName(item) \in Seq(PackUnits)
  <2> DEFINE z == Len(relative) + 1
  <2>1. z \in Nat /\ <<>> \in Seq(PackTexts)
    BY <1>2, EmptySeq
  <2> HIDE DEF z
  <2>2. Header("L", <<>>, z, <<>>) \in Seq(PackUnits) /\ Padding(z) \in Seq(PackUnits)
    BY <2>1, HeaderTyped, PaddingTyped
  <2>3. Append(full, Zero) \in Seq(PackUnits)
    <3>1. full \in Seq(PackUnits)
      BY <1>1, <1>2, SeqMonotonic
    <3>2. QED  BY <1>1, <3>1, AppendProperties
  <2>4. Header("L", <<>>, z, <<>>) \o Append(full, Zero) \o Padding(z) \in Seq(PackUnits)
    BY <2>2, <2>3, ConcatProperties
  <2>5. QED  BY <2>4 DEF LongName, z
<1>7. LongLink(item) \in Seq(PackUnits)
  <2> DEFINE z == Len(item.link) + 1
             n == Append(relative, Zero)
  <2>1. z \in Nat /\ <<>> \in Seq(PackTexts)
    BY <1>2, EmptySeq
  <2>2. n \in Seq(PackUnits)
    <3>1. relative \in Seq(PackUnits)
      BY <1>1, <1>2, SeqMonotonic
    <3>2. QED  BY <1>1, <3>1, AppendProperties
  <2>3. LongLink(item) = Header("K", <<>>, z, <<>>)
                           \o [i \in 1..z |-> IF i <= Len(n) THEN n[i] ELSE Garbage] \o Padding(z)
    BY DEF LongLink
  <2> HIDE DEF z, n
  <2>4. Header("K", <<>>, z, <<>>) \in Seq(PackUnits) /\ Padding(z) \in Seq(PackUnits)
    BY <2>1, HeaderTyped, PaddingTyped
  <2>5. [i \in 1..z |-> IF i <= Len(n) THEN n[i] ELSE Garbage] \in Seq(PackUnits)
    <3>1. \A i \in 1..z : (IF i <= Len(n) THEN n[i] ELSE Garbage) \in PackUnits
      <4> TAKE i \in 1..z
      <4>1. Len(n) \in Nat
        BY <2>2, LenProperties
      <4>2. i <= Len(n) => n[i] \in PackUnits
        BY <2>1, <2>2, <4>1, ElementOfSeq
      <4>3. QED  BY <1>1, <4>2
    <3>2. QED  BY <2>1, <3>1
  <2>6. QED  BY <2>3, <2>4, <2>5, ConcatProperties
<1>8. before \in Seq(PackUnits) /\ between \in Seq(PackUnits)
  BY <1>6, <1>7, EmptySeq
<1>9. WriteSized(item, s) = before \o between \o Header(Flag[item.type], fits, s, target)
  BY DEF WriteSized
<1> HIDE DEF before, between, fits, target
<1>10. QED  BY <1>5, <1>8, <1>9, ConcatProperties

LEMMA JoinedTyped ==
  ASSUME NEW names \in Seq(Letters)
  PROVE  Joined(names) \in Seq(PackTexts)
<1> DEFINE parts == [i \in 1..Len(names) |-> <<Sep, Char(names[i])>>]
<1>1. \A i \in 1..Len(names) : <<Sep, Char(names[i])>> \in Seq(PackTexts)
  <2> TAKE i \in 1..Len(names)
  <2>1. names[i] \in Letters
    BY ElementOfSeq
  <2>2. Sep \in PackTexts /\ Char(names[i]) \in PackTexts
    BY <2>1 DEF PackTexts
  <2>3. QED  BY <2>2
<1>2. parts \in Seq(Seq(PackTexts))
  <2>1. Len(names) \in Nat
    BY LenProperties
  <2>2. QED  BY <1>1, <2>1
<1>3. <<>> \in Seq(PackTexts)
  BY EmptySeq
<1>4. Joined(names) = FlattenSeq(parts)
  BY DEF Joined
<1> HIDE DEF parts
<1>5. QED  BY <1>2, <1>3, <1>4, FlattenAppend

-----------------------------------------------------------------------------
\* The program fills its buffer from a file; it walks below an argument.
Filling == ppc \in {"open", "flush", "read"}
Walking == ppc \in {"visit", "dir", "open", "flush", "read"}

\* What is above a path is a directory.
TreeOK ==
  /\ tree = [p \in DOMAIN tree |-> tree[p]]
  /\ \A p \in DOMAIN tree :
       /\ p \in Seq(Letters)
       /\ tree[p] = [type |-> tree[p].type, contents |-> tree[p].contents, link |-> tree[p].link]
       /\ tree[p].contents \in Seq(FileBytes) /\ tree[p].link \in Seq(PackTexts)
       /\ \A n \in 1..(Len(p) - 1) :
            SubSeq(p, 1, n) \in DOMAIN tree /\ tree[SubSeq(p, 1, n)].type = "dir"

Sendable == IF compress THEN Chunked ELSE PackUnits

PackTypeOK ==
  /\ TreeOK
  /\ ppc \in {"new", "args", "visit", "dir", "open", "flush", "read", "exited"}
  /\ args \in Seq(Seq(Letters)) /\ top \in Seq(Letters) /\ visit \in Seq(Letters)
  /\ stack \in Seq([dir : Seq(Letters), left : SUBSET DOMAIN tree])
  /\ offset \in Nat /\ begin \in Nat /\ edits \in Nat
  /\ tar \in Seq(PackUnits) /\ chunks \in Seq(Sendable) /\ out \in Seq(Sendable)
  /\ packed \in Seq(Packed)
  /\ ppc = "new" => packed = <<>>
  /\ Filling => packed # <<>>
  /\ ppc = "dir" => stack # <<>>
  /\ ppc \in {"new", "args", "exited"} => stack = <<>>

\* The steps of a program none of whose calls fails: a path that cannot be packed
\* is still given up.
GivesUp ==
  /\ ppc = "visit" /\ ~Knows /\ GiveUp
  /\ UNCHANGED <<world, offset, begin, buffers, ended, packed, faults>>
Packs == VisitFile \/ VisitLink \/ VisitDir
Walks == TakeArgument \/ NextEntry \/ LeaveDir \/ GivesUp
Fills == OpenFile \/ FlushWorks \/ PackReads \/ ReadAgain

Quiet == faults = 0 /\ broken = {}

LEMMA QuietStep ==
  ASSUME faults \in Nat, PackNext, Quiet'
  PROVE  Quiet /\ (PackScript \/ Walks \/ Packs \/ Fills \/ FileEnds \/ PackFinish \/ EditFile)
<1>1. ~CallFails
  BY DEF CallFails, Quiet
<1>2. ~ScriptFails /\ ~DirCrashes /\ ~OpenFails /\ ~FlushFails /\ ~FinishFails
  BY <1>1 DEF ScriptFails, DirCrashes, OpenFails, FlushFails, FinishFails
<1>3. VisitFails => GivesUp
  BY <1>1 DEF VisitFails, GivesUp
<1>4. Program \/ GivesUp \/ EditFile
  BY <1>2, <1>3 DEF PackNext
<1>5. UNCHANGED <<broken, faults>>
  <2>1. CASE EditFile
    BY <2>1 DEF EditFile
  <2>2. CASE GivesUp
    BY <2>2 DEF GivesUp, world
  <2>3. CASE PackScript \/ TakeArgument \/ VisitFile \/ VisitLink \/ VisitDir \/ NextEntry \/ LeaveDir
    BY <2>3 DEF PackScript, TakeArgument, VisitFile, VisitLink, VisitDir, NextEntry, LeaveDir, world
  <2>4. CASE OpenFile \/ FlushWorks \/ PackReads \/ ReadFails \/ ReadAgain \/ FileEnds \/ PackFinish
    BY <2>4 DEF OpenFile, FlushWorks, PackReads, ReadFails, ReadAgain, FileEnds, PackFinish, world
  <2>5. QED  BY <1>4, <2>1, <2>2, <2>3, <2>4 DEF Program
<1>6. Quiet
  BY <1>5 DEF Quiet
<1>7. ~ReadFails
  BY <1>6 DEF ReadFails, Quiet
<1>8. QED  BY <1>4, <1>6, <1>7 DEF Program, Walks, Packs, Fills

\* What files are, and where their links lead, stays.
SameFiles ==
  /\ DOMAIN tree' = DOMAIN tree
  /\ \A p \in DOMAIN tree : tree'[p].type = tree[p].type /\ tree'[p].link = tree[p].link

LEMMA EditKeepsFiles ==
  ASSUME TreeOK, EditFile
  PROVE  SameFiles /\ TreeOK'
<1>1. PICK p \in DOMAIN tree, c \in Edited : tree' = [tree EXCEPT ![p].contents = c]
  BY DEF EditFile
<1>2. c \in Seq(FileBytes)
  <2>1. c \in Seq(Range(c)) /\ Range(c) \subseteq FileBytes
    BY PackAssumption DEF IsSequence, FileBytes
  <2>2. QED  BY <2>1, SeqMonotonic
<1>3. DOMAIN tree' = DOMAIN tree /\ tree' = [q \in DOMAIN tree' |-> tree'[q]]
  BY <1>1
<1>4. \A q \in DOMAIN tree : q # p => tree'[q] = tree[q]
  BY <1>1
<1>5. tree'[p] = [tree[p] EXCEPT !.contents = c]
  BY <1>1
<1>6. tree[p] = [type |-> tree[p].type, contents |-> tree[p].contents, link |-> tree[p].link]
  BY DEF TreeOK
<1>7. tree'[p] = [type |-> tree[p].type, contents |-> c, link |-> tree[p].link]
  BY <1>5, <1>6
<1>8. \A q \in DOMAIN tree :
        /\ tree'[q].type = tree[q].type /\ tree'[q].link = tree[q].link
        /\ tree'[q].contents \in Seq(FileBytes)
        /\ tree'[q] = [type |-> tree'[q].type, contents |-> tree'[q].contents, link |-> tree'[q].link]
  <2> TAKE q \in DOMAIN tree
  <2>1. CASE q = p
    BY <1>2, <1>7, <2>1
  <2>2. CASE q # p
    BY <1>4, <2>2 DEF TreeOK
  <2>3. QED  BY <2>1, <2>2
<1>9. SameFiles
  BY <1>3, <1>8 DEF SameFiles
<1>10. QED  BY <1>3, <1>8, <1>9 DEF TreeOK, SameFiles

LEMMA TreesAreOK ==
  ASSUME tree \in Trees
  PROVE  TreeOK
<1>1. \A p \in DOMAIN tree :
        p \in Seq(Range(p)) /\ tree[p].contents \in Seq(Range(tree[p].contents))
        /\ tree[p].link \in Seq(Range(tree[p].link))
  BY PackAssumption DEF IsSequence
<1>2. PathsOf(tree) \subseteq Letters /\ LinksOf(tree) \subseteq PackTexts
      /\ ContentsOf(tree) \subseteq FileBytes
  BY DEF Letters, PackTexts, FileBytes
<1>9. \A p \in DOMAIN tree :
        Range(p) \subseteq Letters /\ Range(tree[p].contents) \subseteq FileBytes
        /\ Range(tree[p].link) \subseteq PackTexts
  BY <1>2 DEF PathsOf, LinksOf, ContentsOf
<1>3. \A p \in DOMAIN tree :
        p \in Seq(Letters) /\ tree[p].contents \in Seq(FileBytes) /\ tree[p].link \in Seq(PackTexts)
  BY <1>1, <1>9, SeqMonotonic
<1>4. QED  BY <1>3, PackAssumption DEF TreeOK

\* What is packed of a path.
LEMMA ItemTyped ==
  ASSUME PackTypeOK, Knows
  PROVE  /\ visit \in DOMAIN tree /\ entry = tree[visit]
         /\ [path |-> visit, item |-> ItemOf, size |-> SizeOf] \in Packed
         /\ WriteSized(ItemOf, SizeOf) \in Seq(PackUnits)
<1>1. visit \in DOMAIN tree /\ entry = tree[visit] /\ entry.type \in Packable
  BY DEF Knows, entry, Missing, Packable
<1>2. entry.contents \in Seq(FileBytes) /\ entry.link \in Seq(PackTexts)
  BY <1>1 DEF PackTypeOK, TreeOK
<1>3. SizeOf \in Nat
  BY <1>1, <1>2, LenProperties, PackAssumption DEF SizeOf, Packable
<1>4. NameOf(visit) \in Seq(PackTexts)
  <2>1. visit \in Seq(Letters) /\ Len(visit) \in Nat /\ Len(top) \in Nat
    BY LenProperties DEF PackTypeOK
  <2>2. SubSeq(visit, Len(top) + 1, Len(visit)) \in Seq(Letters)
    BY <2>1, Piece
  <2>3. QED  BY <2>2, JoinedTyped DEF NameOf, NameBelow
<1>5. ItemOf = [type |-> entry.type, name |-> NameOf(visit), contents |-> <<>>, link |-> entry.link]
  BY DEF ItemOf
<1>6. ItemOf \in [type : Packable, name : Seq(PackTexts), contents : Seq(FileBytes),
                  link : Seq(PackTexts)]
  BY <1>1, <1>2, <1>4, <1>5, EmptySeq
<1>7. WriteSized(ItemOf, SizeOf) \in Seq(PackUnits)
  <2>1. ItemOf.type \in DOMAIN Flag /\ ItemOf.name \in Seq(PackTexts) /\ ItemOf.link \in Seq(PackTexts)
    BY <1>1, <1>2, <1>4, <1>5 DEF Packable, Flag
  <2>2. QED  BY <1>3, <2>1, SizedTyped
<1>8. visit \in Seq(Letters)
  BY DEF PackTypeOK
<1>9. QED  BY <1>1, <1>3, <1>6, <1>7, <1>8 DEF Packed

LEMMA BytesAreUnits ==
  ASSUME NEW c \in Seq(FileBytes)
  PROVE  c \in Seq(PackUnits)
<1>1. FileBytes \subseteq PackUnits
  BY DEF PackUnits
<1>2. QED  BY <1>1, SeqMonotonic

Frames == [dir : Seq(Letters), left : SUBSET DOMAIN tree]

\* The end of a sequence that is not empty.
LEMMA EndOf ==
  ASSUME NEW S, NEW s \in Seq(S), s # <<>>
  PROVE  /\ Len(s) \in Nat /\ Len(s) > 0 /\ Len(s) \in 1..Len(s)
         /\ Last(s) = s[Len(s)] /\ Last(s) \in S
         /\ Front(s) \in Seq(S) /\ Len(Front(s)) = Len(s) - 1
         /\ \A i \in 1..Len(s) - 1 : Front(s)[i] = s[i]
         /\ s = Append(Front(s), Last(s))
<1>1. Len(s) \in Nat /\ Len(s) > 0 /\ Len(s) \in 1..Len(s)
  BY EmptySeq, LenProperties
<1>2. Last(s) = s[Len(s)] /\ Last(s) \in S
  BY <1>1, ElementOfSeq DEF Last
<1>3. /\ Front(s) \in Seq(S) /\ Len(Front(s)) = Len(s) - 1
      /\ \A i \in 1..Len(s) - 1 : Front(s)[i] = s[i]
  <2>1. 0 \in Nat /\ Len(s) - 1 \in Nat /\ Len(s) - 1 <= Len(s) /\ 0 <= Len(s) - 1
    BY <1>1
  <2>2. /\ SubSeq(s, 0 + 1, Len(s) - 1) \in Seq(S)
        /\ Len(SubSeq(s, 0 + 1, Len(s) - 1)) = Len(s) - 1 - 0
        /\ \A i \in 1..Len(s) - 1 - 0 : SubSeq(s, 0 + 1, Len(s) - 1)[i] = s[0 + i]
    BY <2>1, Piece, ZenonT(30)
  <2>3. QED  BY <2>1, <2>2 DEF Front
<1>4. s = Append(Front(s), Last(s))
  <2> DEFINE t == Append(Front(s), Last(s))
  <2>1. t \in Seq(S) /\ Len(t) = Len(s) /\ t[Len(s)] = s[Len(s)]
        /\ \A i \in 1..Len(s) - 1 : t[i] = s[i]
    BY <1>1, <1>2, <1>3, AppendProperties
  <2> HIDE DEF t
  <2>2. \A i \in 1..Len(s) : t[i] = s[i]
    BY <1>1, <2>1
  <2>3. t = s
    BY <2>1, <2>2, SeqEqual
  <2>4. QED  BY <2>3 DEF t
<1>5. QED  BY <1>1, <1>2, <1>3, <1>4

\* What is read of a file: the next bytes of it.
LEMMA ReadIs ==
  ASSUME PackTypeOK, PackReads
  PROVE  \E n \in 1..Least(Room, Unread) : \E read \in Seq(FileBytes) :
           /\ read = SubSeq(entry.contents, offset + 1, offset + n) /\ Len(read) = n
           /\ offset + n <= Len(entry.contents) /\ Len(tar) + n <= BufferLimit
           /\ tar' = tar \o read /\ offset' = offset + n
           /\ visit \in DOMAIN tree /\ entry = tree[visit]
           /\ packed' = [packed EXCEPT ![Len(packed)].item.contents = @ \o read]
<1>1. PICK n \in 1..Least(Room, Unread) :
        /\ tar' = tar \o SubSeq(entry.contents, offset + 1, offset + n) /\ offset' = offset + n
        /\ packed' = [packed EXCEPT ![Len(packed)].item.contents =
                        @ \o SubSeq(entry.contents, offset + 1, offset + n)]
  BY DEF PackReads
<1>2. visit \in DOMAIN tree /\ entry = tree[visit]
  <2>1. CASE visit \notin DOMAIN tree
    <3>1. entry.contents = <<>>
      BY <2>1 DEF entry, Missing
    <3>2. Unread = 0 - offset /\ offset \in Nat /\ Unread > 0
      BY <3>1, EmptySeq DEF Unread, PackReads, PackTypeOK
    <3>3. QED  BY <3>2
  <2>2. QED  BY <2>1 DEF entry
<1>3. entry.contents \in Seq(FileBytes) /\ Len(entry.contents) \in Nat
  BY <1>2, LenProperties DEF PackTypeOK, TreeOK
<1>4. offset \in Nat /\ Len(tar) \in Nat /\ BufferLimit \in Nat
  BY LenProperties, PackAssumption DEF PackTypeOK
<1>5. n \in Nat /\ n <= Room /\ n <= Unread
  BY <1>3, <1>4 DEF Least, Room, Unread
<1>6. offset + n \in Nat /\ offset + n <= Len(entry.contents) /\ Len(tar) + n <= BufferLimit
      /\ offset <= offset + n /\ (offset + n) - offset = n
  BY <1>3, <1>4, <1>5 DEF Room, Unread
<1> DEFINE read == SubSeq(entry.contents, offset + 1, offset + n)
<1>7. read \in Seq(FileBytes) /\ Len(read) = n
  BY <1>3, <1>4, <1>6, Piece
<1>8. QED  BY <1>1, <1>2, <1>6, <1>7

\* How reading changes the last entry.
Longer(e, read) == [e EXCEPT !.item.contents = @ \o read]

LEMMA ReadEntry ==
  ASSUME NEW es \in Seq(Packed), es # <<>>, NEW read \in Seq(FileBytes)
  PROVE  /\ [es EXCEPT ![Len(es)].item.contents = @ \o read]
              = Append(Front(es), Longer(Last(es), read))
         /\ Longer(Last(es), read) \in Packed
         /\ Longer(Last(es), read).path = Last(es).path
         /\ Longer(Last(es), read).size = Last(es).size
         /\ Longer(Last(es), read).item =
              [type |-> Last(es).item.type, name |-> Last(es).item.name,
               contents |-> Last(es).item.contents \o read, link |-> Last(es).item.link]
<1> DEFINE n == Len(es)
           e == Last(es)
           l == Longer(e, read)
           t == [es EXCEPT ![n].item.contents = @ \o read]
<1>1. /\ n \in Nat /\ n > 0 /\ n \in 1..n /\ e = es[n] /\ e \in Packed
      /\ Front(es) \in Seq(Packed) /\ Len(Front(es)) = n - 1
      /\ \A i \in 1..n - 1 : Front(es)[i] = es[i]
  BY EndOf
<1>2. /\ e = [path |-> e.path, size |-> e.size, item |-> e.item]
      /\ e.item = [type |-> e.item.type, name |-> e.item.name, contents |-> e.item.contents,
                   link |-> e.item.link]
      /\ e.path \in Seq(Letters) /\ e.size \in Nat /\ e.item.type \in Packable
      /\ e.item.name \in Seq(PackTexts) /\ e.item.contents \in Seq(FileBytes)
      /\ e.item.link \in Seq(PackTexts)
  BY <1>1 DEF Packed
<1> HIDE DEF e
<1>3. /\ l.path = e.path /\ l.size = e.size
      /\ l.item = [type |-> e.item.type, name |-> e.item.name,
                   contents |-> e.item.contents \o read, link |-> e.item.link]
      /\ l = [path |-> l.path, size |-> l.size, item |-> l.item]
  <2> DEFINE x == e.item
             y == [x EXCEPT !.contents = @ \o read]
  <2>1. y = [type |-> x.type, name |-> x.name, contents |-> x.contents \o read, link |-> x.link]
    <3>1. x = [type |-> x.type, name |-> x.name, contents |-> x.contents, link |-> x.link]
      BY <1>2
    <3> HIDE DEF x
    <3> DEFINE w == x.contents \o read
    <3>2. y = [x EXCEPT !.contents = w]
      OBVIOUS
    <3> HIDE DEF w, y
    <3>3. y = [type |-> x.type, name |-> x.name, contents |-> w, link |-> x.link]
      BY <3>1, <3>2
    <3>4. QED  BY <3>3 DEF w
  <2>2. l = [e EXCEPT !.item = y]
    BY <1>2 DEF Longer
  <2> HIDE DEF y, l
  <2>3. l = [path |-> e.path, size |-> e.size, item |-> y]
    BY <1>2, <2>2
  <2>4. QED  BY <2>1, <2>3
<1>4. e.item.contents \o read \in Seq(FileBytes)
  BY <1>2, ConcatProperties
<1>5. l \in Packed
  <2>1. l.item \in [type : Packable, name : Seq(PackTexts), contents : Seq(FileBytes),
                    link : Seq(PackTexts)]
    BY <1>2, <1>3, <1>4
  <2> HIDE DEF l
  <2>2. QED  BY <1>2, <1>3, <2>1 DEF Packed
<1>6. t = [es EXCEPT ![n] = l]
  BY <1>1 DEF Longer, e
<1> HIDE DEF l, t
<1>7. /\ t \in Seq(Packed) /\ Len(t) = n
      /\ \A i \in 1..n : t[i] = IF i = n THEN l ELSE es[i]
  BY <1>1, <1>5, <1>6, ExceptSeq
<1>8. /\ Append(Front(es), l) \in Seq(Packed) /\ Len(Append(Front(es), l)) = n
      /\ Append(Front(es), l)[n] = l
      /\ \A i \in 1..n - 1 : Append(Front(es), l)[i] = es[i]
  BY <1>1, <1>5, AppendProperties
<1>9. \A i \in 1..n : t[i] = Append(Front(es), l)[i]
  BY <1>1, <1>7, <1>8
<1>10. t = Append(Front(es), l)
  BY <1>7, <1>8, <1>9, SeqEqual
<1>11. QED  BY <1>3, <1>5, <1>10 DEF t, l, e

LEMMA ScriptTyped ==
  /\ [path |-> <<>>, item |-> ScriptItem, size |-> Len(Script)] \in Packed
  /\ WriteSized(ScriptItem, Len(Script)) \in Seq(PackUnits)
  /\ WriteItem(ScriptItem) \in Seq(PackUnits) /\ Script \in Seq(FileBytes)
<1>1. Script \in Seq(FileBytes) /\ Len(Script) \in Nat
  <2>1. Script \in Seq(Range(Script)) /\ Range(Script) \subseteq FileBytes
    BY PackAssumption DEF IsSequence, FileBytes
  <2>2. QED  BY <2>1, SeqMonotonic, LenProperties
<1>2. <<Char("s")>> \in Seq(PackTexts) /\ <<>> \in Seq(PackTexts)
  BY EmptySeq DEF PackTexts
<1>3. ScriptItem \in [type : Packable, name : Seq(PackTexts), contents : Seq(FileBytes),
                      link : Seq(PackTexts)]
  BY <1>1, <1>2 DEF ScriptItem, Packable
<1>4. WriteSized(ScriptItem, Len(Script)) \in Seq(PackUnits)
  <2>1. ScriptItem.type \in DOMAIN Flag /\ ScriptItem.name \in Seq(PackTexts)
        /\ ScriptItem.link \in Seq(PackTexts)
    BY <1>2 DEF ScriptItem, Flag
  <2>2. QED  BY <1>1, <2>1, SizedTyped
<1>5. Script \in Seq(PackUnits) /\ Padding(Len(Script)) \in Seq(PackUnits)
  BY <1>1, BytesAreUnits, PaddingTyped
<1>6. WriteItem(ScriptItem) =
        WriteSized(ScriptItem, Len(Script)) \o Script \o Padding(Len(Script))
  BY DEF WriteItem, WriteHeader, ScriptItem
<1>7. WriteItem(ScriptItem) \in Seq(PackUnits)
  BY <1>4, <1>5, <1>6, ConcatProperties
<1>8. <<>> \in Seq(Letters)
  BY EmptySeq
<1>9. QED  BY <1>1, <1>3, <1>4, <1>7, <1>8 DEF Packed

\* What a flush does to what has been written, and what has not.
Flushed ==
  \/ UNCHANGED buffers
  \/ ~compress /\ out' = out \o tar /\ tar' = <<>> /\ UNCHANGED chunks
  \/ compress /\ out' = out \o Deflated /\ tar' = <<>> /\ chunks' = <<>>
  \/ compress /\ chunks' = Deflated /\ tar' = <<>> /\ UNCHANGED out

LEMMA FlushIs ==
  ASSUME FlushWorks
  PROVE  Flushed /\ (tar' = <<>> \/ (UNCHANGED tar /\ ~TarIsFull))
BY DEF FlushWorks, Flushed, buffers

LEMMA DeflatedTyped ==
  ASSUME PackTypeOK, compress
  PROVE  /\ Deflated \in Seq(Chunked)
         /\ out \in Seq(Chunked) /\ chunks \in Seq(Chunked)
         /\ [kind |-> "chunk", data |-> tar] \in Chunked
         /\ Deflated = Append(chunks, [kind |-> "chunk", data |-> tar])
<1>1. [kind |-> "chunk", data |-> tar] \in Chunked
  BY DEF PackTypeOK, Chunked
<1>2. out \in Seq(Chunked) /\ chunks \in Seq(Chunked)
  BY DEF PackTypeOK, Sendable
<1>3. Deflated = Append(chunks, [kind |-> "chunk", data |-> tar])
  BY DEF Deflated
<1>4. QED  BY <1>1, <1>2, <1>3, AppendProperties

LEMMA FillTyped ==
  ASSUME PackTypeOK, Fills
  PROVE  PackTypeOK'
<1>1. UNCHANGED <<tree, compress, edits, args, top, stack, visit>>
  BY DEF Fills, OpenFile, FlushWorks, PackReads, ReadAgain, world, walk
<1>2. Filling /\ Filling'
  BY DEF Fills, OpenFile, FlushWorks, PackReads, ReadAgain, Filling, Turns
<1>3. ppc' \in {"open", "flush", "read"} /\ TreeOK' /\ Sendable' = Sendable
  BY <1>1, <1>2 DEF Filling, PackTypeOK, TreeOK, Sendable
<1>4. Len(tar) \in Nat
  BY LenProperties DEF PackTypeOK
<1>5. CASE OpenFile \/ ReadAgain
  <2>1. UNCHANGED <<tar, chunks, out, packed, begin>> /\ offset' \in Nat
    BY <1>5 DEF OpenFile, ReadAgain, buffers, PackTypeOK
  <2>2. QED  BY <1>1, <1>2, <1>3, <2>1 DEF PackTypeOK, Filling
<1>6. CASE FlushWorks
  <2>1. UNCHANGED <<packed, offset>> /\ begin' = Len(tar') /\ Flushed
    BY <1>6, FlushIs DEF FlushWorks
  <2>2. tar' \in Seq(PackUnits) /\ chunks' \in Seq(Sendable) /\ out' \in Seq(Sendable)
    <3>1. tar \in Seq(PackUnits) /\ chunks \in Seq(Sendable) /\ out \in Seq(Sendable)
          /\ <<>> \in Seq(PackUnits) /\ <<>> \in Seq(Sendable)
      BY EmptySeq DEF PackTypeOK
    <3>2. CASE UNCHANGED buffers
      BY <3>1, <3>2 DEF buffers
    <3>3. CASE ~compress /\ out' = out \o tar /\ tar' = <<>> /\ UNCHANGED chunks
      BY <3>1, <3>3, ConcatProperties DEF Sendable
    <3>4. CASE compress /\ tar' = <<>>
               /\ \/ out' = out \o Deflated /\ chunks' = <<>>
                  \/ chunks' = Deflated /\ UNCHANGED out
      <4>1. Deflated \in Seq(Sendable)
        BY <3>4, DeflatedTyped DEF Sendable
      <4>2. QED  BY <3>1, <3>4, <4>1, ConcatProperties
    <3>5. QED  BY <2>1, <3>2, <3>3, <3>4 DEF Flushed
  <2>3. begin' \in Nat
    BY <2>1, <2>2, LenProperties
  <2>4. QED  BY <1>1, <1>2, <1>3, <2>1, <2>2, <2>3 DEF PackTypeOK, Filling
<1>7. CASE PackReads
  <2>1. PICK n \in Nat, read \in Seq(FileBytes) :
          /\ tar' = tar \o read /\ offset' = offset + n
          /\ packed' = [packed EXCEPT ![Len(packed)].item.contents = @ \o read]
    <3>1. PICK n \in 1..Least(Room, Unread), read \in Seq(FileBytes) :
            /\ tar' = tar \o read /\ offset' = offset + n /\ Len(read) = n
            /\ packed' = [packed EXCEPT ![Len(packed)].item.contents = @ \o read]
      BY <1>7, ReadIs
    <3>2. n \in Nat
      BY <3>1, LenProperties
    <3>3. QED  BY <3>1, <3>2
  <2>2. tar' \in Seq(PackUnits) /\ offset' \in Nat
    BY <2>1, BytesAreUnits, ConcatProperties, SMTT(30) DEF PackTypeOK
  <2>3. packed \in Seq(Packed) /\ packed # <<>>
    BY <1>2 DEF PackTypeOK
  <2>4. packed' = Append(Front(packed), Longer(Last(packed), read))
        /\ Longer(Last(packed), read) \in Packed /\ Front(packed) \in Seq(Packed)
    BY <2>1, <2>3, ReadEntry, EndOf
  <2>5. packed' \in Seq(Packed) /\ packed' # <<>>
    BY <2>4, AppendProperties
  <2>6. UNCHANGED <<chunks, out, begin>>
    BY <1>7 DEF PackReads
  <2>7. QED  BY <1>1, <1>2, <1>3, <2>2, <2>5, <2>6 DEF PackTypeOK, Filling
<1>8. QED  BY <1>5, <1>6, <1>7 DEF Fills

LEMMA PackTyped ==
  ASSUME PackTypeOK, Packs
  PROVE  PackTypeOK'
<1>1. /\ UNCHANGED <<tree, compress, edits, args, top, visit, offset, begin, chunks, out>>
      /\ ppc = "visit" /\ Knows /\ PackHeader
  BY DEF Packs, VisitFile, VisitLink, VisitDir, world, walk, Knows, Packable
<1>2. TreeOK' /\ Sendable' = Sendable
  BY <1>1 DEF PackTypeOK, TreeOK, Sendable
<1>3. tar' = tar \o WriteSized(ItemOf, SizeOf)
      /\ packed' = Append(packed, [path |-> visit, item |-> ItemOf, size |-> SizeOf])
  BY <1>1 DEF PackHeader
<1>4. packed' \in Seq(Packed) /\ packed' # <<>>
  <2>1. packed \in Seq(Packed)
    BY DEF PackTypeOK
  <2>2. [path |-> visit, item |-> ItemOf, size |-> SizeOf] \in Packed
    BY <1>1, ItemTyped
  <2>3. QED  BY <1>3, <2>1, <2>2, AppendProperties
<1>5. tar' \in Seq(PackUnits)
  BY <1>1, <1>3, ItemTyped, ConcatProperties DEF PackTypeOK
<1>6. CASE VisitFile \/ VisitLink
  <2>1. UNCHANGED stack /\ (ppc' = "open" \/ ppc' = IF stack = <<>> THEN "args" ELSE "dir")
    BY <1>6 DEF VisitFile, VisitLink, Back, Turns, walk
  <2>2. QED  BY <1>1, <1>2, <1>4, <1>5, <2>1 DEF PackTypeOK, Filling
<1>7. CASE VisitDir
  <2>1. stack' = Append(stack, [dir |-> visit, left |-> Entries(visit)]) /\ ppc' = "dir"
    BY <1>7 DEF VisitDir, Turns
  <2>2. [dir |-> visit, left |-> Entries(visit)] \in Frames
    BY DEF Frames, Entries, PackTypeOK
  <2>3. stack \in Seq(Frames)
    BY DEF PackTypeOK, Frames
  <2>4. stack' \in Seq(Frames) /\ stack' # <<>>
    BY <2>1, <2>2, <2>3, AppendProperties
  <2>5. stack' \in Seq([dir : Seq(Letters), left : SUBSET DOMAIN tree'])
    BY <1>1, <2>4 DEF Frames
  <2>6. QED  BY <1>1, <1>2, <1>4, <1>5, <2>1, <2>4, <2>5 DEF PackTypeOK, Filling
<1>8. QED  BY <1>6, <1>7 DEF Packs

\* An entry of the directory that is open is taken.
LEMMA EntryIs ==
  ASSUME PackTypeOK, NextEntry
  PROVE  \E p \in Last(stack).left :
           /\ visit' = p /\ p \in DOMAIN tree /\ p \in Seq(Letters)
           /\ stack' \in Seq(Frames) /\ Len(stack') = Len(stack) /\ stack # <<>>
           /\ \A k \in 1..Len(stack) : stack'[k].dir = stack[k].dir
           /\ \A k \in 1..Len(stack) : k # Len(stack) => stack'[k].left = stack[k].left
           /\ stack'[Len(stack)].left = stack[Len(stack)].left \ {p}
<1> DEFINE n == Len(stack)
           f == stack[n]
<1>1. PICK p \in Last(stack).left :
        visit' = p /\ stack' = [stack EXCEPT ![Len(stack)].left = @ \ {p}]
  BY DEF NextEntry
<1>2. stack \in Seq(Frames) /\ stack # <<>>
  BY DEF PackTypeOK, NextEntry, Frames
<1>3. n \in Nat /\ n \in 1..n /\ Last(stack) = f /\ f \in Frames
  BY <1>2, EndOf
<1> DEFINE g == [dir |-> f.dir, left |-> f.left \ {p}]
<1>4. g \in Frames /\ p \in DOMAIN tree
  BY <1>1, <1>3 DEF Frames
<1>5. stack' = [stack EXCEPT ![n] = g]
  <2>1. stack' = [stack EXCEPT ![n] = [f EXCEPT !.left = f.left \ {p}]]
    BY <1>1, <1>3
  <2>2. f = [dir |-> f.dir, left |-> f.left]
    BY <1>3 DEF Frames
  <2> DEFINE w == f.left \ {p}
  <2>3. [f EXCEPT !.left = w] = [dir |-> f.dir, left |-> w]
    <3> HIDE DEF f, w
    <3>1. QED  BY <2>2
  <2>4. QED  BY <2>1, <2>3
<1>6. /\ stack' \in Seq(Frames) /\ Len(stack') = n
      /\ \A k \in 1..n : stack'[k] = IF k = n THEN g ELSE stack[k]
  <2> HIDE DEF g
  <2>1. QED  BY <1>2, <1>3, <1>4, <1>5, ExceptSeq
<1>7. p \in Seq(Letters)
  BY <1>4 DEF PackTypeOK, TreeOK
<1>8. QED  BY <1>1, <1>2, <1>3, <1>4, <1>6, <1>7

LEMMA WalkTyped ==
  ASSUME PackTypeOK, Walks
  PROVE  PackTypeOK'
<1>1. UNCHANGED <<tree, compress, edits, offset, begin, tar, chunks, out, packed>>
  BY DEF Walks, TakeArgument, NextEntry, LeaveDir, GivesUp, world, buffers
<1>2. TreeOK' /\ Sendable' = Sendable
  BY <1>1 DEF PackTypeOK, TreeOK, Sendable
<1>3. CASE TakeArgument
  <2>1. args \in Seq(Seq(Letters)) /\ args # <<>> /\ UNCHANGED stack /\ ppc' = "visit"
        /\ args' = Tail(args) /\ top' = Head(args) /\ visit' = Head(args)
    BY <1>3 DEF TakeArgument, PackTypeOK, Turns
  <2>2. args' \in Seq(Seq(Letters)) /\ top' \in Seq(Letters) /\ visit' \in Seq(Letters)
    BY <2>1, HeadTailProperties
  <2>3. QED  BY <1>1, <1>2, <2>1, <2>2 DEF PackTypeOK, Filling
<1>4. CASE NextEntry
  <2>1. visit' \in Seq(Letters) /\ stack' \in Seq(Frames)
    BY <1>4, EntryIs
  <2>2. UNCHANGED <<args, top>> /\ ppc' = "visit"
    BY <1>4 DEF NextEntry, Turns
  <2>3. stack' \in Seq([dir : Seq(Letters), left : SUBSET DOMAIN tree'])
    BY <1>1, <2>1 DEF Frames
  <2>4. QED  BY <1>1, <1>2, <2>1, <2>2, <2>3 DEF PackTypeOK, Filling
<1>5. CASE LeaveDir
  <2>1. UNCHANGED <<args, top, visit>> /\ stack' = Front(stack) /\ stack # <<>>
        /\ ppc' = (IF Len(stack) = 1 THEN "args" ELSE "dir") /\ stack \in Seq(Frames)
    BY <1>5 DEF LeaveDir, Turns, PackTypeOK, Frames
  <2>2. stack' \in Seq(Frames) /\ Len(stack') = Len(stack) - 1 /\ Len(stack) \in Nat
    BY <2>1, EndOf
  <2>3. IF Len(stack) = 1 THEN stack' = <<>> ELSE stack' # <<>>
    <3>1. CASE Len(stack) = 1
      <4>1. Len(stack') = 0
        BY <2>2, <3>1
      <4>2. QED  BY <2>2, <3>1, <4>1, EmptySeq
    <3>2. CASE Len(stack) # 1
      <4>1. Len(stack') # 0
        BY <2>2, <3>2
      <4>2. QED  BY <3>2, <4>1, EmptySeq
    <3>3. QED  BY <3>1, <3>2
  <2>4. stack' \in Seq([dir : Seq(Letters), left : SUBSET DOMAIN tree'])
    BY <1>1, <2>2 DEF Frames
  <2>5. QED  BY <1>1, <1>2, <2>1, <2>3, <2>4 DEF PackTypeOK, Filling
<1>6. CASE GivesUp
  <2>1. UNCHANGED <<args, top, visit>> /\ stack' = <<>> /\ ppc' = "args"
    BY <1>6 DEF GivesUp, GiveUp, Turns
  <2>2. QED  BY <1>1, <1>2, <2>1, EmptySeq DEF PackTypeOK, Filling
<1>7. QED  BY <1>3, <1>4, <1>5, <1>6 DEF Walks

LEMMA OthersTyped ==
  ASSUME PackTypeOK, PackScript \/ FileEnds \/ PackFinish \/ EditFile
  PROVE  PackTypeOK'
<1>1. CASE PackScript
  <2>1. /\ UNCHANGED <<tree, compress, edits, args, top, stack, visit, offset, begin, chunks, out>>
        /\ ppc = "new" /\ ppc' = "args" /\ tar' = WriteItem(ScriptItem)
        /\ packed' = <<[path |-> <<>>, item |-> ScriptItem, size |-> Len(Script)]>>
    BY <1>1 DEF PackScript, world, walk, Turns
  <2>2. tar' \in Seq(PackUnits) /\ packed' \in Seq(Packed)
    BY <2>1, ScriptTyped
  <2>3. TreeOK' /\ Sendable' = Sendable
    BY <2>1 DEF PackTypeOK, TreeOK, Sendable
  <2>4. QED  BY <2>1, <2>2, <2>3 DEF PackTypeOK, Filling
<1>2. CASE FileEnds
  <2>1. /\ UNCHANGED <<tree, compress, edits, args, top, stack, visit, offset, begin, chunks, out,
                       packed>>
        /\ tar' = tar \o Padding(Last(packed).size) /\ ppc = "read"
        /\ ppc' = IF stack = <<>> THEN "args" ELSE "dir"
    BY <1>2 DEF FileEnds, world, walk, Turns, Back
  <2>2. packed \in Seq(Packed) /\ packed # <<>>
    BY <2>1 DEF PackTypeOK, Filling
  <2>3. Last(packed) \in Packed
    BY <2>2, EndOf
  <2>4. Padding(Last(packed).size) \in Seq(PackUnits)
    BY <2>3, PaddingTyped DEF Packed
  <2>5. tar' \in Seq(PackUnits)
    BY <2>1, <2>4, ConcatProperties DEF PackTypeOK
  <2>6. TreeOK' /\ Sendable' = Sendable
    BY <2>1 DEF PackTypeOK, TreeOK, Sendable
  <2>7. QED  BY <2>1, <2>5, <2>6 DEF PackTypeOK, Filling
<1>3. CASE PackFinish
  <2> DEFINE whole == tar \o End
             last == [kind |-> "chunk", data |-> whole]
  <2>1. /\ UNCHANGED <<tree, compress, edits, args, top, stack, visit, offset, begin, packed>>
        /\ ppc = "args" /\ ppc' = "exited" /\ tar' = <<>> /\ chunks' = <<>>
        /\ out' = out \o IF compress THEN Append(chunks, last) ELSE whole
    BY <1>3 DEF PackFinish, world, walk, Turns
  <2>2. End \in Seq(PackUnits)
    <3>1. PICK k \in Nat : k = 2 * Block
      BY TarAssumption
    <3>2. [i \in 1..k |-> Zero] \in Seq(PackUnits)
      BY DEF PackUnits
    <3>3. QED  BY <3>1, <3>2 DEF End, Zeros
  <2>3. whole \in Seq(PackUnits)
    BY <2>2, ConcatProperties DEF PackTypeOK
  <2>4. (IF compress THEN Append(chunks, last) ELSE whole) \in Seq(Sendable)
    <3>1. CASE compress
      <4>1. last \in Chunked
        BY <2>3 DEF Chunked
      <4>2. chunks \in Seq(Chunked)
        BY <3>1 DEF PackTypeOK, Sendable
      <4> HIDE DEF last
      <4>3. Append(chunks, last) \in Seq(Chunked)
        BY <4>1, <4>2, AppendProperties
      <4>4. QED  BY <3>1, <4>3 DEF Sendable
    <3>2. CASE ~compress
      BY <2>3, <3>2 DEF Sendable
    <3>3. QED  BY <3>1, <3>2
  <2>5. out' \in Seq(Sendable)
    <3>1. out \in Seq(Sendable)
      BY DEF PackTypeOK
    <3>2. PICK more \in Seq(Sendable) : out' = out \o more
      BY <2>1, <2>4
    <3>3. QED  BY <3>1, <3>2, ConcatProperties
  <2>6. TreeOK' /\ Sendable' = Sendable
    BY <2>1 DEF PackTypeOK, TreeOK, Sendable
  <2>7. <<>> \in Seq(PackUnits) /\ <<>> \in Seq(Sendable)
    BY EmptySeq
  <2>8. QED  BY <2>1, <2>5, <2>6, <2>7 DEF PackTypeOK, Filling
<1>4. CASE EditFile
  <2>1. /\ UNCHANGED <<compress, ppc, args, top, stack, visit, offset, begin, tar, chunks, out,
                       packed>>
        /\ edits' = edits + 1
    BY <1>4 DEF EditFile, walk, buffers
  <2>2. TreeOK' /\ DOMAIN tree' = DOMAIN tree
    BY <1>4, EditKeepsFiles DEF PackTypeOK, SameFiles
  <2>3. Sendable' = Sendable /\ edits' \in Nat
    BY <2>1 DEF Sendable, PackTypeOK
  <2>4. QED  BY <2>1, <2>2, <2>3 DEF PackTypeOK, Filling
<1>5. QED  BY <1>1, <1>2, <1>3, <1>4

-----------------------------------------------------------------------------
\* An entry up to its contents, and with the padding of a file.
Begun(e) == WriteSized(e.item, e.size) \o e.item.contents
Rest(e) == IF e.item.type = "file" THEN Padding(e.size) ELSE <<>>

LEMMA EntryTyped ==
  ASSUME NEW e \in Packed
  PROVE  /\ WriteSized(e.item, e.size) \in Seq(PackUnits) /\ e.item.contents \in Seq(PackUnits)
         /\ Begun(e) \in Seq(PackUnits) /\ Rest(e) \in Seq(PackUnits)
<1>1. /\ e.item.type \in DOMAIN Flag /\ e.item.name \in Seq(PackTexts)
      /\ e.item.link \in Seq(PackTexts) /\ e.size \in Nat /\ e.item.contents \in Seq(FileBytes)
  BY DEF Packed, Packable, Flag
<1>2. WriteSized(e.item, e.size) \in Seq(PackUnits) /\ e.item.contents \in Seq(PackUnits)
  BY <1>1, SizedTyped, BytesAreUnits
<1>3. Rest(e) \in Seq(PackUnits)
  BY <1>1, PaddingTyped, EmptySeq DEF Rest
<1>4. QED  BY <1>2, <1>3, ConcatProperties DEF Begun

\* An entry more is written after the others.
LEMMA StreamGrows ==
  ASSUME NEW es \in Seq(Packed), NEW e \in Packed
  PROVE  /\ Stream(es) \in Seq(PackUnits)
         /\ Stream(Append(es, e)) = Stream(es) \o (Begun(e) \o Rest(e))
<1> DEFINE Text(x) == Begun(x) \o Rest(x)
           t == Append(es, e)
           texts(s) == [i \in 1..Len(s) |-> Text(s[i])]
<1>1. \A s : Stream(s) = FlattenSeq(texts(s))
  BY DEF Stream, Begun, Rest
<1>2. \A x \in Packed : Text(x) \in Seq(PackUnits)
  BY EntryTyped, ConcatProperties
<1>3. /\ t \in Seq(Packed) /\ Len(t) = Len(es) + 1 /\ t[Len(es) + 1] = e /\ Len(es) \in Nat
      /\ \A i \in 1..Len(es) : t[i] = es[i] /\ es[i] \in Packed
  BY AppendProperties, LenProperties, ElementOfSeq
<1> HIDE DEF Text, t
<1>4. texts(es) \in Seq(Seq(PackUnits)) /\ Len(texts(es)) = Len(es)
  BY <1>2, <1>3
<1>5. texts(t) = Append(texts(es), Text(e))
  <2>1. /\ texts(t) \in Seq(Seq(PackUnits)) /\ Len(texts(t)) = Len(es) + 1
        /\ \A i \in 1..Len(es) + 1 : texts(t)[i] = Text(t[i])
    <3>1. \A i \in 1..Len(t) : Text(t[i]) \in Seq(PackUnits)
      BY <1>2, <1>3, ElementOfSeq
    <3>2. QED  BY <1>3, <3>1
  <2>2. \A i \in 1..Len(es) : texts(es)[i] = Text(es[i])
    OBVIOUS
  <2> HIDE DEF texts
  <2>3. /\ Append(texts(es), Text(e)) \in Seq(Seq(PackUnits))
        /\ Len(Append(texts(es), Text(e))) = Len(es) + 1
        /\ Append(texts(es), Text(e))[Len(es) + 1] = Text(e)
        /\ \A i \in 1..Len(es) : Append(texts(es), Text(e))[i] = texts(es)[i]
    BY <1>2, <1>4, AppendProperties
  <2>4. \A i \in 1..Len(es) + 1 : texts(t)[i] = Append(texts(es), Text(e))[i]
    BY <1>3, <2>1, <2>2, <2>3
  <2>5. QED  BY <2>1, <2>3, <2>4, SeqEqual
<1>6. Text(e) \in Seq(PackUnits)
  BY <1>2
<1> HIDE DEF texts
<1>7. FlattenSeq(texts(es)) \in Seq(PackUnits)
      /\ FlattenSeq(Append(texts(es), Text(e))) = FlattenSeq(texts(es)) \o Text(e)
  BY <1>4, <1>6, FlattenAppend
<1>8. QED  BY <1>1, <1>5, <1>7 DEF t, Text

\* A chunk more adds what was deflated into it.
LEMMA PlainGrows ==
  ASSUME compress, NEW cs \in Seq(Chunked), NEW c \in Chunked
  PROVE  Plain(cs) \in Seq(PackUnits) /\ Plain(Append(cs, c)) = Plain(cs) \o c.data
<1> DEFINE t == Append(cs, c)
           datas(s) == [i \in 1..Len(s) |-> s[i].data]
<1>1. \A s : Plain(s) = FlattenSeq(datas(s))
  BY DEF Plain
<1>2. \A x \in Chunked : x.data \in Seq(PackUnits)
  BY DEF Chunked
<1>3. /\ t \in Seq(Chunked) /\ Len(t) = Len(cs) + 1 /\ t[Len(cs) + 1] = c /\ Len(cs) \in Nat
      /\ \A i \in 1..Len(cs) : t[i] = cs[i] /\ cs[i] \in Chunked
  BY AppendProperties, LenProperties, ElementOfSeq
<1> HIDE DEF t
<1>4. datas(cs) \in Seq(Seq(PackUnits)) /\ Len(datas(cs)) = Len(cs)
  BY <1>2, <1>3
<1>5. datas(t) = Append(datas(cs), c.data)
  <2>1. /\ datas(t) \in Seq(Seq(PackUnits)) /\ Len(datas(t)) = Len(cs) + 1
        /\ \A i \in 1..Len(cs) + 1 : datas(t)[i] = t[i].data
    <3>1. \A i \in 1..Len(t) : t[i].data \in Seq(PackUnits)
      BY <1>2, <1>3, ElementOfSeq
    <3>2. QED  BY <1>3, <3>1
  <2>2. \A i \in 1..Len(cs) : datas(cs)[i] = cs[i].data
    OBVIOUS
  <2> HIDE DEF datas
  <2>3. /\ Append(datas(cs), c.data) \in Seq(Seq(PackUnits))
        /\ Len(Append(datas(cs), c.data)) = Len(cs) + 1
        /\ Append(datas(cs), c.data)[Len(cs) + 1] = c.data
        /\ \A i \in 1..Len(cs) : Append(datas(cs), c.data)[i] = datas(cs)[i]
    BY <1>2, <1>4, AppendProperties
  <2>4. ASSUME NEW i \in 1..Len(cs) + 1
        PROVE  datas(t)[i] = Append(datas(cs), c.data)[i]
    <3>1. CASE i = Len(cs) + 1
      BY <1>3, <2>1, <2>3, <3>1
    <3>2. CASE i # Len(cs) + 1
      <4>1. i \in 1..Len(cs)
        BY <1>3, <3>2
      <4>2. datas(t)[i] = t[i].data /\ t[i] = cs[i] /\ datas(cs)[i] = cs[i].data
        BY <1>3, <2>1, <2>2, <4>1
      <4>3. QED  BY <2>3, <4>1, <4>2
    <3>3. QED  BY <3>1, <3>2
  <2>5. QED  BY <2>1, <2>3, <2>4, SeqEqual
<1>6. c.data \in Seq(PackUnits)
  BY <1>2
<1> HIDE DEF datas
<1>7. FlattenSeq(datas(cs)) \in Seq(PackUnits)
      /\ FlattenSeq(Append(datas(cs), c.data)) = FlattenSeq(datas(cs)) \o c.data
  BY <1>4, <1>6, FlattenAppend
<1>8. QED  BY <1>1, <1>5, <1>7 DEF t

\* What has been written and what is still in the buffers; and what that should
\* be: the entries, of which the last is not padded while its file is read.
Gathered == Plain(out \o chunks) \o tar
Due == IF Filling THEN Stream(Front(packed)) \o Begun(Last(packed)) ELSE Stream(packed)

StreamInv ==
  /\ ppc # "exited" => Gathered = Due
  /\ ended = "ok" => ppc = "exited" /\ Plain(out) = Stream(packed) \o End
  /\ ppc # "new" => packed # <<>> /\ packed[1].item = ScriptItem
  /\ Filling => Len(packed) > 1 /\ Last(packed).item.type = "file"
  /\ ~compress => chunks = <<>>

LEMMA GatheredNext ==
  ASSUME UNCHANGED compress
  PROVE  Gathered' = Plain(out' \o chunks') \o tar'
BY DEF Gathered, Plain

LEMMA SentTyped ==
  ASSUME PackTypeOK
  PROVE  Plain(out \o chunks) \in Seq(PackUnits) /\ tar \in Seq(PackUnits)
<1>1. out \in Seq(Sendable) /\ chunks \in Seq(Sendable) /\ tar \in Seq(PackUnits)
  BY DEF PackTypeOK
<1>2. out \o chunks \in Seq(Sendable)
  BY <1>1, ConcatProperties
<1>3. CASE compress
  <2>1. [kind |-> "chunk", data |-> tar] \in Chunked
    BY <1>1 DEF Chunked
  <2>2. out \o chunks \in Seq(Chunked)
    BY <1>2, <1>3 DEF Sendable
  <2>3. QED  BY <1>1, <1>3, <2>1, <2>2, PlainGrows
<1>4. CASE ~compress
  BY <1>1, <1>2, <1>4 DEF Sendable, Plain
<1>5. QED  BY <1>3, <1>4

\* A flush moves what has been gathered, and changes nothing of it.
LEMMA FlushKeeps ==
  ASSUME PackTypeOK, StreamInv, UNCHANGED compress, Flushed
  PROVE  Gathered' = Gathered /\ (~compress => chunks' = <<>>)
<1> DEFINE sent == Plain(out \o chunks)
<1>1. sent \in Seq(PackUnits) /\ tar \in Seq(PackUnits)
  BY SentTyped
<1>2. Gathered' = Plain(out' \o chunks') \o tar'
  BY GatheredNext
<1>3. CASE UNCHANGED buffers
  BY <1>2, <1>3 DEF buffers, Gathered, StreamInv
<1>4. CASE ~compress /\ out' = out \o tar /\ tar' = <<>> /\ UNCHANGED chunks
  <2>1. chunks = <<>> /\ chunks' = <<>>
    BY <1>4 DEF StreamInv
  <2>2. out \in Seq(PackUnits) /\ out \o tar \in Seq(PackUnits)
    BY <1>1, <1>4, ConcatProperties DEF PackTypeOK, Sendable
  <2>3. out \o chunks = out /\ out' \o chunks' = out \o tar
    BY <1>4, <2>1, <2>2, ConcatEmptySeq
  <2>4. Plain(out \o chunks) = out /\ Plain(out' \o chunks') = out \o tar
    BY <1>4, <2>3 DEF Plain
  <2>5. (out \o tar) \o <<>> = out \o tar
    BY <2>2, ConcatEmptySeq
  <2>6. QED  BY <1>2, <1>4, <2>1, <2>4, <2>5 DEF Gathered
<1>5. CASE compress /\ tar' = <<>>
           /\ \/ out' = out \o Deflated /\ chunks' = <<>>
              \/ chunks' = Deflated /\ UNCHANGED out
  <2> DEFINE c == [kind |-> "chunk", data |-> tar]
  <2>1. /\ out \in Seq(Chunked) /\ chunks \in Seq(Chunked) /\ c \in Chunked
        /\ Deflated = Append(chunks, c) /\ Deflated \in Seq(Chunked)
    BY <1>5, DeflatedTyped
  <2>2. c.data = tar
    OBVIOUS
  <2> HIDE DEF c
  <2>3. out' \o chunks' = out \o Deflated
    <3>1. out \o Deflated \in Seq(Chunked)
      BY <2>1, ConcatProperties
    <3>2. (out \o Deflated) \o <<>> = out \o Deflated
      BY <3>1, ConcatEmptySeq
    <3>3. QED  BY <1>5, <3>2
  <2>4. out \o Deflated = Append(out \o chunks, c)
    <3>1. <<c>> \in Seq(Chunked) /\ out \o chunks \in Seq(Chunked)
      BY <2>1, ConcatProperties
    <3>2. Deflated = chunks \o <<c>> /\ Append(out \o chunks, c) = (out \o chunks) \o <<c>>
      BY <2>1, <3>1, AppendIsConcat
    <3>3. (out \o chunks) \o <<c>> = out \o (chunks \o <<c>>)
      BY <2>1, <3>1, ConcatAssociative
    <3>4. QED  BY <3>2, <3>3
  <2>5. Plain(Append(out \o chunks, c)) = sent \o tar
    <3>1. out \o chunks \in Seq(Chunked)
      BY <2>1, ConcatProperties
    <3>2. Plain(Append(out \o chunks, c)) = Plain(out \o chunks) \o c.data
      BY <1>5, <2>1, <3>1, PlainGrows
    <3>3. QED  BY <2>2, <3>2
  <2>6. sent \o tar \in Seq(PackUnits)
    BY <1>1, ConcatProperties
  <2>7. (sent \o tar) \o <<>> = sent \o tar
    BY <2>6, ConcatEmptySeq
  <2>8. QED  BY <1>2, <1>5, <2>3, <2>4, <2>5, <2>7 DEF Gathered
<1>6. QED  BY <1>3, <1>4, <1>5 DEF Flushed

\* What goes into the buffer is gathered.
LEMMA GatheredGrows ==
  ASSUME PackTypeOK, UNCHANGED <<compress, chunks, out>>, NEW more \in Seq(PackUnits),
         tar' = tar \o more
  PROVE  Gathered' = Gathered \o more /\ Gathered \in Seq(PackUnits)
<1>1. Plain(out \o chunks) \in Seq(PackUnits) /\ tar \in Seq(PackUnits)
  BY SentTyped
<1>2. Gathered' = Plain(out \o chunks) \o (tar \o more)
  <2>1. compress' = compress /\ chunks' = chunks /\ out' = out
    OBVIOUS
  <2>2. Gathered' = Plain(out' \o chunks') \o tar'
    BY <2>1, GatheredNext
  <2>3. Plain(out' \o chunks') = Plain(out \o chunks)
    BY <2>1
  <2>4. QED  BY <2>2, <2>3
<1>3. Plain(out \o chunks) \o (tar \o more) = (Plain(out \o chunks) \o tar) \o more
  <2>1. PICK sent \in Seq(PackUnits), t \in Seq(PackUnits) : sent = Plain(out \o chunks) /\ t = tar
    BY <1>1
  <2>2. sent \o (t \o more) = (sent \o t) \o more
    BY ConcatAssociative, SMTT(30)
  <2>3. QED  BY <2>1, <2>2
<1>4. QED  BY <1>1, <1>2, <1>3, ConcatProperties DEF Gathered

LEMMA SizedSame ==
  ASSUME NEW a, NEW b, NEW s, a.type = b.type, a.name = b.name, a.link = b.link
  PROVE  WriteSized(a, s) = WriteSized(b, s)
<1>1. FullName(a) = FullName(b)
  BY DEF FullName, NeedsSep
<1>2. NameFits(a) = NameFits(b) /\ LinkFits(a) = LinkFits(b)
  BY <1>1 DEF NameFits, LinkFits
<1>3. LongName(a) = LongName(b) /\ LongLink(a) = LongLink(b)
  BY <1>1 DEF LongName, LongLink
<1>4. QED  BY <1>1, <1>2, <1>3 DEF WriteSized

LEMMA StreamFilled ==
  ASSUME PackTypeOK, StreamInv, Fills
  PROVE  StreamInv'
<1>1. UNCHANGED <<compress, ended>>
  BY DEF Fills, OpenFile, FlushWorks, PackReads, ReadAgain, world
<1>2. Filling /\ Filling' /\ ppc' # "exited" /\ ppc' # "new" /\ ppc # "exited" /\ ppc # "new"
  BY DEF Fills, OpenFile, FlushWorks, PackReads, ReadAgain, Filling, Turns
<1>3. Gathered = Stream(Front(packed)) \o Begun(Last(packed))
  BY <1>2 DEF StreamInv, Due
<1>4. CASE OpenFile \/ FlushWorks \/ ReadAgain
  <2>1. UNCHANGED packed /\ Flushed
    BY <1>4, FlushIs DEF OpenFile, FlushWorks, ReadAgain, Flushed
  <2>2. Gathered' = Gathered /\ (~compress => chunks' = <<>>)
    BY <1>1, <2>1, FlushKeeps
  <2>3. Due' = Due
    BY <1>2, <2>1 DEF Due
  <2>4. QED  BY <1>1, <1>2, <2>1, <2>2, <2>3 DEF StreamInv
<1>5. CASE PackReads
  <2>1. PICK read \in Seq(FileBytes) :
          /\ tar' = tar \o read
          /\ packed' = [packed EXCEPT ![Len(packed)].item.contents = @ \o read]
    BY <1>5, ReadIs
  <2>2. packed \in Seq(Packed) /\ packed # <<>> /\ Len(packed) > 1 /\ Len(packed) \in Nat
    BY <1>2, LenProperties DEF PackTypeOK, StreamInv
  <2> DEFINE f == Front(packed)
             e == Last(packed)
             l == Longer(e, read)
  <2>3. /\ packed' = Append(f, l) /\ l \in Packed /\ l.size = e.size
        /\ l.item = [type |-> e.item.type, name |-> e.item.name,
                     contents |-> e.item.contents \o read, link |-> e.item.link]
        /\ f \in Seq(Packed) /\ e \in Packed /\ Len(f) = Len(packed) - 1 /\ f[1] = packed[1]
    <3>1. /\ f \in Seq(Packed) /\ e \in Packed /\ Len(f) = Len(packed) - 1
          /\ \A i \in 1..Len(packed) - 1 : f[i] = packed[i]
      BY <2>2, EndOf
    <3>2. f[1] = packed[1]
      BY <2>2, <3>1
    <3>3. /\ [packed EXCEPT ![Len(packed)].item.contents = @ \o read] = Append(f, l)
          /\ l \in Packed /\ l.size = e.size
          /\ l.item = [type |-> e.item.type, name |-> e.item.name,
                       contents |-> e.item.contents \o read, link |-> e.item.link]
      BY <2>2, ReadEntry
    <3> HIDE DEF f, e, l
    <3>4. QED  BY <2>1, <3>1, <3>2, <3>3
  <2> HIDE DEF f, e, l
  <2>4. packed' \in Seq(Packed) /\ packed' # <<>> /\ Len(packed') = Len(packed) /\ packed'[1] = f[1]
        /\ packed'[Len(packed)] = l
    <3>1. /\ Append(f, l) \in Seq(Packed) /\ Append(f, l) # <<>> /\ Len(Append(f, l)) = Len(f) + 1
          /\ \A i \in 1..Len(f) : Append(f, l)[i] = f[i]
          /\ Append(f, l)[Len(f) + 1] = l
      BY <2>3, AppendProperties
    <3>2. 1 \in 1..Len(f) /\ Len(f) + 1 = Len(packed)
      BY <2>2, <2>3
    <3>3. QED  BY <2>3, <3>1, <3>2
  <2>5. Front(packed') = f /\ Last(packed') = l
    <3>1. packed' = Append(Front(packed'), Last(packed')) /\ Front(packed') \in Seq(Packed)
          /\ Last(packed') \in Packed
      BY <2>4, EndOf
    <3>2. PICK g, m : g = Front(packed') /\ m = Last(packed')
      OBVIOUS
    <3>3. Append(g, m) = Append(f, l) /\ g \in Seq(Packed) /\ m \in Packed
      BY <2>3, <3>1, <3>2
    <3>4. g = f /\ m = l
      BY <2>3, <3>3, AppendInjective
    <3>5. QED  BY <3>2, <3>4
  <2>6. Begun(l) = Begun(e) \o read
    <3>1. WriteSized(l.item, l.size) = WriteSized(e.item, e.size)
      BY <2>3, SizedSame
    <3>2. /\ WriteSized(e.item, e.size) \in Seq(PackUnits) /\ e.item.contents \in Seq(PackUnits)
          /\ read \in Seq(PackUnits)
      BY <2>3, EntryTyped, BytesAreUnits
    <3>3. l.item.contents = e.item.contents \o read
      BY <2>3
    <3>4. WriteSized(e.item, e.size) \o (e.item.contents \o read)
            = (WriteSized(e.item, e.size) \o e.item.contents) \o read
      <4>1. PICK a \in Seq(PackUnits), c \in Seq(PackUnits) :
              a = WriteSized(e.item, e.size) /\ c = e.item.contents
        BY <3>2
      <4>2. read \in Seq(PackUnits)
        BY <3>2
      <4>3. a \o (c \o read) = (a \o c) \o read
        BY <4>2, ConcatAssociative
      <4>4. QED  BY <4>1, <4>3
    <3>5. QED  BY <3>1, <3>3, <3>4 DEF Begun
  <2>7. Gathered' = Gathered \o read
    <3>1. read \in Seq(PackUnits) /\ UNCHANGED <<chunks, out>>
      BY <1>5, BytesAreUnits DEF PackReads
    <3>2. QED  BY <1>1, <2>1, <3>1, GatheredGrows
  <2>8. Gathered' = Stream(f) \o Begun(l)
    <3>1. Stream(f) \in Seq(PackUnits) /\ Begun(e) \in Seq(PackUnits) /\ read \in Seq(PackUnits)
      BY <2>3, StreamGrows, EntryTyped, BytesAreUnits
    <3>2. (Stream(f) \o Begun(e)) \o read = Stream(f) \o (Begun(e) \o read)
      BY <3>1, ConcatAssociative, SMTT(30)
    <3>3. QED  BY <1>3, <2>6, <2>7, <3>2 DEF f, e
  <2>9. Gathered' = Due'
    BY <1>2, <2>5, <2>8 DEF Due
  <2>10. UNCHANGED chunks
    BY <1>5 DEF PackReads
  <2>11. Last(packed').item.type = e.item.type /\ e.item.type = "file"
    BY <1>2, <2>3, <2>5 DEF StreamInv, e
  <2>12. ended # "ok"
    BY <1>2 DEF StreamInv
  <2>13. packed'[1].item = ScriptItem
    BY <1>2, <2>3, <2>4 DEF StreamInv
  <2>14. QED
    BY <1>1, <1>2, <2>2, <2>4, <2>9, <2>10, <2>11, <2>12, <2>13 DEF StreamInv
<1>6. QED  BY <1>4, <1>5 DEF Fills

LEMMA NothingYet == Stream(<<>>) = <<>> /\ Plain(<<>>) = <<>>
<1>1. FlattenSeq(<<>>) = <<>> /\ Len(<<>>) = 0
  BY DEF FlattenSeq
<1>2. [i \in 1..0 |-> <<>>[i].data] = <<>>
  OBVIOUS
<1>3. [i \in 1..0 |-> WriteSized(<<>>[i].item, <<>>[i].size) \o <<>>[i].item.contents
        \o IF <<>>[i].item.type = "file" THEN Padding(<<>>[i].size) ELSE <<>>] = <<>>
  OBVIOUS
<1>4. QED  BY <1>1, <1>2, <1>3 DEF Stream, Plain

\* An entry that is not a file's is written when its header is.
LEMMA StreamPacked ==
  ASSUME PackTypeOK, StreamInv, Packs
  PROVE  StreamInv'
<1> DEFINE e == [path |-> visit, item |-> ItemOf, size |-> SizeOf]
           w == WriteSized(ItemOf, SizeOf)
<1>1. /\ UNCHANGED <<compress, chunks, out, ended>> /\ ppc = "visit" /\ Knows
      /\ tar' = tar \o w /\ packed' = Append(packed, e) /\ ppc' # "new" /\ ppc' # "exited"
  BY DEF Packs, VisitFile, VisitLink, VisitDir, world, Knows, Packable, PackHeader, Back, Turns
<1>2. e \in Packed /\ w \in Seq(PackUnits) /\ packed \in Seq(Packed)
  BY <1>1, ItemTyped DEF PackTypeOK
<1>3. e.item.type = entry.type /\ e.item.contents = <<>> /\ e.item = ItemOf /\ e.size = SizeOf
  BY DEF ItemOf
<1>4. Begun(e) = w
  <2>1. w \o <<>> = w
    BY <1>2, ConcatEmptySeq
  <2>2. QED  BY <1>3, <2>1 DEF Begun
<1> HIDE DEF e, w
<1>5. packed # <<>> /\ packed[1].item = ScriptItem /\ Len(packed) \in Nat /\ Len(packed) > 0
  BY <1>1, <1>2, EmptySeq DEF StreamInv
<1>6. /\ packed' \in Seq(Packed) /\ packed' # <<>> /\ Len(packed') = Len(packed) + 1
      /\ packed'[1] = packed[1] /\ packed'[Len(packed) + 1] = e
  <2>1. /\ Append(packed, e) \in Seq(Packed) /\ Append(packed, e) # <<>>
        /\ Len(Append(packed, e)) = Len(packed) + 1
        /\ \A i \in 1..Len(packed) : Append(packed, e)[i] = packed[i]
        /\ Append(packed, e)[Len(packed) + 1] = e
    BY <1>2, AppendProperties
  <2>2. 1 \in 1..Len(packed)
    BY <1>5
  <2>3. QED  BY <1>1, <2>1, <2>2
<1>7. Front(packed') = packed /\ Last(packed') = e
  <2>1. packed' = Append(Front(packed'), Last(packed')) /\ Front(packed') \in Seq(Packed)
        /\ Last(packed') \in Packed
    BY <1>6, EndOf
  <2>2. PICK g, m : g = Front(packed') /\ m = Last(packed')
    OBVIOUS
  <2>3. Append(g, m) = Append(packed, e) /\ g \in Seq(Packed) /\ m \in Packed
    BY <1>1, <2>1, <2>2
  <2>4. g = packed /\ m = e
    BY <1>2, <2>3, AppendInjective
  <2>5. QED  BY <2>2, <2>4
<1>8. Gathered' = Stream(packed) \o w
  <2>1. Gathered = Stream(packed)
    BY <1>1 DEF StreamInv, Due, Filling
  <2>2. QED  BY <1>1, <1>2, <2>1, GatheredGrows
<1>9. CASE VisitFile
  <2>1. Filling' /\ entry.type = "file"
    BY <1>9 DEF VisitFile, Turns, Filling
  <2>2. Gathered' = Due'
    BY <1>4, <1>7, <1>8, <2>1 DEF Due
  <2>3. Len(packed') > 1 /\ Last(packed').item.type = "file"
    BY <1>3, <1>5, <1>6, <1>7, <2>1
  <2>4. QED  BY <1>1, <1>5, <1>6, <2>2, <2>3 DEF StreamInv
<1>10. CASE VisitLink \/ VisitDir
  <2>1. ~Filling' /\ entry.type # "file"
    BY <1>10 DEF VisitLink, VisitDir, Turns, Back, Filling
  <2>2. Stream(packed') = Stream(packed) \o w
    <3>1. Rest(e) = <<>>
      BY <1>3, <2>1 DEF Rest
    <3>2. w \o <<>> = w
      BY <1>2, ConcatEmptySeq
    <3>3. Stream(Append(packed, e)) = Stream(packed) \o (Begun(e) \o Rest(e))
      BY <1>2, StreamGrows
    <3>4. QED  BY <1>1, <1>4, <3>1, <3>2, <3>3
  <2>3. Gathered' = Due'
    BY <1>8, <2>1, <2>2 DEF Due
  <2>4. QED  BY <1>1, <1>5, <1>6, <2>1, <2>3 DEF StreamInv
<1>11. QED  BY <1>9, <1>10 DEF Packs

LEMMA StreamWalked ==
  ASSUME PackTypeOK, StreamInv, Walks \/ EditFile
  PROVE  StreamInv'
<1>1. CASE Walks
  <2>1. UNCHANGED <<compress, tar, chunks, out, packed, ended>>
    BY <1>1 DEF Walks, TakeArgument, NextEntry, LeaveDir, GivesUp, world, buffers
  <2>2. ~Filling /\ ~Filling' /\ ppc # "exited" /\ ppc' # "exited" /\ ppc # "new"
    BY <1>1 DEF Walks, TakeArgument, NextEntry, LeaveDir, GivesUp, GiveUp, Turns, Filling
  <2>3. Gathered' = Gathered /\ Due' = Due
    BY <2>1, <2>2 DEF Gathered, Due, Plain
  <2>4. QED  BY <2>1, <2>2, <2>3 DEF StreamInv
<1>2. CASE EditFile
  <2>1. UNCHANGED <<compress, ppc, tar, chunks, out, packed, ended>>
    BY <1>2 DEF EditFile, buffers
  <2>2. Gathered' = Gathered /\ Due' = Due /\ Filling' = Filling
    BY <2>1 DEF Gathered, Due, Plain, Filling
  <2>3. Plain(out)' = Plain(out)
    BY <2>1 DEF Plain
  <2>4. QED  BY <2>1, <2>2, <2>3 DEF StreamInv
<1>3. QED  BY <1>1, <1>2

LEMMA StreamStarted ==
  ASSUME PackTypeOK, StreamInv, PackScript
  PROVE  StreamInv'
<1> DEFINE e == [path |-> <<>>, item |-> ScriptItem, size |-> Len(Script)]
<1>1. /\ UNCHANGED <<compress, chunks, out, ended>> /\ ppc = "new" /\ ppc' = "args"
      /\ tar' = WriteItem(ScriptItem) /\ packed' = <<e>>
  BY DEF PackScript, world, Turns
<1>2. packed = <<>> /\ ~Filling
  BY <1>1 DEF PackTypeOK, Filling
<1>3. Plain(out \o chunks) = <<>>
  <2>1. Plain(out \o chunks) \o tar = <<>>
    BY <1>1, <1>2, NothingYet DEF StreamInv, Due, Gathered
  <2>2. PICK sent \in Seq(PackUnits), t \in Seq(PackUnits) : sent = Plain(out \o chunks) /\ t = tar
    BY SentTyped
  <2>3. sent \o t = <<>>
    BY <2>1, <2>2
  <2>4. sent = <<>>
    BY <2>3, ConcatEqualIffEmpty
  <2>5. QED  BY <2>2, <2>4
<1>4. Gathered' = WriteItem(ScriptItem)
  <2>1. compress' = compress /\ chunks' = chunks /\ out' = out
    BY <1>1
  <2>2. Gathered' = Plain(out' \o chunks') \o tar'
    BY <2>1, GatheredNext
  <2>3. Plain(out' \o chunks') = <<>>
    BY <1>3, <2>1
  <2>4. <<>> \o WriteItem(ScriptItem) = WriteItem(ScriptItem)
    BY ScriptTyped, ConcatEmptySeq
  <2>5. QED  BY <1>1, <2>2, <2>3, <2>4
<1>5. e \in Packed /\ e.item = ScriptItem /\ e.size = Len(Script)
      /\ ScriptItem.type = "file" /\ ScriptItem.contents = Script
  BY ScriptTyped DEF ScriptItem
<1> HIDE DEF e
<1>6. Begun(e) \o Rest(e) = WriteItem(ScriptItem)
  BY <1>5 DEF Begun, Rest, WriteItem, WriteHeader
<1>7. Stream(<<e>>) = WriteItem(ScriptItem)
  <2>1. <<>> \in Seq(Packed) /\ Append(<<>>, e) = <<e>>
    BY <1>5, EmptySeq
  <2>2. Stream(Append(<<>>, e)) = Stream(<<>>) \o (Begun(e) \o Rest(e))
    BY <1>5, <2>1, StreamGrows
  <2>3. <<>> \o WriteItem(ScriptItem) = WriteItem(ScriptItem)
    BY ScriptTyped, ConcatEmptySeq
  <2>4. QED  BY <1>6, <2>1, <2>2, <2>3, NothingYet
<1>8. ~Filling' /\ Due' = Stream(packed')
  BY <1>1 DEF Filling, Due
<1>9. packed' # <<>> /\ packed'[1].item = ScriptItem
  BY <1>1, <1>5
<1>10. Gathered' = Due'
  BY <1>1, <1>4, <1>7, <1>8
<1>11. QED  BY <1>1, <1>8, <1>9, <1>10 DEF StreamInv

LEMMA StreamPadded ==
  ASSUME PackTypeOK, StreamInv, FileEnds
  PROVE  StreamInv'
<1> DEFINE f == Front(packed)
           e == Last(packed)
           p == Padding(e.size)
<1>1. /\ UNCHANGED <<compress, chunks, out, ended, packed>> /\ ppc = "read"
      /\ tar' = tar \o p /\ ppc' \in {"args", "dir"}
  BY DEF FileEnds, world, Turns, Back
<1>2. Filling /\ ~Filling' /\ packed \in Seq(Packed) /\ packed # <<>> /\ e.item.type = "file"
  BY <1>1 DEF Filling, PackTypeOK, StreamInv
<1>3. f \in Seq(Packed) /\ e \in Packed /\ packed = Append(f, e)
  BY <1>2, EndOf
<1>4. Gathered = Stream(f) \o Begun(e)
  BY <1>1, <1>2 DEF StreamInv, Due
<1>5. Rest(e) = p
  BY <1>2 DEF Rest
<1> HIDE DEF f, e, p
<1>6. Begun(e) \in Seq(PackUnits) /\ p \in Seq(PackUnits) /\ Stream(f) \in Seq(PackUnits)
  BY <1>3, <1>5, EntryTyped, StreamGrows
<1>7. Gathered' = Gathered \o p
  BY <1>1, <1>6, GatheredGrows
<1>8. (Stream(f) \o Begun(e)) \o p = Stream(f) \o (Begun(e) \o p)
  <2>1. PICK a \in Seq(PackUnits), b \in Seq(PackUnits) : a = Stream(f) /\ b = Begun(e)
    BY <1>6
  <2>2. p \in Seq(PackUnits)
    BY <1>6
  <2>3. (a \o b) \o p = a \o (b \o p)
    BY <2>2, ConcatAssociative
  <2>4. QED  BY <2>1, <2>3
<1>9. Stream(packed) = Stream(f) \o (Begun(e) \o p)
  BY <1>3, <1>5, StreamGrows
<1>10. Gathered' = Due'
  BY <1>1, <1>2, <1>4, <1>7, <1>8, <1>9 DEF Due
<1>11. QED  BY <1>1, <1>2, <1>10 DEF StreamInv

LEMMA StreamFinished ==
  ASSUME PackTypeOK, StreamInv, PackFinish
  PROVE  StreamInv'
<1> DEFINE whole == tar \o End
           last == [kind |-> "chunk", data |-> whole]
           sent == Plain(out \o chunks)
<1>1. /\ UNCHANGED <<compress, packed>> /\ ppc = "args" /\ ppc' = "exited"
      /\ out' = out \o (IF compress THEN Append(chunks, last) ELSE whole) /\ chunks' = <<>>
  BY DEF PackFinish, world, Turns
<1>2. Gathered = Stream(packed)
  BY <1>1 DEF StreamInv, Due, Filling
<1>3. sent \in Seq(PackUnits) /\ tar \in Seq(PackUnits)
  BY SentTyped
<1>4. End \in Seq(PackUnits)
  <2>1. PICK k \in Nat : k = 2 * Block
    BY TarAssumption
  <2>2. [i \in 1..k |-> Zero] \in Seq(PackUnits)
    BY DEF PackUnits
  <2>3. QED  BY <2>1, <2>2 DEF End, Zeros
<1>5. whole \in Seq(PackUnits)
  BY <1>3, <1>4, ConcatProperties
<1>6. sent \o whole = Stream(packed) \o End
  <2>1. PICK s \in Seq(PackUnits), t \in Seq(PackUnits), n \in Seq(PackUnits) :
          s = sent /\ t = tar /\ n = End
    BY <1>3, <1>4
  <2>2. s \o (t \o n) = (s \o t) \o n
    BY ConcatAssociative, SMTT(30)
  <2>3. QED  BY <1>2, <2>1, <2>2 DEF Gathered
<1>7. Plain(out') = sent \o whole
  <2>1. CASE compress
    <3>1. last \in Chunked /\ last.data = whole
      BY <1>5 DEF Chunked
    <3>2. out \in Seq(Chunked) /\ chunks \in Seq(Chunked)
      BY <2>1 DEF PackTypeOK, Sendable
    <3> HIDE DEF last, whole
    <3>3. <<last>> \in Seq(Chunked) /\ out \o chunks \in Seq(Chunked)
      BY <3>1, <3>2, ConcatProperties
    <3>4. out \o Append(chunks, last) = Append(out \o chunks, last)
      <4>1. Append(chunks, last) = chunks \o <<last>>
            /\ Append(out \o chunks, last) = (out \o chunks) \o <<last>>
        BY <3>1, <3>2, <3>3, AppendIsConcat
      <4>2. (out \o chunks) \o <<last>> = out \o (chunks \o <<last>>)
        BY <3>2, <3>3, ConcatAssociative
      <4>3. QED  BY <4>1, <4>2
    <3>5. Plain(Append(out \o chunks, last)) = Plain(out \o chunks) \o last.data
      BY <2>1, <3>1, <3>3, PlainGrows
    <3>6. QED  BY <1>1, <2>1, <3>1, <3>4, <3>5
  <2>2. CASE ~compress
    <3>1. chunks = <<>> /\ out \in Seq(PackUnits)
      BY <2>2 DEF StreamInv, PackTypeOK, Sendable
    <3>2. out \o chunks = out
      BY <3>1, ConcatEmptySeq
    <3>3. sent = out
      BY <2>2, <3>2 DEF Plain
    <3>4. QED  BY <1>1, <2>2, <3>3 DEF Plain
  <2>3. QED  BY <2>1, <2>2
<1>8. Plain(out)' = Plain(out')
  <2>1. compress' = compress
    BY <1>1
  <2>2. QED  BY <2>1 DEF Plain
<1>9. ~Filling' /\ packed # <<>> /\ packed[1].item = ScriptItem
  BY <1>1 DEF Filling, StreamInv
<1>10. Plain(out)' = Stream(packed') \o End
  BY <1>1, <1>6, <1>7, <1>8
<1>11. QED  BY <1>1, <1>9, <1>10 DEF StreamInv

-----------------------------------------------------------------------------
\* A path is an entry of a directory.
Within(d, p) == IsPrefix(d, p) /\ Len(p) = Len(d) + 1

\* Where the walk is: what is left of the arguments, the one that is packed, and
\* that the directories that are open, and the path that is packed, are below it.
Placed ==
  /\ Len(args) <= Len(Arguments)
  /\ \A i \in 1..Len(args) : args[i] = Arguments[Len(Arguments) - Len(args) + i]
  /\ ppc = "new" => args = Arguments
  /\ ppc = "exited" => args = <<>>
  /\ Walking => Len(args) < Len(Arguments) /\ top = Arguments[Len(Arguments) - Len(args)]
  /\ ppc \in {"visit", "open", "flush", "read"} => IsPrefix(top, visit)
  /\ ppc = "visit" => IF stack = <<>> THEN visit = top
                      ELSE visit \in DOMAIN tree /\ Within(Last(stack).dir, visit)
  /\ \A k \in 1..Len(stack) :
       IsPrefix(top, stack[k].dir) /\ \A q \in stack[k].left : Within(stack[k].dir, q)

LEMMA EntriesAre ==
  ASSUME PackTypeOK, NEW d \in Seq(Letters), NEW p \in DOMAIN tree
  PROVE  /\ p \in Seq(Letters)
         /\ p \in Entries(d) <=> Within(d, p)
<1>1. p \in Seq(Letters)
  BY DEF PackTypeOK, TreeOK
<1>2. Len(d) \in Nat /\ Len(p) \in Nat /\ SubSeq(d, 1, Len(d)) = d
  BY <1>1, LenProperties, SubSeqFull
<1>3. QED  BY <1>1, <1>2 DEF Entries, IsPrefix, Within

LEMMA ArgumentsTyped ==
  /\ Arguments \in Seq(Seq(Letters)) /\ Len(Arguments) \in Nat
  /\ \A i \in 1..Len(Arguments) :
       Arguments[i] \in Seq(Letters) /\ Arguments[i] # <<>> /\ Len(Arguments[i]) > 0
<1>1. /\ Arguments \in Seq(Range(Arguments)) /\ Len(Arguments) \in Nat
      /\ \A i \in 1..Len(Arguments) : Arguments[i] \in Range(Arguments)
  BY PackAssumption, LenProperties, ElementOfSeq DEF IsSequence
<1>2. ASSUME NEW a \in Range(Arguments)
      PROVE  a \in Seq(Letters) /\ a # <<>>
  <2>1. PICK i \in 1..Len(Arguments) : a = Arguments[i]
    BY <1>1, RangeEquality
  <2>2. a \in Seq(Range(a)) /\ a # <<>>
    BY <2>1, PackAssumption DEF IsSequence
  <2>3. Range(a) \subseteq Letters
    BY DEF Letters
  <2>4. QED  BY <2>2, <2>3, SeqMonotonic
<1>3. Arguments \in Seq(Seq(Letters))
  <2>1. Range(Arguments) \subseteq Seq(Letters)
    BY <1>2
  <2>2. QED  BY <1>1, <2>1, SeqMonotonic
<1>4. \A i \in 1..Len(Arguments) :
        Arguments[i] \in Seq(Letters) /\ Arguments[i] # <<>> /\ Len(Arguments[i]) > 0
  BY <1>1, <1>2, EmptySeq
<1>5. QED  BY <1>1, <1>3, <1>4

\* Steps that move on in a file keep the place of the walk.
LEMMA PlacedStays ==
  ASSUME PackTypeOK, Placed, UNCHANGED <<args, top, stack, visit>>, DOMAIN tree' = DOMAIN tree,
         ppc' # "new" \/ ppc = "new", ppc' # "exited" \/ args = <<>>, Walking' => Walking,
         ppc' = "visit" => ppc = "visit", Filling' => Filling \/ ppc = "visit"
  PROVE  Placed'
<1>1. args' = args /\ top' = top /\ stack' = stack /\ visit' = visit
  OBVIOUS
<1>2. Last(stack)' = Last(stack)
  BY <1>1 DEF Last
<1>3. ppc' = "new" => ppc = "new"
  OBVIOUS
<1>4. ppc' \in {"visit", "open", "flush", "read"} => ppc \in {"visit", "open", "flush", "read"}
  BY DEF Filling
<1>5. QED  BY <1>1, <1>2, <1>3, <1>4 DEF Placed

LEMMA PlacedWalked ==
  ASSUME PackTypeOK, Placed, Walks
  PROVE  Placed'
<1>1. CASE TakeArgument
  <2> DEFINE n == Len(args)
             m == Len(Arguments)
  <2>1. /\ args \in Seq(Seq(Letters)) /\ args # <<>> /\ stack' = <<>> /\ ppc' = "visit"
        /\ args' = Tail(args) /\ top' = Head(args) /\ visit' = Head(args)
    BY <1>1 DEF TakeArgument, PackTypeOK, Turns
  <2>2. /\ n \in Nat /\ n > 0 /\ m \in Nat /\ n <= m /\ Len(args') = n - 1
        /\ \A i \in 1..n - 1 : args'[i] = args[i + 1]
        /\ \A i \in 1..n : args[i] = Arguments[m - n + i]
    BY <2>1, EmptySeq, HeadTailProperties, ArgumentsTyped DEF Placed
  <2>3. Head(args) = args[1] /\ Head(args) \in Seq(Letters)
    BY <2>1, HeadTailProperties
  <2>4. args[1] = Arguments[m - (n - 1)]
    <3>1. 1 \in 1..n /\ m - n + 1 = m - (n - 1)
      BY <2>2
    <3>2. QED  BY <2>2, <3>1
  <2>5. \A i \in 1..n - 1 : args'[i] = Arguments[m - (n - 1) + i]
    <3> TAKE i \in 1..n - 1
    <3>1. i + 1 \in 1..n /\ m - n + (i + 1) = m - (n - 1) + i
      BY <2>2
    <3>2. QED  BY <2>2, <3>1
  <2>6. IsPrefix(top', visit')
    BY <2>1, <2>3, PrefixSame
  <2>7. n - 1 <= m /\ n - 1 < m
    BY <2>2
  <2> HIDE DEF n, m
  <2>8. /\ Len(args') <= m /\ \A i \in 1..Len(args') : args'[i] = Arguments[m - Len(args') + i]
        /\ Len(args') < m /\ top' = Arguments[m - Len(args')]
    BY <2>1, <2>2, <2>3, <2>4, <2>5, <2>7
  <2>9. \A k \in 1..Len(stack') : FALSE
    BY <2>1, EmptySeq
  <2>10. QED  BY <2>1, <2>6, <2>8, <2>9 DEF Placed, m
<1>2. CASE NextEntry
  <2>1. PICK p \in Last(stack).left :
          /\ visit' = p /\ p \in DOMAIN tree /\ p \in Seq(Letters)
          /\ stack' \in Seq(Frames) /\ Len(stack') = Len(stack) /\ stack # <<>>
          /\ \A k \in 1..Len(stack) : stack'[k].dir = stack[k].dir
          /\ \A k \in 1..Len(stack) : k # Len(stack) => stack'[k].left = stack[k].left
          /\ stack'[Len(stack)].left = stack[Len(stack)].left \ {p}
    BY <1>2, EntryIs
  <2>2. args' = args /\ top' = top /\ tree' = tree /\ ppc' = "visit" /\ ppc = "dir"
    BY <1>2 DEF NextEntry, Turns, world
  <2>3. stack \in Seq(Frames)
    BY DEF PackTypeOK, Frames
  <2> DEFINE n == Len(stack)
             d == stack[n].dir
  <2>4. n \in 1..n /\ n \in Nat /\ Last(stack) = stack[n] /\ d \in Seq(Letters)
    <3>1. stack # <<>>
      BY <2>1
    <3>2. n \in 1..n /\ n \in Nat /\ Last(stack) = stack[n] /\ Last(stack) \in Frames
      BY <2>3, <3>1, EndOf
    <3>3. stack[n] \in Frames
      BY <3>2
    <3>4. QED  BY <3>2, <3>3 DEF Frames
  <2>5. stack' # <<>> /\ Last(stack').dir = d
    <3>1. stack' # <<>>
      BY <2>1, <2>3, EmptySeq
    <3>2. Last(stack') = stack'[n]
      BY <2>1 DEF Last
    <3>3. stack'[n].dir = d
      BY <2>1, <2>4
    <3>4. QED  BY <3>1, <3>2, <3>3
  <2>6. Within(d, p) /\ IsPrefix(top, d)
    <3>1. p \in stack[n].left
      BY <2>4
    <3>2. QED  BY <2>4, <3>1 DEF Placed
  <2>7. IsPrefix(top, p)
    <3>1. top \in Seq(Letters) /\ p \in Seq(Letters) /\ d \in Seq(Letters)
      BY <2>1, <2>4 DEF PackTypeOK
    <3>2. QED  BY <2>6, <3>1, PrefixTrans DEF Within
  <2> HIDE DEF d
  <2>8. ASSUME NEW k \in 1..Len(stack')
        PROVE  IsPrefix(top', stack'[k].dir) /\ \A q \in stack'[k].left : Within(stack'[k].dir, q)
    <3>1. k \in 1..n /\ stack'[k].dir = stack[k].dir
      BY <2>1
    <3>2. stack'[k].left \subseteq stack[k].left
      <4>1. CASE k = n
        BY <2>1, <4>1
      <4>2. CASE k # n
        BY <2>1, <3>1, <4>2
      <4>3. QED  BY <4>1, <4>2
    <3>3. IsPrefix(top, stack[k].dir) /\ \A q \in stack[k].left : Within(stack[k].dir, q)
      BY <3>1 DEF Placed
    <3>4. QED  BY <2>2, <3>1, <3>2, <3>3
  <2>9. visit' \in DOMAIN tree' /\ Within(Last(stack').dir, visit') /\ IsPrefix(top', visit')
    BY <2>1, <2>2, <2>5, <2>6, <2>7
  <2>10. /\ Len(args) <= Len(Arguments)
         /\ \A i \in 1..Len(args) : args[i] = Arguments[Len(Arguments) - Len(args) + i]
         /\ Len(args) < Len(Arguments) /\ top = Arguments[Len(Arguments) - Len(args)]
    BY <2>2 DEF Placed, Walking
  <2>11. QED  BY <2>2, <2>5, <2>8, <2>9, <2>10 DEF Placed
<1>3. CASE LeaveDir \/ GivesUp
  <2>1. args' = args /\ top' = top /\ visit' = visit /\ ppc' \in {"args", "dir"} /\ Walking
    BY <1>3 DEF LeaveDir, GivesUp, GiveUp, Turns, Walking
  <2>2. \A k \in 1..Len(stack') : k \in 1..Len(stack) /\ stack'[k] = stack[k]
    <3>1. CASE GivesUp
      <4>1. stack' = <<>>
        BY <3>1 DEF GivesUp, GiveUp
      <4>2. QED  BY <4>1, EmptySeq
    <3>2. CASE LeaveDir
      <4>1. stack' = Front(stack) /\ stack # <<>> /\ stack \in Seq(Frames)
        BY <3>2 DEF LeaveDir, PackTypeOK, Frames
      <4>2. /\ Len(Front(stack)) = Len(stack) - 1 /\ Len(stack) \in Nat
            /\ \A i \in 1..Len(stack) - 1 : Front(stack)[i] = stack[i]
        BY <4>1, EndOf
      <4>3. QED  BY <4>1, <4>2
    <3>3. QED  BY <1>3, <3>1, <3>2
  <2>3. ASSUME NEW k \in 1..Len(stack')
        PROVE  IsPrefix(top', stack'[k].dir) /\ \A q \in stack'[k].left : Within(stack'[k].dir, q)
    <3>1. k \in 1..Len(stack) /\ stack'[k] = stack[k]
      BY <2>2
    <3>2. IsPrefix(top, stack[k].dir) /\ \A q \in stack[k].left : Within(stack[k].dir, q)
      BY <3>1 DEF Placed
    <3>3. QED  BY <2>1, <3>1, <3>2
  <2>4. /\ Len(args) <= Len(Arguments)
        /\ \A i \in 1..Len(args) : args[i] = Arguments[Len(Arguments) - Len(args) + i]
        /\ Len(args) < Len(Arguments) /\ top = Arguments[Len(Arguments) - Len(args)]
    BY <2>1 DEF Placed
  <2>5. QED  BY <2>1, <2>3, <2>4 DEF Placed
<1>4. QED  BY <1>1, <1>2, <1>3 DEF Walks

LEMMA PlacedPacked ==
  ASSUME PackTypeOK, Placed, Packs
  PROVE  Placed'
<1>1. /\ UNCHANGED <<args, top, visit, tree>> /\ ppc = "visit" /\ ppc' \in {"open", "args", "dir"}
      /\ Walking
  BY DEF Packs, VisitFile, VisitLink, VisitDir, world, walk, Back, Turns, Walking
<1>2. CASE VisitFile \/ VisitLink
  <2>1. UNCHANGED <<args, top, stack, visit>> /\ DOMAIN tree' = DOMAIN tree
    BY <1>1, <1>2 DEF VisitFile, VisitLink, walk
  <2>2. QED  BY <1>1, <2>1, PlacedStays
<1>3. CASE VisitDir
  <2> DEFINE f == [dir |-> visit, left |-> Entries(visit)]
  <2>1. stack' = Append(stack, f) /\ ppc' = "dir"
    BY <1>3 DEF VisitDir, Turns
  <2>2. visit \in Seq(Letters) /\ f \in Frames /\ stack \in Seq(Frames)
    BY DEF PackTypeOK, Frames, Entries
  <2>3. /\ Len(stack') = Len(stack) + 1 /\ Len(stack) \in Nat /\ stack'[Len(stack) + 1] = f
        /\ \A k \in 1..Len(stack) : stack'[k] = stack[k]
    <3> HIDE DEF f
    <3>1. QED  BY <2>1, <2>2, AppendProperties, LenProperties
  <2>4. IsPrefix(top, visit) /\ \A q \in f.left : Within(f.dir, q)
    <3>1. IsPrefix(top, visit)
      BY <1>1 DEF Placed
    <3>2. ASSUME NEW q \in Entries(visit) PROVE Within(visit, q)
      <4>1. q \in DOMAIN tree
        BY DEF Entries
      <4>2. QED  BY <2>2, <4>1, EntriesAre
    <3>3. QED  BY <3>1, <3>2
  <2>5. ASSUME NEW k \in 1..Len(stack')
        PROVE  IsPrefix(top', stack'[k].dir) /\ \A q \in stack'[k].left : Within(stack'[k].dir, q)
    <3>1. CASE k = Len(stack) + 1
      <4>1. stack'[k] = f /\ f.dir = visit /\ top' = top
        BY <1>1, <2>3, <3>1
      <4>2. QED  BY <2>4, <4>1
    <3>2. CASE k # Len(stack) + 1
      <4>1. k \in 1..Len(stack) /\ stack'[k] = stack[k] /\ top' = top
        BY <1>1, <2>3, <3>2
      <4>2. IsPrefix(top, stack[k].dir) /\ \A q \in stack[k].left : Within(stack[k].dir, q)
        BY <4>1 DEF Placed
      <4>3. QED  BY <4>1, <4>2
    <3>3. QED  BY <3>1, <3>2
  <2>6. /\ Len(args) <= Len(Arguments)
        /\ \A i \in 1..Len(args) : args[i] = Arguments[Len(Arguments) - Len(args) + i]
        /\ Len(args) < Len(Arguments) /\ top = Arguments[Len(Arguments) - Len(args)]
    BY <1>1 DEF Placed
  <2>7. QED  BY <1>1, <2>1, <2>5, <2>6 DEF Placed
<1>4. QED  BY <1>2, <1>3 DEF Packs

LEMMA PlacedOthers ==
  ASSUME PackTypeOK, Placed, Fills \/ PackScript \/ FileEnds \/ PackFinish \/ EditFile
  PROVE  Placed'
<1>1. UNCHANGED <<args, top, stack, visit>> /\ DOMAIN tree' = DOMAIN tree
  <2>1. CASE Fills \/ PackScript \/ FileEnds \/ PackFinish
    BY <2>1 DEF Fills, OpenFile, FlushWorks, PackReads, ReadAgain, PackScript, FileEnds, PackFinish,
       world, walk
  <2>2. CASE EditFile
    <3>1. DOMAIN tree' = DOMAIN tree
      BY <2>2, EditKeepsFiles DEF PackTypeOK, SameFiles
    <3>2. QED  BY <2>2, <3>1 DEF EditFile, walk
  <2>3. QED  BY <2>1, <2>2
<1>2. /\ ppc' # "new" \/ ppc = "new"
      /\ ppc' # "exited" \/ args = <<>>
      /\ ppc' = "visit" => ppc = "visit"
      /\ Filling' => Filling
      /\ Walking' => Walking
  BY DEF Fills, OpenFile, FlushWorks, PackReads, ReadAgain, PackScript, FileEnds, PackFinish,
     EditFile, Back, Turns, Filling, Walking, Placed
<1>3. QED  BY <1>1, <1>2, PlacedStays

-----------------------------------------------------------------------------
\* While a file is read its entry is the last one: of the bytes that have been
\* read, and, if no file was edited, of the size that the file has.  The buffer
\* was flushed before it was read into.
FileInv ==
  /\ Filling =>
       /\ Last(packed).path = visit /\ visit \in DOMAIN tree /\ tree[visit].type = "file"
       /\ edits = 0 =>
            /\ Last(packed).size = Len(tree[visit].contents)
            /\ ppc = "open" => Last(packed).item.contents = <<>>
            /\ ppc # "open" =>
                 /\ offset <= Len(tree[visit].contents)
                 /\ Last(packed).item.contents = SubSeq(tree[visit].contents, 1, offset)
  /\ ppc = "read" => begin < BufferLimit

LEMMA AppendEnds ==
  ASSUME NEW S, NEW s \in Seq(S), NEW x \in S
  PROVE  /\ Len(s) \in Nat /\ Append(s, x) \in Seq(S) /\ Append(s, x) # <<>>
         /\ Len(Append(s, x)) = Len(s) + 1
         /\ Last(Append(s, x)) = x /\ Front(Append(s, x)) = s
         /\ Append(s, x)[Len(s) + 1] = x
         /\ \A i \in 1..Len(s) : Append(s, x)[i] = s[i]
<1> DEFINE t == Append(s, x)
<1>1. /\ t \in Seq(S) /\ t # <<>> /\ Len(t) = Len(s) + 1 /\ t[Len(s) + 1] = x
      /\ \A i \in 1..Len(s) : t[i] = s[i]
  BY AppendProperties
<1> HIDE DEF t
<1>2. t = Append(Front(t), Last(t)) /\ Front(t) \in Seq(S) /\ Last(t) \in S
  BY <1>1, EndOf
<1>3. PICK f, l : f = Front(t) /\ l = Last(t)
  OBVIOUS
<1>4. Append(f, l) = Append(s, x) /\ f \in Seq(S) /\ l \in S
  BY <1>2, <1>3 DEF t
<1>5. f = s /\ l = x
  BY <1>4, AppendInjective
<1>6. Len(s) \in Nat
  BY LenProperties
<1>7. QED  BY <1>1, <1>3, <1>5, <1>6 DEF t

\* What a path that is packed adds.
LEMMA PackedIs ==
  ASSUME PackTypeOK, Packs
  PROVE  \E e \in Packed :
           /\ packed' = Append(packed, e) /\ e.path = visit /\ e.size = SizeOf
           /\ e.item = ItemOf /\ e.item.type = tree[visit].type
           /\ e.item.link = tree[visit].link /\ e.item.contents = <<>>
           /\ e.item.name = NameBelow(top, visit)
           /\ visit \in DOMAIN tree /\ entry = tree[visit] /\ Knows
           /\ UNCHANGED <<tree, edits, args, top, visit>> /\ ppc = "visit"
<1> DEFINE e == [path |-> visit, item |-> ItemOf, size |-> SizeOf]
<1>1. /\ Knows /\ PackHeader /\ ppc = "visit"
      /\ UNCHANGED <<tree, edits, args, top, visit>>
  BY DEF Packs, VisitFile, VisitLink, VisitDir, Knows, Packable, world, walk
<1>2. e \in Packed /\ visit \in DOMAIN tree /\ entry = tree[visit]
  BY <1>1, ItemTyped
<1>3. packed' = Append(packed, e)
  BY <1>1 DEF PackHeader
<1>4. /\ e.path = visit /\ e.size = SizeOf /\ e.item = ItemOf /\ e.item.contents = <<>>
      /\ e.item.type = tree[visit].type /\ e.item.link = tree[visit].link
      /\ e.item.name = NameBelow(top, visit)
  BY <1>2 DEF ItemOf, NameOf
<1>5. QED  BY <1>1, <1>2, <1>3, <1>4

\* What reading does to the entries: the last one is longer.
LEMMA ReadGrows ==
  ASSUME PackTypeOK, PackReads
  PROVE  \E e \in Packed :
           /\ Len(packed) \in Nat /\ Len(packed') = Len(packed)
           /\ Last(packed) = packed[Len(packed)]
           /\ Last(packed') = e /\ packed'[Len(packed)] = e
           /\ \A i \in 1..Len(packed) - 1 : packed'[i] = packed[i]
           /\ e.path = Last(packed).path /\ e.size = Last(packed).size
           /\ e.item.type = Last(packed).item.type /\ e.item.name = Last(packed).item.name
           /\ e.item.link = Last(packed).item.link
           /\ e.item.contents = Last(packed).item.contents
                                  \o SubSeq(entry.contents, offset + 1, offset')
           /\ offset' \in Nat /\ offset <= offset' /\ offset' <= Len(entry.contents)
           /\ visit \in DOMAIN tree /\ entry = tree[visit]
           /\ entry.contents \in Seq(FileBytes)
<1>1. PICK n \in 1..Least(Room, Unread), read \in Seq(FileBytes) :
        /\ read = SubSeq(entry.contents, offset + 1, offset + n) /\ Len(read) = n
        /\ offset + n <= Len(entry.contents) /\ Len(tar) + n <= BufferLimit
        /\ tar' = tar \o read /\ offset' = offset + n
        /\ visit \in DOMAIN tree /\ entry = tree[visit]
        /\ packed' = [packed EXCEPT ![Len(packed)].item.contents = @ \o read]
  BY ReadIs
<1>2. packed \in Seq(Packed) /\ packed # <<>>
  BY DEF PackTypeOK, PackReads, Filling
<1> DEFINE e == Longer(Last(packed), read)
<1>3. /\ packed' = Append(Front(packed), e) /\ e \in Packed
      /\ e.path = Last(packed).path /\ e.size = Last(packed).size
      /\ e.item = [type |-> Last(packed).item.type, name |-> Last(packed).item.name,
                   contents |-> Last(packed).item.contents \o read,
                   link |-> Last(packed).item.link]
  BY <1>1, <1>2, ReadEntry
<1> HIDE DEF e
<1>4. /\ Len(packed) \in Nat /\ Len(packed') = Len(packed) /\ Last(packed') = e
      /\ packed'[Len(packed)] = e /\ Last(packed) = packed[Len(packed)]
      /\ \A i \in 1..Len(packed) - 1 : packed'[i] = packed[i]
  <2> DEFINE m == Len(packed)
  <2>1. /\ m \in Nat /\ Front(packed) \in Seq(Packed) /\ Len(Front(packed)) = m - 1
        /\ Last(packed) = packed[m] /\ \A i \in 1..m - 1 : Front(packed)[i] = packed[i]
    BY <1>2, EndOf
  <2>2. PICK f \in Seq(Packed) :
          /\ packed' = Append(f, e) /\ Len(f) = m - 1 /\ \A i \in 1..m - 1 : f[i] = packed[i]
    BY <1>3, <2>1
  <2>3. /\ Len(packed') = Len(f) + 1 /\ packed'[Len(f) + 1] = e /\ Last(packed') = e
        /\ \A i \in 1..Len(f) : packed'[i] = f[i]
    BY <1>3, <2>2, AppendEnds
  <2> HIDE DEF m
  <2>4. Len(f) + 1 = m
    BY <2>1, <2>2
  <2>5. \A i \in 1..m - 1 : packed'[i] = packed[i]
    BY <2>2, <2>3
  <2>6. Len(packed') = m /\ packed'[m] = e
    BY <2>3, <2>4
  <2>7. QED  BY <2>1, <2>3, <2>5, <2>6 DEF m
<1>5. n \in Nat /\ offset \in Nat
  BY <1>1, LenProperties DEF PackTypeOK
<1>6. entry.contents \in Seq(FileBytes)
  BY <1>1 DEF PackTypeOK, TreeOK
<1>7. /\ e.item.type = Last(packed).item.type /\ e.item.name = Last(packed).item.name
      /\ e.item.link = Last(packed).item.link /\ e.item.contents = Last(packed).item.contents \o read
  BY <1>3
<1>8. /\ read = SubSeq(entry.contents, offset + 1, offset') /\ offset' <= Len(entry.contents)
      /\ offset' \in Nat /\ offset <= offset'
  <2>1. offset' = offset + n
    BY <1>1
  <2>2. offset' \in Nat /\ offset <= offset'
    BY <1>5, <2>1
  <2>3. read = SubSeq(entry.contents, offset + 1, offset') /\ offset' <= Len(entry.contents)
    BY <1>1, <2>1
  <2>4. QED  BY <2>2, <2>3
<1>9. QED  BY <1>1, <1>3, <1>4, <1>6, <1>7, <1>8

LEMMA FileFilled ==
  ASSUME PackTypeOK, FileInv, Fills
  PROVE  FileInv'
<1>1. UNCHANGED <<tree, visit, edits>> /\ Filling
  BY DEF Fills, OpenFile, FlushWorks, PackReads, ReadAgain, world, walk, Filling
<1>2. /\ Last(packed).path = visit /\ visit \in DOMAIN tree /\ tree[visit].type = "file"
      /\ edits = 0 =>
           /\ Last(packed).size = Len(tree[visit].contents)
           /\ ppc = "open" => Last(packed).item.contents = <<>>
           /\ ppc # "open" =>
                /\ offset <= Len(tree[visit].contents)
                /\ Last(packed).item.contents = SubSeq(tree[visit].contents, 1, offset)
  BY <1>1 DEF FileInv
<1>3. tree[visit].contents \in Seq(FileBytes) /\ Len(tree[visit].contents) \in Nat
      /\ offset \in Nat /\ BufferLimit \in Nat /\ BufferLimit > 0 /\ Len(tar) \in Nat
  BY <1>2, LenProperties, PackAssumption, SMTT(30) DEF PackTypeOK, TreeOK
<1>4. CASE OpenFile
  <2>1. ppc = "open" /\ ppc' = "flush" /\ offset' = 0 /\ packed' = packed
    BY <1>4 DEF OpenFile, Turns
  <2>2. SubSeq(tree[visit].contents, 1, 0) = <<>>
    BY <1>3, SubSeqEmpty
  <2>3. Last(packed)' = Last(packed)
    BY <2>1
  <2>4. edits' = 0 => /\ Last(packed)'.size = Len(tree'[visit'].contents)
                      /\ offset' <= Len(tree'[visit'].contents)
                      /\ Last(packed)'.item.contents = SubSeq(tree'[visit'].contents, 1, offset')
    <3>1. 0 <= Len(tree[visit].contents)
      BY <1>3
    <3>2. QED  BY <1>1, <1>2, <2>1, <2>2, <2>3, <3>1
  <2>5. QED  BY <1>1, <1>2, <2>1, <2>3, <2>4 DEF FileInv
<1>5. CASE FlushWorks
  <2>1. ppc = "flush" /\ ppc' = "read" /\ packed' = packed /\ offset' = offset
        /\ begin' = Len(tar')
    BY <1>5 DEF FlushWorks, Turns
  <2>2. begin' < BufferLimit
    <3>1. CASE tar' = <<>>
      <4>1. Len(<<>>) = 0
        BY EmptySeq
      <4>2. QED  BY <1>3, <2>1, <3>1, <4>1
    <3>2. CASE UNCHANGED tar /\ ~TarIsFull
      BY <1>3, <2>1, <3>2 DEF TarIsFull
    <3>3. QED  BY <1>5, <3>1, <3>2, FlushIs
  <2>3. Last(packed') = Last(packed)
    BY <2>1
  <2>4. QED  BY <1>1, <1>2, <2>1, <2>2, <2>3 DEF FileInv
<1>6. CASE PackReads
  <2>1. PICK e \in Packed :
          /\ Last(packed') = e
          /\ e.path = Last(packed).path /\ e.size = Last(packed).size
          /\ e.item.contents = Last(packed).item.contents
                                 \o SubSeq(entry.contents, offset + 1, offset')
          /\ offset' \in Nat /\ offset <= offset' /\ offset' <= Len(entry.contents)
          /\ entry = tree[visit] /\ entry.contents \in Seq(FileBytes)
    BY <1>6, ReadGrows
  <2>2. Last(packed') = e
    BY <2>1
  <2>3. ppc = "read" /\ ppc' = "read" /\ begin' = begin
    BY <1>6 DEF PackReads
  <2>4. edits = 0 => e.item.contents = SubSeq(tree[visit].contents, 1, offset')
    <3> SUFFICES ASSUME edits = 0 PROVE e.item.contents = SubSeq(tree[visit].contents, 1, offset')
      OBVIOUS
    <3>1. Last(packed).item.contents = SubSeq(tree[visit].contents, 1, offset)
      BY <1>2, <2>3
    <3>2. PICK c \in Seq(FileBytes), n \in Nat : c = tree[visit].contents /\ n = offset'
      BY <2>1
    <3>3. n <= Len(c) /\ offset <= n
      BY <2>1, <3>2
    <3>4. SubSeq(c, 0 + 1, offset) \o SubSeq(c, offset + 1, n) = SubSeq(c, 0 + 1, n)
      <4>1. 0 \in Nat /\ offset \in Nat /\ 0 <= offset
        BY <1>3
      <4>2. QED  BY <3>2, <3>3, <4>1, Adjacent, ZenonT(30)
    <3>5. e.item.contents = SubSeq(c, 1, offset) \o SubSeq(c, offset + 1, n)
      BY <2>1, <3>1, <3>2
    <3>6. 0 + 1 = 1
      OBVIOUS
    <3>7. QED  BY <3>2, <3>4, <3>5, <3>6
  <2>5. begin' < BufferLimit
    BY <2>3 DEF FileInv
  <2>6. QED  BY <1>1, <1>2, <2>1, <2>2, <2>3, <2>4, <2>5 DEF FileInv
<1>7. CASE ReadAgain
  <2>1. ppc = "read" /\ ppc' = "flush" /\ packed' = packed /\ offset' = offset
    BY <1>7 DEF ReadAgain, Turns
  <2>2. Last(packed') = Last(packed)
    BY <2>1
  <2>3. QED  BY <1>1, <1>2, <2>1, <2>2 DEF FileInv
<1>8. QED  BY <1>4, <1>5, <1>6, <1>7 DEF Fills

LEMMA FilePacked ==
  ASSUME PackTypeOK, FileInv, Packs
  PROVE  FileInv'
<1>1. CASE VisitFile
  <2>1. PICK e \in Packed :
          /\ packed' = Append(packed, e) /\ e.path = visit /\ e.size = SizeOf
          /\ e.item.contents = <<>> /\ visit \in DOMAIN tree /\ entry = tree[visit]
          /\ UNCHANGED <<tree, edits, visit>>
    BY PackedIs
  <2>2. Last(packed') = e
    BY <2>1, AppendEnds DEF PackTypeOK
  <2>3. entry.type = "file" /\ ppc' = "open"
    BY <1>1 DEF VisitFile, Turns
  <2>4. SizeOf = Len(tree[visit].contents)
    BY <2>1, <2>3 DEF SizeOf
  <2>5. QED  BY <2>1, <2>2, <2>3, <2>4 DEF FileInv
<1>2. CASE VisitLink \/ VisitDir
  <2>1. ppc' \in {"args", "dir"}
    BY <1>2 DEF VisitLink, VisitDir, Back, Turns
  <2>2. QED  BY <2>1 DEF FileInv, Filling
<1>3. QED  BY <1>1, <1>2 DEF Packs

LEMMA FileOthers ==
  ASSUME PackTypeOK, FileInv, Walks \/ PackScript \/ FileEnds \/ PackFinish \/ EditFile
  PROVE  FileInv'
<1>1. CASE Walks \/ PackScript \/ FileEnds \/ PackFinish
  <2>1. ppc' \in {"visit", "dir", "args", "exited"}
    BY <1>1 DEF Walks, TakeArgument, NextEntry, LeaveDir, GivesUp, GiveUp, PackScript, FileEnds,
       PackFinish, Back, Turns
  <2>2. QED  BY <2>1 DEF FileInv, Filling
<1>2. CASE EditFile
  <2>1. UNCHANGED <<ppc, visit, packed, begin>> /\ edits' = edits + 1
    BY <1>2 DEF EditFile, walk
  <2>2. SameFiles
    BY <1>2, EditKeepsFiles DEF PackTypeOK
  <2>3. edits' # 0
    BY <2>1 DEF PackTypeOK
  <2>4. Filling' <=> Filling
    BY <2>1 DEF Filling
  <2>5. Last(packed') = Last(packed)
    BY <2>1
  <2>6. QED  BY <2>1, <2>2, <2>3, <2>4, <2>5 DEF FileInv, SameFiles
<1>3. QED  BY <1>1, <1>2

-----------------------------------------------------------------------------
\* An entry says what its path is; a file's has all its contents.
Listed(t, e) ==
  /\ e.path \in DOMAIN t
  /\ e.item.type = t[e.path].type /\ e.item.link = t[e.path].link
  /\ \E i \in 1..Len(Arguments) :
       IsPrefix(Arguments[i], e.path) /\ e.item.name = NameBelow(Arguments[i], e.path)
Filled(t, e) ==
  e.item.type = "file" => e.item.contents = t[e.path].contents /\ e.size = Len(e.item.contents)

\* All entries after the script's do, but for the file that is being read.
EntriesInv ==
  \A i \in 2..Len(packed) :
    /\ Listed(tree, packed[i])
    /\ edits = 0 => (Filling /\ i = Len(packed)) \/ Filled(tree, packed[i])

LEMMA EntriesPacked ==
  ASSUME PackTypeOK, Placed, EntriesInv, Packs
  PROVE  EntriesInv'
<1>1. PICK e \in Packed :
        /\ packed' = Append(packed, e) /\ e.path = visit /\ e.item.type = tree[visit].type
        /\ e.item.link = tree[visit].link /\ e.item.name = NameBelow(top, visit)
        /\ visit \in DOMAIN tree /\ entry = tree[visit]
        /\ UNCHANGED <<tree, edits>> /\ ppc = "visit"
  BY PackedIs
<1>2. /\ Len(packed) \in Nat /\ Len(packed') = Len(packed) + 1 /\ packed'[Len(packed) + 1] = e
      /\ \A i \in 1..Len(packed) : packed'[i] = packed[i]
  BY <1>1, AppendEnds DEF PackTypeOK
<1>3. ~Filling
  BY <1>1 DEF Filling
<1>4. Listed(tree, e)
  <2>1. /\ IsPrefix(top, visit) /\ Len(args) < Len(Arguments)
        /\ top = Arguments[Len(Arguments) - Len(args)]
    BY <1>1 DEF Placed, Walking
  <2>2. Len(Arguments) - Len(args) \in 1..Len(Arguments)
    <3>1. Len(args) \in Nat /\ Len(Arguments) \in Nat
      BY ArgumentsTyped, LenProperties DEF PackTypeOK
    <3>2. QED  BY <2>1, <3>1
  <2>3. QED  BY <1>1, <2>1, <2>2 DEF Listed
<1>5. Filling' \/ Filled(tree, e)
  <2>1. CASE VisitFile
    BY <2>1 DEF VisitFile, Turns, Filling
  <2>2. CASE VisitLink \/ VisitDir
    <3>1. e.item.type # "file"
      BY <1>1, <2>2 DEF VisitLink, VisitDir
    <3>2. QED  BY <3>1 DEF Filled
  <2>3. QED  BY <2>1, <2>2 DEF Packs
<1>6. ASSUME NEW i \in 2..Len(packed')
      PROVE  /\ Listed(tree', packed'[i])
             /\ edits' = 0 => (Filling' /\ i = Len(packed')) \/ Filled(tree', packed'[i])
  <2>1. CASE i = Len(packed')
    <3>1. packed'[i] = e
      BY <1>2, <2>1
    <3>2. QED  BY <1>1, <1>4, <1>5, <2>1, <3>1
  <2>2. CASE i # Len(packed')
    <3>1. i \in 2..Len(packed) /\ packed'[i] = packed[i]
      BY <1>2, <2>2
    <3>2. QED  BY <1>1, <1>3, <3>1 DEF EntriesInv
  <2>3. QED  BY <2>1, <2>2
<1>7. QED  BY <1>6 DEF EntriesInv

LEMMA EntriesFilled ==
  ASSUME PackTypeOK, FileInv, EntriesInv, Fills
  PROVE  EntriesInv'
<1>1. UNCHANGED <<tree, edits>> /\ Filling /\ Filling'
  BY DEF Fills, OpenFile, FlushWorks, PackReads, ReadAgain, world, Filling, Turns
<1>2. CASE PackReads
  <2>1. PICK e \in Packed :
          /\ Len(packed) \in Nat /\ Len(packed') = Len(packed) /\ packed'[Len(packed)] = e
          /\ Last(packed) = packed[Len(packed)]
          /\ \A i \in 1..Len(packed) - 1 : packed'[i] = packed[i]
          /\ e.path = Last(packed).path /\ e.item.type = Last(packed).item.type
          /\ e.item.name = Last(packed).item.name /\ e.item.link = Last(packed).item.link
    BY <1>2, ReadGrows
  <2> DEFINE n == Len(packed)
  <2>2. n \in Nat /\ Last(packed) = packed[n]
    BY <2>1
  <2>3. Len(packed') = n /\ packed'[n] = e /\ \A i \in 1..n - 1 : packed'[i] = packed[i]
    BY <2>1
  <2> HIDE DEF n
  <2>4. ASSUME NEW i \in 2..Len(packed')
        PROVE  /\ Listed(tree', packed'[i])
               /\ edits' = 0 => (Filling' /\ i = Len(packed')) \/ Filled(tree', packed'[i])
    <3>1. Listed(tree, packed[i]) /\ (edits = 0 => (i = n) \/ Filled(tree, packed[i]))
      BY <2>3 DEF EntriesInv, n
    <3>2. CASE i = n
      <4>1. Listed(tree, Last(packed))
        BY <2>2, <3>1, <3>2
      <4>2. Listed(tree, e)
        BY <2>1, <4>1 DEF Listed
      <4>3. QED  BY <1>1, <2>3, <3>2, <4>2
    <3>3. CASE i # n
      <4>1. i \in 1..n - 1
        BY <2>2, <2>3, <3>3
      <4>2. QED  BY <1>1, <2>3, <3>1, <3>3, <4>1
    <3>4. QED  BY <3>2, <3>3
  <2>5. QED  BY <2>4 DEF EntriesInv
<1>3. CASE OpenFile \/ FlushWorks \/ ReadAgain
  <2>1. packed' = packed
    BY <1>3 DEF OpenFile, FlushWorks, ReadAgain
  <2>2. QED  BY <1>1, <2>1 DEF EntriesInv
<1>4. QED  BY <1>2, <1>3 DEF Fills

\* A loop that reads nothing into a buffer with room has read the whole file.
LEMMA EntriesEnded ==
  ASSUME PackTypeOK, StreamInv, FileInv, EntriesInv, FileEnds
  PROVE  EntriesInv'
<1>1. /\ UNCHANGED <<tree, edits, packed>> /\ ppc = "read" /\ Filling
      /\ ReadsNothing /\ begin = Len(tar)
  BY DEF FileEnds, world, Filling
<1> DEFINE n == Len(packed)
           e == Last(packed)
           c == tree[visit].contents
<1>2. n \in Nat /\ e = packed[n]
  BY <1>1, EndOf DEF PackTypeOK
<1>3. /\ e.path = visit /\ visit \in DOMAIN tree /\ entry = tree[visit] /\ begin < BufferLimit
      /\ edits = 0 => e.size = Len(c) /\ offset <= Len(c) /\ e.item.contents = SubSeq(c, 1, offset)
  BY <1>1 DEF FileInv, entry
<1>4. c \in Seq(FileBytes) /\ Len(c) \in Nat /\ offset \in Nat /\ BufferLimit \in Nat /\ Len(tar) \in Nat
  BY <1>3, LenProperties, PackAssumption DEF PackTypeOK, TreeOK
<1>5. Len(c) <= offset
  <2>1. ~(Room <= 0)
    BY <1>1, <1>3, <1>4 DEF Room
  <2>2. Unread <= 0
    BY <1>1, <2>1 DEF ReadsNothing
  <2>3. QED  BY <1>3, <1>4, <2>2 DEF Unread
<1>6. edits = 0 => e.item.contents = c /\ e.size = Len(c)
  <2>1. SubSeq(c, 1, Len(c)) = c
    BY <1>4, SubSeqFull
  <2>2. edits = 0 => offset = Len(c)
    BY <1>3, <1>4, <1>5
  <2>3. QED  BY <1>3, <2>1, <2>2
<1>7. edits = 0 => Filled(tree, e)
  BY <1>3, <1>6 DEF Filled
<1> HIDE DEF n, e, c
<1>8. ASSUME NEW i \in 2..Len(packed)
      PROVE  Listed(tree, packed[i]) /\ (edits = 0 => Filled(tree, packed[i]))
  <2>1. Listed(tree, packed[i]) /\ (edits = 0 => (i = n) \/ Filled(tree, packed[i]))
    BY DEF EntriesInv, n
  <2>2. QED  BY <1>2, <1>7, <2>1
<1>9. QED  BY <1>1, <1>8 DEF EntriesInv

LEMMA EntriesOthers ==
  ASSUME PackTypeOK, EntriesInv, Walks \/ PackScript \/ PackFinish \/ EditFile
  PROVE  EntriesInv'
<1>1. CASE Walks \/ PackFinish
  <2>1. UNCHANGED <<tree, edits, packed>> /\ ~Filling
    BY <1>1 DEF Walks, TakeArgument, NextEntry, LeaveDir, GivesUp, PackFinish, world, Filling
  <2>2. QED  BY <2>1 DEF EntriesInv
<1>2. CASE PackScript
  <2>1. Len(packed') = 1
    BY <1>2 DEF PackScript
  <2>2. \A i \in 2..Len(packed') : FALSE
    BY <2>1
  <2>3. QED  BY <2>2 DEF EntriesInv
<1>3. CASE EditFile
  <2>1. packed' = packed /\ edits' # 0 /\ SameFiles
    <3>1. packed' = packed /\ edits' = edits + 1
      BY <1>3 DEF EditFile
    <3>2. edits' # 0
      BY <3>1 DEF PackTypeOK
    <3>3. SameFiles
      BY <1>3, EditKeepsFiles DEF PackTypeOK
    <3>4. QED  BY <3>1, <3>2, <3>3
  <2>2. ASSUME NEW i \in 2..Len(packed)
        PROVE  Listed(tree', packed[i])
    <3>1. Listed(tree, packed[i])
      BY DEF EntriesInv
    <3>2. QED  BY <2>1, <3>1 DEF Listed, SameFiles
  <2>3. QED  BY <2>1, <2>2 DEF EntriesInv
<1>4. QED  BY <1>1, <1>2, <1>3

-----------------------------------------------------------------------------
\* A path that has been packed, and one that the walk will still come to.
Did(p) == \E i \in 2..Len(packed) : packed[i].path = p
Coming(p) ==
  \/ \E i \in 1..Len(args) : IsPrefix(args[i], p)
  \/ ppc = "visit" /\ IsPrefix(visit, p)
  \/ \E k \in 1..Len(stack) : \E q \in stack[k].left : IsPrefix(q, p)

AllPackable(t) == \A p \in DOMAIN t : t[p].type \in Packable

\* If all paths can be packed, those below the arguments are.
Covered ==
  AllPackable(tree) =>
    \A p \in DOMAIN tree :
      (\E i \in 1..Len(Arguments) : IsPrefix(Arguments[i], p)) => Did(p) \/ Coming(p)

\* What is above a path is a directory, and has an entry that is not below it.
LEMMA DirAbove ==
  ASSUME PackTypeOK, NEW s \in Seq(Letters), s # <<>>, NEW p \in DOMAIN tree, IsPrefix(s, p), s # p
  PROVE  /\ s \in DOMAIN tree /\ tree[s].type = "dir"
         /\ \E q \in Entries(s) : IsPrefix(q, p)
<1>1. p \in Seq(Letters)
  BY DEF PackTypeOK, TreeOK
<1>2. Len(s) \in Nat /\ Len(s) > 0 /\ Len(p) \in Nat
  BY <1>1, EmptySeq, LenProperties
<1> DEFINE q == SubSeq(p, 1, Len(s) + 1)
<1>3. /\ Len(s) < Len(p) /\ s = SubSeq(p, 1, Len(s))
      /\ q \in Seq(Letters) /\ Len(q) = Len(s) + 1 /\ IsPrefix(s, q) /\ IsPrefix(q, p)
  BY <1>1, PrefixNext
<1>4. Len(s) \in 1..Len(p) - 1
  BY <1>2, <1>3
<1>5. s \in DOMAIN tree /\ tree[s].type = "dir"
  BY <1>3, <1>4 DEF PackTypeOK, TreeOK
<1>6. q \in DOMAIN tree
  <2>1. CASE Len(s) + 1 = Len(p)
    <3>1. q = p
      BY <1>1, <2>1, SubSeqFull
    <3>2. QED  BY <3>1
  <2>2. CASE Len(s) + 1 # Len(p)
    <3>1. Len(s) + 1 \in 1..Len(p) - 1
      BY <1>2, <1>3, <2>2
    <3>2. QED  BY <3>1 DEF PackTypeOK, TreeOK
  <2>3. QED  BY <2>1, <2>2
<1> HIDE DEF q
<1>7. q \in Entries(s)
  BY <1>3, <1>6, EntriesAre DEF Within
<1>8. QED  BY <1>3, <1>5, <1>7

\* The path that is packed is not empty.
LEMMA VisitIsPath ==
  ASSUME PackTypeOK, Placed, ppc = "visit"
  PROVE  visit \in Seq(Letters) /\ visit # <<>> /\ top \in Seq(Letters) /\ IsPrefix(top, visit)
<1>1. /\ IsPrefix(top, visit) /\ Len(args) < Len(Arguments)
      /\ top = Arguments[Len(Arguments) - Len(args)]
  BY DEF Placed, Walking
<1>2. Len(Arguments) - Len(args) \in 1..Len(Arguments)
  <2>1. Len(args) \in Nat /\ Len(Arguments) \in Nat
    BY ArgumentsTyped, LenProperties DEF PackTypeOK
  <2>2. QED  BY <1>1, <2>1
<1>3. top \in Seq(Letters) /\ Len(top) > 0 /\ visit \in Seq(Letters)
  BY <1>1, <1>2, ArgumentsTyped DEF PackTypeOK
<1>4. Len(top) <= Len(visit)
  BY <1>1, <1>3, PrefixIs
<1>5. visit # <<>>
  <2>1. Len(top) \in Nat /\ Len(visit) \in Nat
    BY <1>3, LenProperties
  <2>2. Len(visit) # 0
    BY <1>3, <1>4, <2>1
  <2>3. Len(<<>>) = 0
    BY EmptySeq
  <2>4. QED  BY <2>2, <2>3
<1>6. QED  BY <1>1, <1>3, <1>5

\* An entry that is there stays there.
LEMMA DidStays ==
  ASSUME PackTypeOK, PackScript \/ Walks \/ Packs \/ Fills \/ FileEnds \/ PackFinish \/ EditFile,
         NEW p, Did(p)
  PROVE  Did(p)'
<1>1. PICK i \in 2..Len(packed) : packed[i].path = p
  BY DEF Did
<1>2. packed \in Seq(Packed) /\ Len(packed) \in Nat
  BY LenProperties DEF PackTypeOK
<1>3. CASE UNCHANGED packed
  BY <1>1, <1>3 DEF Did
<1>4. CASE PackScript
  <2>1. Len(packed) = 0
    BY <1>4, EmptySeq DEF PackScript, PackTypeOK
  <2>2. QED  BY <1>1, <2>1
<1>5. CASE Packs
  <2>1. PICK e \in Packed : packed' = Append(packed, e)
    BY <1>5, PackedIs
  <2>2. /\ Len(packed') = Len(packed) + 1
        /\ \A j \in 1..Len(packed) : packed'[j] = packed[j]
    BY <1>2, <2>1, AppendEnds
  <2>3. i \in 2..Len(packed') /\ packed'[i].path = p
    BY <1>1, <1>2, <2>2
  <2>4. QED  BY <2>3 DEF Did
<1>6. CASE PackReads
  <2>1. PICK e \in Packed :
          /\ Len(packed') = Len(packed) /\ packed'[Len(packed)] = e
          /\ Last(packed) = packed[Len(packed)] /\ e.path = Last(packed).path
          /\ \A j \in 1..Len(packed) - 1 : packed'[j] = packed[j]
    BY <1>6, ReadGrows
  <2>2. i = Len(packed) \/ i \in 1..Len(packed) - 1
    BY <1>2
  <2>3. packed'[i].path = packed[i].path
    BY <2>1, <2>2
  <2>4. QED  BY <1>1, <2>1, <2>3 DEF Did
<1>7. PackScript \/ Packs \/ PackReads \/ UNCHANGED packed
  BY DEF Walks, TakeArgument, NextEntry, LeaveDir, GivesUp, Fills, OpenFile, FlushWorks, ReadAgain,
     FileEnds, PackFinish, EditFile
<1>8. QED  BY <1>3, <1>4, <1>5, <1>6, <1>7

LEMMA ComingStays ==
  ASSUME NEW p, Coming(p), UNCHANGED <<args, stack, visit>>, ppc = "visit" => ppc' = "visit"
  PROVE  Coming(p)'
BY DEF Coming

\* A path that will be come to is an argument's, that of the path that is packed,
\* or a directory's that is open, after every step of the walk.
LEMMA ComingWalked ==
  ASSUME PackTypeOK, Placed, AllPackable(tree), Walks, NEW p \in DOMAIN tree, Coming(p)
  PROVE  Coming(p)'
<1>1. CASE TakeArgument
  <2>1. /\ args \in Seq(Seq(Letters)) /\ args # <<>> /\ ppc = "args" /\ ppc' = "visit"
        /\ stack = <<>> /\ args' = Tail(args) /\ visit' = Head(args)
    BY <1>1 DEF TakeArgument, Turns, PackTypeOK
  <2>2. /\ Len(args) \in Nat /\ Len(args') = Len(args) - 1 /\ visit' = args[1]
        /\ \A i \in 1..Len(args) - 1 : args'[i] = args[i + 1]
    BY <2>1, HeadTailProperties, LenProperties
  <2>3. \A k \in 1..Len(stack) : FALSE
    BY <2>1, EmptySeq
  <2>4. PICK i \in 1..Len(args) : IsPrefix(args[i], p)
    BY <2>1, <2>3 DEF Coming
  <2>5. CASE i = 1
    BY <2>1, <2>2, <2>4, <2>5 DEF Coming
  <2>6. CASE i # 1
    <3>1. i - 1 \in 1..Len(args') /\ i - 1 \in 1..Len(args) - 1 /\ (i - 1) + 1 = i
      BY <2>2, <2>6
    <3>2. args'[i - 1] = args[i]
      BY <2>2, <3>1
    <3>3. QED  BY <2>4, <3>1, <3>2 DEF Coming
  <2>7. QED  BY <2>5, <2>6
<1>2. CASE NextEntry
  <2>1. PICK x \in Last(stack).left :
          /\ visit' = x /\ Len(stack') = Len(stack)
          /\ \A k \in 1..Len(stack) : k # Len(stack) => stack'[k].left = stack[k].left
          /\ stack'[Len(stack)].left = stack[Len(stack)].left \ {x}
    BY <1>2, EntryIs
  <2>2. args' = args /\ ppc = "dir" /\ ppc' = "visit"
    BY <1>2 DEF NextEntry, Turns
  <2>3. CASE \E i \in 1..Len(args) : IsPrefix(args[i], p)
    BY <2>2, <2>3 DEF Coming
  <2>4. CASE \E k \in 1..Len(stack) : \E q \in stack[k].left : IsPrefix(q, p)
    <3>1. PICK k \in 1..Len(stack) : \E q \in stack[k].left : IsPrefix(q, p)
      BY <2>4
    <3>2. PICK q \in stack[k].left : IsPrefix(q, p)
      BY <3>1
    <3>3. CASE k = Len(stack) /\ q = x
      BY <2>1, <2>2, <3>2, <3>3 DEF Coming
    <3>4. CASE ~(k = Len(stack) /\ q = x)
      <4>1. q \in stack'[k].left /\ k \in 1..Len(stack')
        BY <2>1, <3>2, <3>4
      <4>2. QED  BY <3>2, <4>1 DEF Coming
    <3>5. QED  BY <3>3, <3>4
  <2>5. QED  BY <2>2, <2>3, <2>4 DEF Coming
<1>3. CASE LeaveDir
  <2>1. /\ args' = args /\ ppc = "dir" /\ stack' = Front(stack) /\ Last(stack).left = {}
        /\ stack \in Seq(Frames) /\ stack # <<>>
    BY <1>3 DEF LeaveDir, PackTypeOK, Frames
  <2>2. /\ Len(stack) \in Nat /\ Len(stack') = Len(stack) - 1 /\ stack[Len(stack)].left = {}
        /\ \A i \in 1..Len(stack) - 1 : stack'[i] = stack[i]
    BY <2>1, EndOf
  <2>3. CASE \E i \in 1..Len(args) : IsPrefix(args[i], p)
    BY <2>1, <2>3 DEF Coming
  <2>4. CASE \E k \in 1..Len(stack) : \E q \in stack[k].left : IsPrefix(q, p)
    <3>1. PICK k \in 1..Len(stack) : \E q \in stack[k].left : IsPrefix(q, p)
      BY <2>4
    <3>2. k # Len(stack)
      BY <2>2, <3>1
    <3>3. k \in 1..Len(stack) - 1
      BY <2>2, <3>2
    <3>4. k \in 1..Len(stack') /\ stack'[k] = stack[k]
      BY <2>2, <3>3
    <3>5. QED  BY <3>1, <3>4 DEF Coming
  <2>5. QED  BY <2>1, <2>3, <2>4 DEF Coming
<1>4. CASE GivesUp
  <2>1. ppc = "visit" /\ ~Knows /\ args' = args /\ stack' = <<>>
    BY <1>4 DEF GivesUp, GiveUp
  <2>2. visit \notin DOMAIN tree
    BY <2>1 DEF Knows, entry, AllPackable
  <2>3. stack = <<>>
    BY <2>1, <2>2 DEF Placed
  <2>4. ~IsPrefix(visit, p)
    <3> SUFFICES ASSUME IsPrefix(visit, p) PROVE FALSE
      OBVIOUS
    <3>1. visit \in Seq(Letters) /\ visit # <<>>
      BY <2>1, VisitIsPath
    <3>2. visit # p
      BY <2>2
    <3>3. visit \in DOMAIN tree
      BY <3>1, <3>2, DirAbove
    <3>4. QED  BY <2>2, <3>3
  <2>5. \A k \in 1..Len(stack) : FALSE
    BY <2>3, EmptySeq
  <2>6. QED  BY <2>1, <2>4, <2>5 DEF Coming
<1>5. QED  BY <1>1, <1>2, <1>3, <1>4 DEF Walks

LEMMA ComingPacked ==
  ASSUME PackTypeOK, StreamInv, Placed, Packs, NEW p \in DOMAIN tree, Coming(p)
  PROVE  Coming(p)' \/ Did(p)'
<1>1. PICK e \in Packed :
        /\ packed' = Append(packed, e) /\ e.path = visit /\ visit \in DOMAIN tree
        /\ entry = tree[visit] /\ UNCHANGED <<tree, args, visit>> /\ ppc = "visit"
  BY PackedIs
<1>2. Len(packed) \in Nat /\ Len(packed') = Len(packed) + 1 /\ packed'[Len(packed) + 1] = e
  BY <1>1, AppendEnds DEF PackTypeOK
<1>3. \E i \in 2..Len(packed') : packed'[i].path = visit
  <2>1. Len(packed) # 0
    BY <1>1, EmptySeq DEF StreamInv, PackTypeOK
  <2>2. Len(packed) + 1 \in 2..Len(packed')
    BY <1>2, <2>1
  <2>3. QED  BY <1>1, <1>2, <2>2
<1>4. visit \in Seq(Letters) /\ visit # <<>>
  BY <1>1, VisitIsPath
<1>5. CASE VisitFile \/ VisitLink
  <2>1. stack' = stack /\ entry.type # "dir"
    BY <1>5 DEF VisitFile, VisitLink, walk
  <2>2. IsPrefix(visit, p) => p = visit
    BY <1>1, <1>4, <2>1, DirAbove
  <2>3. QED  BY <1>1, <1>3, <2>1, <2>2 DEF Coming, Did
<1>6. CASE VisitDir
  <2> DEFINE f == [dir |-> visit, left |-> Entries(visit)]
  <2>1. stack' = Append(stack, f)
    BY <1>6 DEF VisitDir
  <2>2. stack \in Seq(Frames) /\ f \in Frames /\ f.left = Entries(visit)
    BY <1>4 DEF PackTypeOK, Frames, Entries
  <2> HIDE DEF f
  <2>3. /\ Len(stack) \in Nat /\ Len(stack') = Len(stack) + 1 /\ stack'[Len(stack) + 1] = f
        /\ \A k \in 1..Len(stack) : stack'[k] = stack[k]
    BY <2>1, <2>2, AppendEnds
  <2>4. CASE \E i \in 1..Len(args) : IsPrefix(args[i], p)
    BY <1>1, <2>4 DEF Coming
  <2>5. CASE IsPrefix(visit, p) /\ p # visit
    <3>1. PICK q \in Entries(visit) : IsPrefix(q, p)
      BY <1>4, <2>5, DirAbove
    <3>2. Len(stack) + 1 \in 1..Len(stack') /\ q \in stack'[Len(stack) + 1].left
      BY <2>2, <2>3, <3>1
    <3>3. QED  BY <3>1, <3>2 DEF Coming
  <2>6. CASE \E k \in 1..Len(stack) : \E q \in stack[k].left : IsPrefix(q, p)
    <3>1. PICK k \in 1..Len(stack) : \E q \in stack[k].left : IsPrefix(q, p)
      BY <2>6
    <3>2. k \in 1..Len(stack') /\ stack'[k] = stack[k]
      BY <2>3
    <3>3. QED  BY <3>1, <3>2 DEF Coming
  <2>7. QED  BY <1>1, <1>3, <2>4, <2>5, <2>6 DEF Coming, Did
<1>7. QED  BY <1>5, <1>6 DEF Packs

\* All steps keep the files, but for the contents of one that is edited.
LEMMA FilesStay ==
  ASSUME PackTypeOK, PackScript \/ Walks \/ Packs \/ Fills \/ FileEnds \/ PackFinish \/ EditFile
  PROVE  SameFiles
<1>1. CASE EditFile
  BY <1>1, EditKeepsFiles DEF PackTypeOK
<1>2. CASE ~EditFile
  <2>1. tree' = tree
    BY <1>2 DEF PackScript, Walks, TakeArgument, NextEntry, LeaveDir, GivesUp, Packs, VisitFile,
       VisitLink, VisitDir, Fills, OpenFile, FlushWorks, PackReads, ReadAgain, FileEnds, PackFinish,
       world
  <2>2. QED  BY <2>1, SMTT(30) DEF SameFiles
<1>3. QED  BY <1>1, <1>2

\* The steps that neither walk nor pack a path leave the walk where it is.
LEMMA WalkStays ==
  ASSUME PackTypeOK, PackScript \/ Fills \/ FileEnds \/ PackFinish \/ EditFile
  PROVE  UNCHANGED <<args, stack, visit>> /\ (ppc' = "visit" <=> ppc = "visit")
BY DEF PackScript, Fills, OpenFile, FlushWorks, PackReads, ReadAgain, FileEnds, PackFinish, EditFile,
   walk, Back, Turns

LEMMA CoveredKept ==
  ASSUME PackTypeOK, StreamInv, Placed, Covered,
         PackScript \/ Walks \/ Packs \/ Fills \/ FileEnds \/ PackFinish \/ EditFile
  PROVE  Covered'
<1>1. DOMAIN tree' = DOMAIN tree /\ (AllPackable(tree') => AllPackable(tree))
  <2>1. SameFiles
    BY FilesStay
  <2>2. QED  BY <2>1 DEF SameFiles, AllPackable
<1>2. SUFFICES ASSUME AllPackable(tree), NEW p \in DOMAIN tree,
                      \E i \in 1..Len(Arguments) : IsPrefix(Arguments[i], p)
               PROVE  Did(p)' \/ Coming(p)'
  BY <1>1 DEF Covered
<1>3. Did(p) \/ Coming(p)
  BY <1>2 DEF Covered
<1>4. CASE Did(p)
  BY <1>4, DidStays
<1>5. CASE Coming(p)
  <2>1. CASE Walks
    BY <1>2, <1>5, <2>1, ComingWalked
  <2>2. CASE Packs
    BY <1>5, <2>2, ComingPacked
  <2>3. CASE PackScript \/ Fills \/ FileEnds \/ PackFinish \/ EditFile
    BY <1>5, <2>3, ComingStays, WalkStays
  <2>4. QED  BY <2>1, <2>2, <2>3
<1>6. QED  BY <1>3, <1>4, <1>5

-----------------------------------------------------------------------------
\* Directories that are open are below one another, and none is below an entry of
\* another that is left; nor is the path that is packed.
Apart ==
  \A m \in 1..Len(stack) : \A k \in 1..m - 1 :
    /\ Len(stack[k].dir) < Len(stack[m].dir)
    /\ \A q \in stack[k].left : ~IsPrefix(q, stack[m].dir)
Alone ==
  ppc = "visit" => \A k \in 1..Len(stack) : \A q \in stack[k].left : ~IsPrefix(q, visit)
NotAgain == \A p \in DOMAIN tree : Did(p) => ~Coming(p)

\* If no argument is below another, the walk comes to no path twice.
Once ==
  ArgumentsDiffer =>
    /\ Apart /\ Alone /\ NotAgain
    /\ \A i, j \in 2..Len(packed) : packed[i].path = packed[j].path => i = j

LEMMA ApartWalked ==
  ASSUME PackTypeOK, Placed, Apart, Walks
  PROVE  Apart' /\ Alone'
<1>1. CASE TakeArgument \/ GivesUp
  <2>1. stack' = <<>>
    BY <1>1 DEF TakeArgument, GivesUp, GiveUp, PackTypeOK
  <2>2. \A m \in 1..Len(stack') : FALSE
    BY <2>1, EmptySeq
  <2>3. QED  BY <2>2 DEF Apart, Alone
<1>2. CASE LeaveDir
  <2>1. stack' = Front(stack) /\ stack \in Seq(Frames) /\ stack # <<>> /\ ppc' # "visit"
    BY <1>2 DEF LeaveDir, PackTypeOK, Frames, Turns
  <2>2. /\ Len(stack) \in Nat /\ Len(stack') = Len(stack) - 1
        /\ \A i \in 1..Len(stack) - 1 : stack'[i] = stack[i]
    BY <2>1, EndOf
  <2>3. ASSUME NEW m \in 1..Len(stack'), NEW k \in 1..m - 1
        PROVE  /\ Len(stack'[k].dir) < Len(stack'[m].dir)
               /\ \A q \in stack'[k].left : ~IsPrefix(q, stack'[m].dir)
    <3>1. m \in 1..Len(stack) /\ stack'[m] = stack[m] /\ stack'[k] = stack[k]
      BY <2>2
    <3>2. QED  BY <3>1 DEF Apart
  <2>4. QED  BY <2>1, <2>3 DEF Apart, Alone
<1>3. CASE NextEntry
  <2> DEFINE n == Len(stack)
             d == stack[n].dir
  <2>1. PICK x \in Last(stack).left :
          /\ visit' = x /\ x \in Seq(Letters) /\ Len(stack') = n /\ stack # <<>>
          /\ \A k \in 1..n : stack'[k].dir = stack[k].dir
          /\ \A k \in 1..n : k # n => stack'[k].left = stack[k].left
          /\ stack'[n].left = stack[n].left \ {x}
    BY <1>3, EntryIs
  <2>2. stack \in Seq(Frames) /\ stack # <<>>
    BY <2>1 DEF PackTypeOK, Frames
  <2>3. n \in Nat /\ n \in 1..n /\ Last(stack) = stack[n]
    BY <2>2, EndOf
  <2>4. \A k \in 1..n : stack[k] \in Frames
    BY <2>2, ElementOfSeq
  <2>5. d \in Seq(Letters) /\ Within(d, x) /\ Len(d) \in Nat
    <3>1. d \in Seq(Letters)
      BY <2>3, <2>4 DEF Frames
    <3>2. Within(d, x)
      BY <2>1, <2>3 DEF Placed
    <3>3. QED  BY <3>1, <3>2, LenProperties
  <2>6. \A k \in 1..n : stack'[k].left \subseteq stack[k].left
    BY <2>1
  <2>7. Apart'
    <3>1. ASSUME NEW m \in 1..Len(stack'), NEW k \in 1..m - 1
          PROVE  /\ Len(stack'[k].dir) < Len(stack'[m].dir)
                 /\ \A q \in stack'[k].left : ~IsPrefix(q, stack'[m].dir)
      <4>1. m \in 1..n /\ k \in 1..n
        BY <2>1, <2>3
      <4>2. /\ Len(stack[k].dir) < Len(stack[m].dir)
            /\ \A q \in stack[k].left : ~IsPrefix(q, stack[m].dir)
        BY <4>1 DEF Apart
      <4>3. QED  BY <2>1, <2>6, <4>1, <4>2
    <3>2. QED  BY <3>1 DEF Apart
  <2> HIDE DEF d
  <2>8. ASSUME NEW k \in 1..n, NEW q \in stack'[k].left, IsPrefix(q, x)
        PROVE  FALSE
    <3>1. q \in stack[k].left /\ Within(stack[k].dir, q)
      BY <2>6 DEF Placed
    <3>2. stack[k].dir \in Seq(Letters) /\ q \in Seq(Letters)
      <4>1. stack[k] \in Frames
        BY <2>4
      <4>2. q \in DOMAIN tree
        BY <3>1, <4>1 DEF Frames
      <4>3. QED  BY <4>1, <4>2 DEF Frames, PackTypeOK, TreeOK
    <3>3. Len(stack[k].dir) \in Nat /\ Len(q) = Len(stack[k].dir) + 1 /\ Len(x) = Len(d) + 1
      BY <2>5, <3>1, <3>2, LenProperties DEF Within
    <3>4. CASE k = n
      <4>1. Len(x) <= Len(q)
        BY <2>5, <3>3, <3>4 DEF d
      <4>2. q = x
        BY <2>1, <2>8, <3>2, <4>1, PrefixWhole
      <4>3. QED  BY <2>1, <2>8, <3>4, <4>2
    <3>5. CASE k # n
      <4>1. k \in 1..n - 1
        BY <2>3, <3>5
      <4>2. Len(stack[k].dir) < Len(d) /\ ~IsPrefix(q, d)
        BY <2>3, <3>1, <4>1 DEF Apart, d
      <4>3. Len(q) <= Len(d)
        BY <2>5, <3>3, <4>2
      <4>4. IsPrefix(d, x)
        BY <2>5 DEF Within
      <4>5. IsPrefix(q, d)
        BY <2>1, <2>5, <2>8, <3>2, <4>3, <4>4, PrefixBoth
      <4>6. QED  BY <4>2, <4>5
    <3>6. QED  BY <3>4, <3>5
  <2>9. Alone'
    BY <2>1, <2>8 DEF Alone
  <2>10. QED  BY <2>7, <2>9
<1>4. QED  BY <1>1, <1>2, <1>3 DEF Walks

\* The walk comes to no path that it would not have come to.
LEMMA ComesFrom ==
  ASSUME PackTypeOK, Walks, NEW p, Coming(p)'
  PROVE  Coming(p)
<1>1. CASE TakeArgument
  <2>1. /\ args \in Seq(Seq(Letters)) /\ args # <<>> /\ stack' = <<>>
        /\ args' = Tail(args) /\ visit' = Head(args)
    BY <1>1 DEF TakeArgument, PackTypeOK
  <2>2. /\ Len(args) \in Nat /\ Len(args) > 0 /\ Len(args') = Len(args) - 1 /\ visit' = args[1]
        /\ \A i \in 1..Len(args) - 1 : args'[i] = args[i + 1]
    BY <2>1, EmptySeq, HeadTailProperties, LenProperties
  <2>3. \A k \in 1..Len(stack') : FALSE
    BY <2>1, EmptySeq
  <2>4. CASE IsPrefix(visit', p)
    <3>1. 1 \in 1..Len(args)
      BY <2>2
    <3>2. QED  BY <2>2, <2>4, <3>1 DEF Coming
  <2>5. CASE \E i \in 1..Len(args') : IsPrefix(args'[i], p)
    <3>1. PICK i \in 1..Len(args') : IsPrefix(args'[i], p)
      BY <2>5
    <3>2. i \in 1..Len(args) - 1 /\ i + 1 \in 1..Len(args)
      BY <2>2
    <3>3. IsPrefix(args[i + 1], p)
      BY <2>2, <3>1, <3>2
    <3>4. QED  BY <3>2, <3>3 DEF Coming
  <2>6. QED  BY <2>3, <2>4, <2>5 DEF Coming
<1>2. CASE NextEntry
  <2>1. PICK x \in Last(stack).left :
          /\ visit' = x /\ Len(stack') = Len(stack) /\ stack # <<>>
          /\ \A k \in 1..Len(stack) : k # Len(stack) => stack'[k].left = stack[k].left
          /\ stack'[Len(stack)].left = stack[Len(stack)].left \ {x}
    BY <1>2, EntryIs
  <2>2. args' = args
    BY <1>2 DEF NextEntry
  <2>3. Len(stack) \in 1..Len(stack) /\ Last(stack) = stack[Len(stack)]
    BY <2>1, EndOf DEF PackTypeOK
  <2>4. \A k \in 1..Len(stack) : stack'[k].left \subseteq stack[k].left
    BY <2>1
  <2>5. x \in stack[Len(stack)].left
    BY <2>3
  <2>6. QED  BY <2>1, <2>2, <2>3, <2>4, <2>5 DEF Coming
<1>3. CASE LeaveDir
  <2>1. /\ args' = args /\ ppc' # "visit" /\ stack' = Front(stack)
        /\ stack \in Seq(Frames) /\ stack # <<>>
    BY <1>3 DEF LeaveDir, PackTypeOK, Frames, Turns
  <2>2. /\ Len(stack) \in Nat /\ Len(stack') = Len(stack) - 1
        /\ \A i \in 1..Len(stack) - 1 : stack'[i] = stack[i]
    BY <2>1, EndOf
  <2>3. \A k \in 1..Len(stack') : k \in 1..Len(stack) /\ stack'[k] = stack[k]
    BY <2>2
  <2>4. QED  BY <2>1, <2>3 DEF Coming
<1>4. CASE GivesUp
  <2>1. args' = args /\ ppc' # "visit" /\ stack' = <<>>
    BY <1>4 DEF GivesUp, GiveUp, Turns
  <2>2. \A k \in 1..Len(stack') : FALSE
    BY <2>1, EmptySeq
  <2>3. QED  BY <2>1, <2>2 DEF Coming
<1>5. QED  BY <1>1, <1>2, <1>3, <1>4 DEF Walks

LEMMA OnceWalked ==
  ASSUME PackTypeOK, Placed, Once, Walks
  PROVE  Once'
<1>1. packed' = packed /\ tree' = tree
  BY DEF Walks, TakeArgument, NextEntry, LeaveDir, GivesUp, world
<1> SUFFICES ASSUME ArgumentsDiffer
             PROVE  /\ Apart' /\ Alone' /\ NotAgain'
                    /\ \A i, j \in 2..Len(packed') : packed'[i].path = packed'[j].path => i = j
  BY DEF Once, ArgumentsDiffer
<1>2. /\ Apart /\ NotAgain
      /\ \A i, j \in 2..Len(packed) : packed[i].path = packed[j].path => i = j
  BY DEF Once
<1>3. Apart' /\ Alone'
  BY <1>2, ApartWalked
<1>4. NotAgain'
  <2>1. ASSUME NEW p \in DOMAIN tree, Did(p)', Coming(p)'
        PROVE  FALSE
    <3>1. Did(p)
      BY <1>1, <2>1 DEF Did
    <3>2. Coming(p)
      BY <2>1, ComesFrom
    <3>3. QED  BY <1>2, <3>1, <3>2 DEF NotAgain
  <2>2. QED  BY <1>1, <2>1 DEF NotAgain
<1>5. QED  BY <1>1, <1>2, <1>3, <1>4

\* The arguments that are left are not that of the path that is packed.
LEMMA NoArgumentAgain ==
  ASSUME PackTypeOK, Placed, ArgumentsDiffer, ppc = "visit", NEW i \in 1..Len(args)
  PROVE  ~IsPrefix(args[i], visit)
<1> SUFFICES ASSUME IsPrefix(args[i], visit) PROVE FALSE
  OBVIOUS
<1> DEFINE n == Len(args)
           m == Len(Arguments)
<1>1. n \in Nat /\ m \in Nat
  BY ArgumentsTyped, LenProperties DEF PackTypeOK
<1>2. n < m /\ top = Arguments[m - n] /\ args[i] = Arguments[m - n + i]
  BY DEF Placed, Walking
<1>3. m - n \in 1..m /\ m - n + i \in 1..m /\ m - n # m - n + i
  BY <1>1, <1>2
<1>4. ~IsPrefix(top, args[i]) /\ ~IsPrefix(args[i], top)
  <2> HIDE DEF m, n
  <2>1. \A k, l \in 1..m : k # l => ~IsPrefix(Arguments[k], Arguments[l])
    BY DEF ArgumentsDiffer, m
  <2>2. QED  BY <1>2, <1>3, <2>1
<1>5. /\ top \in Seq(Letters) /\ visit \in Seq(Letters) /\ args[i] \in Seq(Letters)
      /\ IsPrefix(top, visit)
  BY VisitIsPath, ElementOfSeq DEF PackTypeOK
<1>6. Len(top) \in Nat /\ Len(args[i]) \in Nat
  BY <1>5, LenProperties
<1>7. CASE Len(top) <= Len(args[i])
  BY <1>4, <1>5, <1>7, PrefixBoth
<1>8. CASE Len(args[i]) <= Len(top)
  BY <1>4, <1>5, <1>8, PrefixBoth
<1>9. QED  BY <1>6, <1>7, <1>8

LEMMA OnceOthers ==
  ASSUME PackTypeOK, Once, PackScript \/ Fills \/ FileEnds \/ PackFinish \/ EditFile
  PROVE  Once'
<1>1. UNCHANGED <<args, stack, visit>> /\ (ppc' = "visit" <=> ppc = "visit")
  BY WalkStays
<1>2. DOMAIN tree' = DOMAIN tree
  BY FilesStay DEF SameFiles
<1>3. CASE PackScript
  <2>1. Len(packed') = 1
    BY <1>3 DEF PackScript
  <2>2. \A i \in 2..Len(packed') : FALSE
    BY <2>1
  <2>3. \A p : ~Did(p)'
    BY <2>2 DEF Did
  <2>4. QED  BY <1>1, <2>2, <2>3 DEF Once, Apart, Alone, NotAgain, ArgumentsDiffer
<1>4. CASE ~PackScript
  <2>1. Len(packed') = Len(packed) /\ \A i \in 2..Len(packed) : packed'[i].path = packed[i].path
    <3>1. CASE PackReads
      <4>1. PICK e \in Packed :
              /\ Len(packed) \in Nat /\ Len(packed') = Len(packed) /\ packed'[Len(packed)] = e
              /\ Last(packed) = packed[Len(packed)] /\ e.path = Last(packed).path
              /\ \A j \in 1..Len(packed) - 1 : packed'[j] = packed[j]
        BY <3>1, ReadGrows
      <4>2. ASSUME NEW i \in 2..Len(packed) PROVE packed'[i].path = packed[i].path
        <5>1. i = Len(packed) \/ i \in 1..Len(packed) - 1
          BY <4>1
        <5>2. QED  BY <4>1, <5>1
      <4>3. QED  BY <4>1, <4>2
    <3>2. CASE ~PackReads
      <4>1. packed' = packed
        BY <1>4, <3>2 DEF Fills, OpenFile, FlushWorks, ReadAgain, FileEnds, PackFinish, EditFile
      <4>2. QED  BY <4>1
    <3>3. QED  BY <3>1, <3>2
  <2>2. \A p : Did(p)' => Did(p)
    BY <2>1 DEF Did
  <2>3. \A p : Coming(p)' => Coming(p)
    BY <1>1 DEF Coming
  <2>4. ArgumentsDiffer => Apart' /\ Alone'
    BY <1>1 DEF Once, Apart, Alone
  <2>5. ArgumentsDiffer => NotAgain'
    BY <1>2, <2>2, <2>3 DEF Once, NotAgain
  <2>6. ArgumentsDiffer =>
          \A i, j \in 2..Len(packed') : packed'[i].path = packed'[j].path => i = j
    BY <2>1 DEF Once
  <2>7. QED  BY <2>4, <2>5, <2>6 DEF Once, ArgumentsDiffer
<1>5. QED  BY <1>3, <1>4

\* A path that has been packed is not come to: not as an argument, nor as an
\* entry that is left, nor below itself.
LEMMA OncePacked ==
  ASSUME PackTypeOK, Placed, Once, Packs
  PROVE  Once'
<1>1. PICK e \in Packed :
        /\ packed' = Append(packed, e) /\ e.path = visit /\ visit \in DOMAIN tree
        /\ UNCHANGED <<tree, args, visit>> /\ ppc = "visit"
  BY PackedIs
<1> SUFFICES ASSUME ArgumentsDiffer
             PROVE  /\ Apart' /\ Alone' /\ NotAgain'
                    /\ \A i, j \in 2..Len(packed') : packed'[i].path = packed'[j].path => i = j
  BY DEF Once, ArgumentsDiffer
<1>2. /\ Apart /\ NotAgain
      /\ \A k \in 1..Len(stack) : \A q \in stack[k].left : ~IsPrefix(q, visit)
      /\ \A i, j \in 2..Len(packed) : packed[i].path = packed[j].path => i = j
  BY <1>1 DEF Once, Alone
<1>3. /\ Len(packed) \in Nat /\ Len(packed') = Len(packed) + 1 /\ packed'[Len(packed) + 1] = e
      /\ \A i \in 1..Len(packed) : packed'[i] = packed[i]
  BY <1>1, AppendEnds DEF PackTypeOK
<1>4. visit \in Seq(Letters) /\ Len(visit) \in Nat /\ ppc' # "visit"
  <2>1. ppc' # "visit"
    BY DEF Packs, VisitFile, VisitLink, VisitDir, Turns, Back
  <2>2. QED  BY <1>1, <2>1, VisitIsPath, LenProperties
<1> DEFINE n == Len(stack)
           f == [dir |-> visit, left |-> Entries(visit)]
           Deeper == /\ Len(stack') = n + 1 /\ stack'[n + 1] = f
                     /\ \A k \in 1..n : stack'[k] = stack[k]
<1>5. n \in Nat /\ (stack' = stack \/ Deeper)
  <2>1. stack \in Seq(Frames) /\ n \in Nat
    BY LenProperties DEF PackTypeOK, Frames
  <2>2. f \in Frames
    BY <1>4 DEF Frames, Entries
  <2>3. stack' = stack \/ stack' = Append(stack, f)
    BY DEF Packs, VisitFile, VisitLink, VisitDir, walk
  <2> HIDE DEF f
  <2>4. stack' = Append(stack, f) => Deeper
    BY <2>1, <2>2, AppendEnds
  <2>5. QED  BY <2>1, <2>3, <2>4
<1>6. f.dir = visit /\ \A q \in f.left : q \in Seq(Letters) /\ Within(visit, q)
  <2>1. ASSUME NEW q \in Entries(visit) PROVE q \in Seq(Letters) /\ Within(visit, q)
    <3>1. q \in DOMAIN tree
      BY DEF Entries
    <3>2. QED  BY <1>4, <3>1, EntriesAre
  <2>2. QED  BY <2>1
<1> HIDE DEF f
<1>7. Apart'
  <2>1. CASE stack' = stack
    BY <1>2, <2>1 DEF Apart
  <2>2. CASE Deeper
    <3>1. ASSUME NEW k \in 1..n
          PROVE  Len(stack[k].dir) < Len(visit) /\ \A q \in stack[k].left : ~IsPrefix(q, visit)
      <4>1. stack # <<>> /\ stack \in Seq(Frames)
        BY <1>5, EmptySeq DEF PackTypeOK, Frames
      <4>2. Last(stack) = stack[n] /\ Last(stack) \in Frames /\ n \in 1..n /\ stack[k] \in Frames
        BY <4>1, EndOf, ElementOfSeq
      <4>3. Len(stack[k].dir) \in Nat /\ Len(stack[n].dir) \in Nat
        BY <4>2, LenProperties DEF Frames
      <4>4. Len(visit) = Len(stack[n].dir) + 1
        BY <1>1, <4>1, <4>2 DEF Placed, Within
      <4>5. k # n => Len(stack[k].dir) < Len(stack[n].dir)
        <5>1. k # n => k \in 1..n - 1
          BY <1>5
        <5>2. QED  BY <1>2, <4>2, <5>1 DEF Apart
      <4>6. Len(stack[k].dir) < Len(visit)
        BY <4>3, <4>4, <4>5
      <4>7. QED  BY <1>2, <4>6
    <3>2. ASSUME NEW m \in 1..Len(stack'), NEW k \in 1..m - 1
          PROVE  /\ Len(stack'[k].dir) < Len(stack'[m].dir)
                 /\ \A q \in stack'[k].left : ~IsPrefix(q, stack'[m].dir)
      <4>1. k \in 1..n /\ stack'[k] = stack[k]
        BY <1>5, <2>2
      <4>2. CASE m = n + 1
        BY <1>6, <2>2, <3>1, <4>1, <4>2
      <4>3. CASE m # n + 1
        <5>1. m \in 1..n /\ stack'[m] = stack[m]
          BY <1>5, <2>2, <4>3
        <5>2. QED  BY <1>2, <4>1, <5>1 DEF Apart
      <4>4. QED  BY <4>2, <4>3
    <3>3. QED  BY <3>2 DEF Apart
  <2>3. QED  BY <1>5, <2>1, <2>2
<1>8. ASSUME NEW p \in DOMAIN tree, Coming(p)'
      PROVE  Coming(p) /\ p # visit
  <2>1. CASE \E i \in 1..Len(args) : IsPrefix(args[i], p)
    <3>1. Coming(p)
      BY <2>1 DEF Coming
    <3>2. p # visit
      BY <1>1, <2>1, NoArgumentAgain
    <3>3. QED  BY <3>1, <3>2
  <2>2. CASE \E k \in 1..n : \E q \in stack[k].left : IsPrefix(q, p)
    BY <1>2, <2>2 DEF Coming
  <2>3. CASE \E q \in f.left : IsPrefix(q, p)
    <3>1. PICK q \in f.left : IsPrefix(q, p)
      BY <2>3
    <3>2. q \in Seq(Letters) /\ Within(visit, q) /\ Len(q) \in Nat
      BY <1>6, <3>1, LenProperties
    <3>3. Len(visit) < Len(q) /\ IsPrefix(visit, q)
      BY <1>4, <3>2 DEF Within
    <3>4. p # visit
      <4>1. ~IsPrefix(q, visit)
        BY <1>4, <3>2, <3>3, PrefixIs
      <4>2. QED  BY <3>1, <4>1
    <3>5. IsPrefix(visit, p)
      <4>1. p \in Seq(Letters)
        BY DEF PackTypeOK, TreeOK
      <4>2. QED  BY <1>4, <3>1, <3>2, <3>3, <4>1, PrefixTrans
    <3>6. QED  BY <1>1, <3>4, <3>5 DEF Coming
  <2>4. QED  BY <1>1, <1>4, <1>5, <1>8, <2>1, <2>2, <2>3, SMTT(30) DEF Coming
<1>9. ASSUME NEW p \in DOMAIN tree, Did(p)', Coming(p)'
      PROVE  FALSE
  <2>1. p # visit /\ Coming(p)
    BY <1>8, <1>9
  <2>2. PICK i \in 2..Len(packed') : packed'[i].path = p
    BY <1>9 DEF Did
  <2>3. i # Len(packed) + 1
    BY <1>1, <1>3, <2>1, <2>2
  <2>4. i \in 2..Len(packed) /\ packed[i].path = p
    BY <1>3, <2>2, <2>3
  <2>5. Did(p)
    BY <2>4 DEF Did
  <2>6. QED  BY <1>2, <2>1, <2>5 DEF NotAgain
<1>10. NotAgain' /\ Alone'
  BY <1>1, <1>4, <1>9 DEF NotAgain, Alone
<1>11. ~Did(visit)
  <2>1. Coming(visit)
    BY <1>1, <1>4, PrefixSame DEF Coming
  <2>2. QED  BY <1>1, <1>2, <2>1 DEF NotAgain
<1>12. ASSUME NEW i \in 2..Len(packed'), NEW j \in 2..Len(packed'),
              packed'[i].path = packed'[j].path
       PROVE  i = j
  <2>1. \A k \in 2..Len(packed') :
          \/ k = Len(packed) + 1 /\ packed'[k].path = visit
          \/ k \in 2..Len(packed) /\ packed'[k] = packed[k] /\ packed[k].path # visit
    <3> TAKE k \in 2..Len(packed')
    <3>1. CASE k = Len(packed) + 1
      BY <1>1, <1>3, <3>1
    <3>2. CASE k # Len(packed) + 1
      <4>1. k \in 2..Len(packed) /\ packed'[k] = packed[k]
        BY <1>3, <3>2
      <4>2. QED  BY <1>11, <4>1 DEF Did
    <3>3. QED  BY <3>1, <3>2
  <2>2. QED  BY <1>2, <1>12, <2>1
<1>13. QED  BY <1>7, <1>10, <1>12

-----------------------------------------------------------------------------
\* As long as no call has failed and no file fails to be read, what is gathered is
\* what has been packed, and that is what the walk has left behind.
PackInv ==
  /\ faults \in Nat
  /\ Quiet => /\ PackTypeOK /\ StreamInv /\ FileInv /\ EntriesInv
              /\ Placed /\ Covered /\ Once

LEMMA PackBegins ==
  ASSUME PackInit
  PROVE  PackInv
<1>1. tree \in Trees /\ PackStart
  BY DEF PackInit
<1>2. /\ ppc = "new" /\ args = Arguments /\ top = <<>> /\ stack = <<>> /\ visit = <<>>
      /\ offset = 0 /\ begin = 0 /\ tar = <<>> /\ chunks = <<>> /\ out = <<>>
      /\ ended = "no" /\ packed = <<>> /\ edits = 0 /\ faults = 0
  BY <1>1 DEF PackStart
<1>3. ~Filling /\ ~Walking
  BY <1>2 DEF Filling, Walking
<1>4. PackTypeOK
  <2>1. TreeOK
    BY <1>1, TreesAreOK
  <2>2. Arguments \in Seq(Seq(Letters)) /\ \A S : <<>> \in Seq(S)
    BY ArgumentsTyped, EmptySeq
  <2>3. QED  BY <1>2, <1>3, <2>1, <2>2 DEF PackTypeOK
<1>5. StreamInv
  <2>1. out \o chunks = <<>> /\ Plain(<<>>) = <<>>
    <3>1. <<>> \o <<>> = <<>>
      BY EmptySeq, ConcatEmptySeq
    <3>2. QED  BY <1>2, <3>1, NothingYet
  <2>2. Gathered = <<>>
    BY <1>2, <2>1, EmptySeq, ConcatEmptySeq DEF Gathered
  <2>3. Due = <<>>
    BY <1>2, <1>3, NothingYet DEF Due
  <2>4. QED  BY <1>2, <1>3, <2>2, <2>3 DEF StreamInv
<1>6. FileInv
  BY <1>2, <1>3 DEF FileInv
<1>7. Len(packed) = 0 /\ Len(stack) = 0 /\ Len(Arguments) \in Nat
  BY <1>2, EmptySeq, ArgumentsTyped
<1>8. (\A i \in 2..Len(packed) : FALSE) /\ \A k \in 1..Len(stack) : FALSE
  BY <1>7
<1>9. EntriesInv
  BY <1>8 DEF EntriesInv
<1>10. Placed
  <2>1. Len(args) <= Len(Arguments)
        /\ \A i \in 1..Len(args) : args[i] = Arguments[Len(Arguments) - Len(args) + i]
    <3>1. \A i \in 1..Len(Arguments) : Len(Arguments) - Len(Arguments) + i = i
      BY <1>7
    <3>2. Len(Arguments) <= Len(Arguments)
      BY <1>7
    <3>3. QED  BY <1>2, <3>1, <3>2
  <2>2. QED  BY <1>2, <1>3, <1>8, <2>1 DEF Placed
<1>11. Covered
  BY <1>2 DEF Covered, Coming
<1>12. Once
  BY <1>2, <1>8 DEF Once, Apart, Alone, NotAgain, Did
<1>13. QED  BY <1>2, <1>4, <1>5, <1>6, <1>9, <1>10, <1>11, <1>12 DEF PackInv

LEMMA PackGoesOn ==
  ASSUME PackInv, [PackNext]_packVars
  PROVE  PackInv'
<1>1. CASE PackNext
  <2>1. faults' \in Nat
    <3>1. faults' = faults \/ faults' = faults + 1
      BY <1>1 DEF PackNext, Program, PackScript, TakeArgument, VisitFile, VisitLink, VisitDir, NextEntry,
         LeaveDir, OpenFile, FlushWorks, PackReads, ReadFails, ReadAgain, FileEnds, PackFinish,
         ScriptFails, DirCrashes, VisitFails, OpenFails, FlushFails, FinishFails, EditFile, CallFails
    <3>2. QED  BY <3>1 DEF PackInv
  <2>2. SUFFICES ASSUME Quiet'
                 PROVE  /\ PackTypeOK' /\ StreamInv' /\ FileInv' /\ EntriesInv'
                        /\ Placed' /\ Covered' /\ Once'
    BY <2>1 DEF PackInv
  <2>3. /\ Quiet
        /\ PackScript \/ Walks \/ Packs \/ Fills \/ FileEnds \/ PackFinish \/ EditFile
    BY <1>1, <2>2, QuietStep DEF PackInv
  <2>4. PackTypeOK /\ StreamInv /\ FileInv /\ EntriesInv /\ Placed /\ Covered /\ Once
    BY <2>3 DEF PackInv
  <2>5. Covered'
    BY <2>3, <2>4, CoveredKept
  <2>6. CASE Walks
    BY <2>4, <2>5, <2>6, WalkTyped, StreamWalked, FileOthers, EntriesOthers, PlacedWalked, OnceWalked
  <2>7. CASE Packs
    BY <2>4, <2>5, <2>7, PackTyped, StreamPacked, FilePacked, EntriesPacked, PlacedPacked, OncePacked
  <2>8. CASE Fills
    BY <2>4, <2>5, <2>8, FillTyped, StreamFilled, FileFilled, EntriesFilled, PlacedOthers, OnceOthers
  <2>9. CASE PackScript
    BY <2>4, <2>5, <2>9, OthersTyped, StreamStarted, FileOthers, EntriesOthers, PlacedOthers, OnceOthers
  <2>10. CASE FileEnds
    BY <2>4, <2>5, <2>10, OthersTyped, StreamPadded, FileOthers, EntriesEnded, PlacedOthers, OnceOthers
  <2>11. CASE PackFinish
    BY <2>4, <2>5, <2>11, OthersTyped, StreamFinished, FileOthers, EntriesOthers, PlacedOthers,
       OnceOthers
  <2>12. CASE EditFile
    BY <2>4, <2>5, <2>12, OthersTyped, StreamWalked, FileOthers, EntriesOthers, PlacedOthers, OnceOthers
  <2>13. QED  BY <2>3, <2>6, <2>7, <2>8, <2>9, <2>10, <2>11, <2>12
<1>2. CASE UNCHANGED packVars
  <2>1. UNCHANGED <<tree, compress, broken, ppc, args, top, stack, visit, offset, begin, tar, chunks,
                    out, ended, packed, edits, faults>>
    BY <1>2 DEF packVars
  <2>2. (Quiet' <=> Quiet) /\ (Filling' <=> Filling) /\ (Walking' <=> Walking)
    BY <2>1 DEF Quiet, Filling, Walking
  <2>3. PackTypeOK => PackTypeOK'
    BY <2>1, <2>2 DEF PackTypeOK, TreeOK, Sendable
  <2>4. StreamInv => StreamInv'
    BY <2>1, <2>2 DEF StreamInv, Gathered, Due, Plain
  <2>5. (FileInv => FileInv') /\ (EntriesInv => EntriesInv') /\ (Placed => Placed')
    BY <2>1, <2>2 DEF FileInv, EntriesInv, Placed
  <2>6. (\A p : Did(p)' <=> Did(p)) /\ (\A p : Coming(p)' <=> Coming(p))
    BY <2>1 DEF Did, Coming
  <2>7. Covered => Covered'
    BY <2>1, <2>6 DEF Covered
  <2>8. Once => Once'
    BY <2>1, <2>6 DEF Once, Apart, Alone, NotAgain, ArgumentsDiffer
  <2>9. QED  BY <2>1, <2>2, <2>3, <2>4, <2>5, <2>7, <2>8 DEF PackInv
<1>3. QED  BY <1>1, <1>2

LEMMA PackInvSays ==
  ASSUME PackInv
  PROVE  PackedIsFaithful
<1> SUFFICES ASSUME ended = "ok", Quiet
             PROVE  /\ Plain(out) = Stream(packed) \o End
                    /\ packed # <<>> /\ packed[1].item = ScriptItem
                    /\ \A i \in 2..Len(packed) :
                         /\ packed[i].path \in Below /\ Describes(packed[i])
                         /\ edits = 0 => IsWhole(packed[i])
                    /\ ArgumentsDiffer =>
                         \A i, j \in 2..Len(packed) : packed[i].path = packed[j].path => i = j
                    /\ (\A p \in DOMAIN tree : tree[p].type \in Packable) =>
                         Below \subseteq {packed[i].path : i \in 2..Len(packed)}
  BY DEF PackedIsFaithful, Quiet
<1>1. PackTypeOK /\ StreamInv /\ EntriesInv /\ Placed /\ Covered /\ Once
  BY DEF PackInv
<1>2. ppc = "exited" /\ Plain(out) = Stream(packed) \o End /\ packed # <<>>
      /\ packed[1].item = ScriptItem
  BY <1>1 DEF StreamInv
<1>3. ~Filling /\ args = <<>> /\ stack = <<>>
  BY <1>1, <1>2 DEF Filling, Placed, PackTypeOK
<1>4. ASSUME NEW i \in 2..Len(packed)
      PROVE  /\ packed[i].path \in Below /\ Describes(packed[i])
             /\ edits = 0 => IsWhole(packed[i])
  <2>1. Listed(tree, packed[i]) /\ (edits = 0 => Filled(tree, packed[i]))
    BY <1>1, <1>3 DEF EntriesInv
  <2>2. QED  BY <2>1 DEF Listed, Filled, Below, Describes, IsWhole
<1>5. ASSUME \A p \in DOMAIN tree : tree[p].type \in Packable, NEW p \in Below
      PROVE  p \in {packed[i].path : i \in 2..Len(packed)}
  <2>1. p \in DOMAIN tree /\ \E i \in 1..Len(Arguments) : IsPrefix(Arguments[i], p)
    BY DEF Below
  <2>2. Did(p) \/ Coming(p)
    BY <1>1, <1>5, <2>1 DEF Covered, AllPackable
  <2>3. ~Coming(p)
    <3>1. (\A i \in 1..Len(args) : FALSE) /\ (\A k \in 1..Len(stack) : FALSE)
      BY <1>3, EmptySeq
    <3>2. QED  BY <1>2, <3>1 DEF Coming
  <2>4. QED  BY <2>2, <2>3 DEF Did
<1>6. QED  BY <1>1, <1>2, <1>4, <1>5 DEF Once

\* As long as no call of pkg-pack has failed: what has been written and is in the
\* buffers is the entries that have been packed; each says what its path is, and
\* holds what was read of it; and the walk has left behind, of the paths below the
\* arguments, those, and no other if all can be packed (pkg-pack.c:157-284).
THEOREM PackInvariant == PackSpec => []PackInv
<1>1. PackInit => PackInv
  BY PackBegins
<1>2. PackInv /\ [PackNext]_packVars => PackInv'
  BY PackGoesOn
<1>3. QED  BY <1>1, <1>2, PTL DEF PackSpec

\* For whatever files and arguments, whatever the limits of the buffers, and with
\* or without compression: after a success without failures pkg-pack has written
\* the script, then each path below its arguments, named and described as it is,
\* all its contents, if they were not edited, and the end of the archive.
THEOREM PackedAsGiven == PackSpec => []PackedIsFaithful
<1>1. PackInv => PackedIsFaithful
  BY PackInvSays
<1>2. QED  BY <1>1, PackInvariant, PTL
=============================================================================
