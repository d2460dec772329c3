------------------------------ MODULE FileStore ------------------------------
(***************************************************************************)
(* Processes that add files to one content-addressed store                 *)
(* (filestore/filestore.c, filestore/filestore-add.util.c).  A file is kept *)
(* under the digest of its content; the store is only a directory, so that *)
(* link(2), open(2), unlink(2) are the atomic steps, and several processes *)
(* take them with no lock.  An adder that finds its path taken checks what *)
(* is there, and replaces it when it does not match its digest.            *)
(*                                                                         *)
(* A content stands for its digest too: digests are assumed not to collide. *)
(* The sources lie outside the store, and other programs may write them.   *)
(* An adder adds one file: the next one of its command line begins anew.    *)
(***************************************************************************)
EXTENDS Integers, FiniteSets

CONSTANTS
  Adders,        \* processes
  Sources,       \* files outside the store
  Contents,      \* contents, and so paths of the store
  Ops,           \* what an adder may have been asked to do
  MaxFaults,     \* bound: crashes and failed system calls in a behaviour
  MaxEdits       \* bound: times another program writes a source

Absent == [kind |-> "absent"]

\* A copy holds its content; a link shares what its source holds.
Copy(content) == [kind |-> "copy", content |-> content]
Link(source) == [kind |-> "link", source |-> source]

ASSUME OpsAssumption ==
  Ops \subseteq [source : Sources, type : {"copy", "link"},
                 replace : BOOLEAN, existing_only : BOOLEAN]

ASSUME BoundsAssumption == MaxFaults \in Nat /\ MaxEdits \in Nat

VARIABLES
  held,     \* held[s]: the content of a source
  store,    \* store[p]: what is at the path of content p
  dirs,     \* the paths whose directories exist
  tmp,      \* adders whose temporary file exists
  op,       \* op[a]: what adder a was asked to do
  pc,       \* pc[a]: the system call adder a is about to make, or how it ended
  digest,   \* digest[a]: the content it has read, and the path it will use
  opened,   \* opened[a]: the file open for conflict resolution
  unlinked, \* history: adders that have unlinked the path they use
  faults,   \* history: crashes and failed calls so far
  edits     \* history: times a source was written

vars == <<held, store, dirs, tmp, op, pc, digest, opened, unlinked, faults, edits>>

Init ==
  /\ held \in [Sources -> Contents]
  /\ store \in [Contents -> {Absent} \cup {Copy(c) : c \in Contents}]
  /\ dirs \in SUBSET Contents /\ \A p \in Contents : store[p] # Absent => p \in dirs
  /\ tmp = {} /\ op \in [Adders -> Ops]
  /\ pc = [a \in Adders |-> "digest"]
  /\ digest = [a \in Adders |-> held[op[a].source]]
  /\ opened = [a \in Adders |-> Absent]
  /\ unlinked = {} /\ faults = 0 /\ edits = 0

Ended == {"added", "skipped", "failed", "crashed"}

Content(file) == IF file.kind = "copy" THEN file.content ELSE held[file.source]

\* Mutant: an adder that fails leaves its temporary file.
Goes_LeavesTmp(a, where) ==
  /\ pc' = [pc EXCEPT ![a] = where]
  /\ tmp' = IF where \in {"added", "skipped"} THEN tmp \ {a} ELSE tmp

\* The adder's next call, and the end of the temporary file when it returns.
Goes(a, where) ==
  /\ pc' = [pc EXCEPT ![a] = where]
  /\ tmp' = IF where \in Ended THEN tmp \ {a} ELSE tmp

\* Mutant: the arguments of link(2) are swapped.
Offered_Swapped(a) ==
  IF op[a].type = "copy" THEN Copy(digest[a]) ELSE Link(digest[a])

\* What the adder links into the store: its temporary copy, or the source.
Offered(a) ==
  IF op[a].type = "copy" THEN Copy(digest[a]) ELSE Link(op[a].source)

Put(a, file) == store' = [store EXCEPT ![digest[a]] = file]

-----------------------------------------------------------------------------
\* Mutant: --existing-only is forgotten.
Digest_NeverStats(a) ==
  /\ pc[a] = "digest" /\ pc' = [pc EXCEPT ![a] = "mkdir"]
  /\ digest' = [digest EXCEPT ![a] = held[op[a].source]]
  /\ tmp' = IF op[a].type = "copy" THEN tmp \cup {a} ELSE tmp
  /\ UNCHANGED <<held, store, dirs, op, opened, unlinked, faults, edits>>

\* metahash_fd: read the source; a copy is written as it is read, so that it
\* has the content that was digested.
Digest(a) ==
  /\ pc[a] = "digest"
  /\ pc' = [pc EXCEPT ![a] = IF op[a].existing_only THEN "stat" ELSE "mkdir"]
  /\ digest' = [digest EXCEPT ![a] = held[op[a].source]]
  /\ tmp' = IF op[a].type = "copy" THEN tmp \cup {a} ELSE tmp
  /\ UNCHANGED <<held, store, dirs, op, opened, unlinked, faults, edits>>

Stat(a) ==
  /\ pc[a] = "stat"
  /\ Goes(a, IF store[digest[a]] = Absent THEN "skipped" ELSE "mkdir")
  /\ UNCHANGED <<held, store, dirs, op, digest, opened, unlinked, faults, edits>>

\* Mutant: a directory that is there is a failure like any other.
MakeDirectories_Exist(a) ==
  /\ pc[a] = "mkdir" /\ dirs' = dirs \cup {digest[a]}
  /\ Goes(a, IF digest[a] \in dirs THEN "failed" ELSE "link")
  /\ UNCHANGED <<held, store, op, digest, opened, unlinked, faults, edits>>

\* mkdir_parents: the directories that another adder has made meanwhile will do.
MakeDirectories(a) ==
  /\ pc[a] = "mkdir" /\ dirs' = dirs \cup {digest[a]}
  /\ Goes(a, "link")
  /\ UNCHANGED <<held, store, op, digest, opened, unlinked, faults, edits>>

\* Mutant: EEXIST is a failure like any other.
MakeLink_NoResolve(a) ==
  /\ pc[a] = "link"
  /\ IF store[digest[a]] = Absent
     THEN Put(a, Offered(a)) /\ Goes(a, "added")
     ELSE Goes(a, "failed") /\ UNCHANGED store
  /\ UNCHANGED <<held, dirs, op, digest, opened, unlinked, faults, edits>>

\* link(2) or symlink(2): the one step that tells whether the path is free.
MakeLink(a) ==
  /\ pc[a] = "link"
  /\ IF digest[a] \in dirs /\ store[digest[a]] = Absent
     THEN Put(a, Offered(a)) /\ Goes(a, "added")
     ELSE Goes(a, IF digest[a] \in dirs THEN "open" ELSE "failed") /\ UNCHANGED store
  /\ UNCHANGED <<held, dirs, op, digest, opened, unlinked, faults, edits>>

\* resolve_conflict begins: the path may be free again by now.
Open(a) ==
  /\ pc[a] = "open"
  /\ opened' = [opened EXCEPT ![a] = store[digest[a]]]
  /\ Goes(a, IF store[digest[a]] = Absent THEN "failed"
             ELSE IF op[a].replace THEN "unlink" ELSE "check")
  /\ UNCHANGED <<held, store, dirs, op, digest, unlinked, faults, edits>>

\* Mutant: what is there is taken to be right.
Check_Never(a) ==
  /\ pc[a] = "check" /\ Goes(a, "added")
  /\ UNCHANGED <<held, store, dirs, op, digest, opened, unlinked, faults, edits>>

\* Mutant: what is there is never taken to be right.
Check_Always(a) ==
  /\ pc[a] = "check" /\ Goes(a, "unlink")
  /\ UNCHANGED <<held, store, dirs, op, digest, opened, unlinked, faults, edits>>

\* The open file is digested, whether or not it is still in the store.
Check(a) ==
  /\ pc[a] = "check"
  /\ Goes(a, IF Content(opened[a]) = digest[a] THEN "added" ELSE "unlink")
  /\ UNCHANGED <<held, store, dirs, op, digest, opened, unlinked, faults, edits>>

Unlink(a) ==
  /\ pc[a] = "unlink"
  /\ Put(a, Absent) /\ Goes(a, "relink")
  /\ unlinked' = unlinked \cup {a}
  /\ UNCHANGED <<held, dirs, op, digest, opened, faults, edits>>

\* The path may have been taken again.
Relink(a) ==
  /\ pc[a] = "relink"
  /\ IF digest[a] \in dirs /\ store[digest[a]] = Absent
     THEN Put(a, Offered(a)) /\ Goes(a, "added")
     ELSE Goes(a, "failed") /\ UNCHANGED store
  /\ UNCHANGED <<held, dirs, op, digest, opened, unlinked, faults, edits>>

\* A system call fails.  A failed stat(2) is taken for a path that is free, a
\* file that cannot be digested is replaced, and the result of unlink(2) is
\* not looked at; any other failure ends the adder.
CallFails(a) ==
  /\ pc[a] \notin Ended /\ faults < MaxFaults
  /\ Goes(a, CASE pc[a] = "stat" -> "skipped"
               [] pc[a] = "check" -> "unlink"
               [] pc[a] = "unlink" -> "relink"
               [] OTHER -> "failed")
  /\ faults' = faults + 1
  /\ UNCHANGED <<held, store, dirs, op, digest, opened, unlinked, edits>>

\* The adder is killed, and its temporary file stays.
Crash(a) ==
  /\ pc[a] \notin Ended /\ faults < MaxFaults
  /\ pc' = [pc EXCEPT ![a] = "crashed"] /\ faults' = faults + 1
  /\ UNCHANGED <<held, store, dirs, tmp, op, digest, opened, unlinked, edits>>

\* Another program writes a source, and so whatever is linked to it.
Edit(s) ==
  /\ edits < MaxEdits /\ edits' = edits + 1
  /\ \E c \in Contents : held' = [held EXCEPT ![s] = c]
  /\ UNCHANGED <<store, dirs, tmp, op, pc, digest, opened, unlinked, faults>>

Next ==
  \/ \E a \in Adders :
       \/ Digest(a) \/ Stat(a) \/ MakeDirectories(a) \/ MakeLink(a) \/ Open(a)
       \/ Check(a) \/ Unlink(a) \/ Relink(a) \/ CallFails(a) \/ Crash(a)
  \/ \E s \in Sources : Edit(s)

Spec == Init /\ [][Next]_vars

-----------------------------------------------------------------------------
Files == {Absent} \cup {Copy(c) : c \in Contents} \cup {Link(s) : s \in Sources}

\* Types.
TypeOK ==
  /\ held \in [Sources -> Contents] /\ op \in [Adders -> Ops]
  /\ store \in [Contents -> Files] /\ opened \in [Adders -> Files]
  /\ pc \in [Adders -> Ended \cup {"digest", "stat", "mkdir", "link", "open", "check",
                                   "unlink", "relink"}]
  /\ dirs \subseteq Contents /\ digest \in [Adders -> Contents] /\ tmp \subseteq Adders
  /\ unlinked \subseteq Adders
  /\ faults \in 0..MaxFaults /\ edits \in 0..MaxEdits

\* The other adders that have unlinked the path that adder a uses.
Rivals(a) == {b \in unlinked \ {a} : digest[b] = digest[a]}

\* Once every adder has ended, the store holds, whole, every file one of them
\* reported as added, however they raced to create it and to replace a damaged
\* one: except where an adder was stopped after it had unlinked the path.  A
\* store of copies keeps this promise whatever becomes of the sources; links
\* keep it while nobody writes them.
ReportedIsStored ==
  /\ \A a \in Adders : pc[a] \in Ended
  /\ edits = 0 \/ \A a \in Adders : op[a].type = "copy"
  => \A a \in Adders : pc[a] = "added" =>
       \/ store[digest[a]] # Absent /\ Content(store[digest[a]]) = digest[a]
       \/ faults > 0 /\ \E b \in Rivals(a) : pc[b] \in {"failed", "crashed"}

\* No adder fails on account of another one, unless one of the two has unlinked
\* the path: adders of a file that is there and whole never hurt each other.
FailureHasRival ==
  \A a \in Adders : pc[a] = "failed" =>
    \/ faults > 0 \/ Rivals(a) # {}
    \/ a \in unlinked
       /\ \E b \in Adders \ {a} : pc[b] = "added" /\ digest[b] = digest[a]

\* A file that is in the store whole is only unlinked by an adder told to
\* replace it, by one that opened another file, one since replaced or written,
\* or by one that could not read it.
WholeFileIsKept ==
  [][\A a \in Adders :
       LET p == digest[a] IN
       /\ store[p] # Absent /\ store'[p] = Absent
       /\ Content(store[p]) = p /\ pc[a] = "unlink" /\ pc'[a] = "relink"
       => \/ op[a].replace \/ opened[a] # store[p]
          \/ edits > 0 \/ faults > 0]_vars

\* With --existing-only a path that nothing was at is left alone: an adder
\* creates a file only where it, or another, has just removed one.
ExistingOnlyCreatesNothing ==
  [][\A a \in Adders :
       /\ op[a].existing_only /\ pc[a] # "added" /\ pc'[a] = "added"
       /\ store[digest[a]] = Absent
       => a \in unlinked \/ Rivals(a) # {}]_vars

\* The temporary files are those of the copies under way, which each still has,
\* and of the adders that were killed.
TmpIsRemoved ==
  /\ \A a \in Adders : op[a].type = "copy" /\ pc[a] \notin Ended \cup {"digest"}
       => a \in tmp
  /\ \A a \in tmp : pc[a] \notin Ended \ {"crashed"}

\* What filestore-add promises those who call it at once: a file reported as added
\* is stored, an adder fails only for a reason, and no temporary file stays.
Promises == ReportedIsStored /\ FailureHasRival /\ TmpIsRemoved
=============================================================================
