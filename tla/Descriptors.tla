---------------------------- MODULE Descriptors ----------------------------
(***************************************************************************)
(* Who has which descriptors after the calls of two libraries.             *)
(*                                                                         *)
(* network/network.c: its calls, one after another, by a program that may  *)
(* close what it was given: which descriptors and address lists are there  *)
(* after each, when the system calls in them may fail.  bind_socket        *)
(* unlocks a mutex that nothing locks, which is left out.                  *)
(*                                                                         *)
(* pipe_program (pipe-program/pipe-program.c): a program is to run in a    *)
(* child whose standard descriptors are the caller's own, or the ends of   *)
(* pipes to it.  A file is what a descriptor stands for: one of the        *)
(* caller's, or an end of a pipe.  Whether pipe(2) or fork(2) has failed   *)
(* is not asked: after the one, the two ends are what an array on the      *)
(* stack happens to hold; after the other, the caller goes on without a    *)
(* child.                                                                  *)
(***************************************************************************)
EXTENDS Integers, FiniteSets, Functions

CONSTANTS
  NetDescriptors,  \* descriptors there can be
  MaxNetFaults     \* bound: system calls that fail

ASSUME NetAssumption == NetDescriptors \subseteq Nat /\ MaxNetFaults \in Nat

CallNames == {"tcp_connect", "tcp_connect_stream", "tcp_host", "udp_host", "tcp_listen",
              "tcp_listen_stream", "udp_recv"}

VARIABLES
  open,       \* descriptors that are open
  infos,      \* lists of getaddrinfo(3) that were not freed
  netHeld,    \* what the program was given: [fd, of |-> "socket", "stream" or "host"]
  called,     \* the function in progress, or "none"
  at,         \* the system call it makes next
  fd,         \* its descriptor
  netFaults,  \* history: system calls that failed
  forgotten   \* history: descriptors that fdopen(3) failed for

netVars == <<open, infos, netHeld, called, at, fd, netFaults, forgotten>>

NoFd == -1

NetInit == /\ open = {} /\ infos = 0 /\ netHeld = {}
           /\ called = "none" /\ at = "none" /\ fd = NoFd /\ netFaults = 0 /\ forgotten = {}

Hosts == {"tcp_host", "udp_host"}
Connects == {"tcp_connect", "tcp_connect_stream"}
Listens == {"tcp_listen", "tcp_listen_stream"}
Streams == {"tcp_connect_stream", "tcp_listen_stream"}

NetFails == netFaults < MaxNetFaults /\ netFaults' = netFaults + 1
NewFd == CHOOSE d \in NetDescriptors \ open : \A other \in NetDescriptors \ open : d <= other

\* The call returns a descriptor, or -1.
GivesUp == called' = "none" /\ at' = "none" /\ fd' = NoFd /\ UNCHANGED netHeld
ReturnsFd(d, of) == /\ netHeld' = netHeld \cup {[fd |-> d, of |-> of]}
                    /\ called' = "none" /\ at' = "none" /\ fd' = NoFd

\* A call that listens, or receives, is of a descriptor of a host.
NetCall(f) ==
  /\ called = "none" /\ called' = f
  /\ IF f \in Hosts \cup Connects
     THEN at' = "getaddrinfo" /\ UNCHANGED fd
     ELSE /\ \E h \in netHeld : h.of = "host" /\ fd' = h.fd
          /\ at' = IF f = "udp_recv" THEN "recvfrom" ELSE "listen"
  /\ UNCHANGED <<open, infos, netHeld, netFaults, forgotten>>

\* get_info.
GetsInfo ==
  /\ at = "getaddrinfo"
  /\ infos' = infos + 1 /\ at' = "socket"
  /\ UNCHANGED <<open, netHeld, called, fd, netFaults, forgotten>>
GetInfoFails == /\ at = "getaddrinfo" /\ NetFails /\ GivesUp /\ UNCHANGED <<open, infos, forgotten>>

\* create_socket; all who call it free the list when it fails.
CreatesSocket ==
  /\ at = "socket" /\ NetDescriptors \ open # {}
  /\ fd' = NewFd /\ open' = open \cup {NewFd}
  /\ at' = IF called \in Hosts THEN "bind" ELSE "connect"
  /\ UNCHANGED <<infos, netHeld, called, netFaults, forgotten>>
CreateSocketFails ==
  /\ at = "socket"
  /\ IF NetDescriptors \subseteq open THEN UNCHANGED netFaults ELSE NetFails
  /\ infos' = infos - 1 /\ GivesUp /\ UNCHANGED <<open, forgotten>>

\* tcp_connect and bind_socket.
Attaches ==
  /\ at \in {"connect", "bind"}
  /\ infos' = infos - 1
  /\ IF called = "tcp_connect_stream"
     THEN at' = "fdopen" /\ UNCHANGED <<netHeld, called, fd>>
     ELSE ReturnsFd(fd, IF called \in Hosts THEN "host" ELSE "socket")
  /\ UNCHANGED <<open, netFaults, forgotten>>

\* Mutant: a socket that does not connect is left open.
AttachFails_LeavesOpen ==
  /\ at \in {"connect", "bind"} /\ NetFails
  /\ infos' = infos - 1 /\ GivesUp /\ UNCHANGED <<open, forgotten>>

AttachFails ==
  /\ at \in {"connect", "bind"} /\ NetFails
  /\ infos' = infos - 1 /\ open' = open \ {fd} /\ GivesUp /\ UNCHANGED forgotten

\* tcp_listen: listen(2) each time, and accept(2).
ListensOn ==
  /\ at = "listen"
  /\ at' = "accept"
  /\ UNCHANGED <<open, infos, netHeld, called, fd, netFaults, forgotten>>
ListenFails ==
  /\ at \in {"listen", "accept"}
  /\ IF at = "accept" /\ NetDescriptors \subseteq open THEN UNCHANGED netFaults ELSE NetFails
  /\ GivesUp /\ UNCHANGED <<open, infos, forgotten>>
Accepts ==
  /\ at = "accept" /\ NetDescriptors \ open # {}
  /\ open' = open \cup {NewFd}
  /\ IF called \in Streams
     THEN at' = "fdopen" /\ fd' = NewFd /\ UNCHANGED <<netHeld, called>>
     ELSE ReturnsFd(NewFd, "socket")
  /\ UNCHANGED <<infos, netFaults, forgotten>>

\* fdopen(3): when it fails the descriptor is forgotten (and tcp_listen_stream
\* does not go on).
Fdopens == at = "fdopen" /\ ReturnsFd(fd, "stream") /\ UNCHANGED <<open, infos, netFaults, forgotten>>
FdopenFails ==
  /\ at = "fdopen" /\ NetFails
  /\ IF called = "tcp_listen_stream"
     THEN called' = "abort" /\ at' = "none" /\ UNCHANGED <<netHeld, fd>>
     ELSE GivesUp
  /\ forgotten' = forgotten \cup {fd} /\ UNCHANGED <<open, infos>>

\* udp_recv: -1, whether a datagram came or none.
Receives == at = "recvfrom" /\ GivesUp /\ UNCHANGED <<open, infos, netFaults, forgotten>>

ProgramCloses ==
  /\ called = "none"
  /\ \E h \in netHeld : netHeld' = netHeld \ {h} /\ open' = open \ {h.fd}
  /\ UNCHANGED <<infos, called, at, fd, netFaults, forgotten>>

NetNext == \/ \E f \in CallNames : NetCall(f)
           \/ GetsInfo \/ GetInfoFails \/ CreatesSocket \/ CreateSocketFails
           \/ Attaches \/ AttachFails \/ ListensOn \/ ListenFails \/ Accepts
           \/ Fdopens \/ FdopenFails \/ Receives \/ ProgramCloses

NetSpec == NetInit /\ [][NetNext]_netVars

-----------------------------------------------------------------------------
\* Between two calls the program holds every descriptor that is open, each once,
\* and no list is left, whichever of the system calls have failed; only an fdopen
\* that fails takes a descriptor away from it (network.c:114-131).
DescriptorsAreHeld ==
  called = "none" =>
    /\ infos = 0
    /\ {h.fd : h \in netHeld} \subseteq open
    /\ Cardinality(netHeld) = Cardinality({h.fd : h \in netHeld})
    /\ open = {h.fd : h \in netHeld} \cup forgotten

-----------------------------------------------------------------------------
\* pipe_program.

CONSTANTS
  CallerTables,   \* the descriptors the caller may have: sets of numbers
  MaxDescriptor,  \* bound: enough for three pipes more
  Uninitialised   \* what an int on the stack may hold: numbers

ASSUME PipeAssumption ==
  /\ MaxDescriptor \in Nat /\ Uninitialised \subseteq Int
  /\ \A descriptors \in CallerTables :
       descriptors \subseteq 0..MaxDescriptor /\ Cardinality(descriptors) + 6 <= MaxDescriptor + 1

VARIABLES
  wanted_io,      \* what the caller put in the pipe_io: a descriptor, or NoPipeEnd
  io, child_side, \* the pipe_io, and that of the child
  parentFds,      \* the file behind each descriptor of the caller
  childFds,       \* and of the child
  parentAt,       \* what each of them does next
  childAt,
  unmade          \* history: fields whose pipe(2) failed

pipeVars == <<wanted_io, io, child_side, parentFds, childFds, parentAt, childAt, unmade>>

NoPipeEnd == -1
Stdio == [in |-> 0, out |-> 1, err |-> 2]
Fields == DOMAIN Stdio
Own(d) == <<"own", d>>
ReadEnd(field) == <<"read", field>>
WriteEnd(field) == <<"write", field>>

PipeInit ==
  /\ \E descriptors \in CallerTables :
       /\ parentFds = [d \in descriptors |-> Own(d)]
       /\ wanted_io \in [Fields -> descriptors \cup {NoPipeEnd}]
  /\ io = wanted_io /\ child_side = [field \in Fields |-> NoPipeEnd]
  /\ childFds = <<>> /\ parentAt = "err" /\ childAt = "none" /\ unmade = {}

\* pipe(2) gives the two lowest descriptors that are free, the end to read first.
FreeFds == 0..MaxDescriptor \ DOMAIN parentFds
FirstFree == CHOOSE d \in FreeFds : \A other \in FreeFds : d <= other
SecondFree == CHOOSE d \in FreeFds \ {FirstFree} : \A other \in FreeFds \ {FirstFree} : d <= other

\* A table with a descriptor that stands for a file from now on.
WithFile(fds, d, file) == [e \in DOMAIN fds \cup {d} |-> IF e = d THEN file ELSE fds[e]]

\* setup_pipe: for each of the three in turn, a descriptor goes to the child, or
\* a pipe is made, which the child reads from or writes to.
SetupPipe(field, next) ==
  /\ parentAt = field /\ parentAt' = next
  /\ IF io[field] < 0
     THEN /\ parentFds' = WithFile(WithFile(parentFds, FirstFree, ReadEnd(field)),
                                  SecondFree, WriteEnd(field))
          /\ io' = [io EXCEPT ![field] = IF field = "in" THEN SecondFree ELSE FirstFree]
          /\ child_side' = [child_side EXCEPT ![field] =
                              IF field = "in" THEN FirstFree ELSE SecondFree]
     ELSE /\ child_side' = [child_side EXCEPT ![field] = io[field]]
          /\ io' = [io EXCEPT ![field] = NoPipeEnd]
          /\ UNCHANGED parentFds
  /\ UNCHANGED <<wanted_io, childFds, childAt, unmade>>

\* pipe(2) fails, and pipe_tmp is used as if it had not.
SetupPipeFails(field, next) ==
  /\ parentAt = field /\ parentAt' = next /\ io[field] < 0
  /\ \E kept, given \in Uninitialised :
       io' = [io EXCEPT ![field] = kept] /\ child_side' = [child_side EXCEPT ![field] = given]
  /\ unmade' = unmade \cup {field}
  /\ UNCHANGED <<wanted_io, parentFds, childFds, childAt>>

Forks ==
  /\ parentAt = "fork" /\ parentAt' = "close"
  /\ childFds' = parentFds /\ childAt' = "close"
  /\ UNCHANGED <<wanted_io, io, child_side, parentFds, unmade>>

\* fork(2) returns -1, which is not 0 either.
ForkFails ==
  /\ parentAt = "fork" /\ parentAt' = "close"
  /\ UNCHANGED <<wanted_io, io, child_side, parentFds, childFds, childAt, unmade>>

\* close_maybe of the three.
WithoutEnds(fds, ends) == Restrict(fds, DOMAIN fds \ Range(ends))

\* Mutant: the child keeps the caller's ends.
ChildCloses_Keeps ==
  /\ childAt = "close" /\ childAt' = "err"
  /\ UNCHANGED <<wanted_io, io, child_side, parentFds, childFds, parentAt, unmade>>

ChildCloses ==
  /\ childAt = "close" /\ childAt' = "err"
  /\ childFds' = WithoutEnds(childFds, io)
  /\ UNCHANGED <<wanted_io, io, child_side, parentFds, parentAt, unmade>>

\* dup2_maybe, and the test of what it returns: dup2(2) returns the descriptor it
\* has made, or -1 for one that is not open, so that only 0 counts as a success.
Duplicates(field, next) ==
  /\ childAt = field
  /\ LET from == child_side[field]
         to == Stdio[field]
         made == from # to /\ from \in DOMAIN childFds
     IN  /\ childFds' = IF made THEN WithFile(childFds, to, childFds[from]) ELSE childFds
         /\ childAt' = IF from = to \/ (made /\ to = 0) THEN next ELSE "exited"
  /\ UNCHANGED <<wanted_io, io, child_side, parentFds, parentAt, unmade>>

\* The caller ends in any case: nothing returns a state to it.
ParentCloses ==
  /\ parentAt = "close" /\ parentAt' = "exit"
  /\ parentFds' = WithoutEnds(parentFds, child_side)
  /\ UNCHANGED <<wanted_io, io, child_side, childFds, childAt, unmade>>

PipeNext ==
  \/ SetupPipe("err", "out") \/ SetupPipe("out", "in") \/ SetupPipe("in", "fork")
  \/ SetupPipeFails("err", "out") \/ SetupPipeFails("out", "in") \/ SetupPipeFails("in", "fork")
  \/ Forks \/ ForkFails \/ ChildCloses \/ ParentCloses
  \/ Duplicates("err", "out") \/ Duplicates("out", "in") \/ Duplicates("in", "runs")

PipeSpec == PipeInit /\ [][PipeNext]_pipeVars

-----------------------------------------------------------------------------
\* What the child is to have behind a standard descriptor.
Meant(field) ==
  IF wanted_io[field] # NoPipeEnd THEN Own(wanted_io[field])
  ELSE IF field = "in" THEN ReadEnd(field) ELSE WriteEnd(field)

\* A program that runs has behind each standard descriptor what was meant for
\* it, and holds no end of a pipe that the caller keeps, so that its input ends
\* when the caller closes it, and its pipe breaks when the caller is gone; the
\* caller keeps no end of the child's.  The child that is given its own standard
\* output and error does run.  (Any other may fail: pipe-program.c:69-71.)  That
\* is as long as each pipe(2) has made its pipe: of one that fails, which nothing
\* asks (pipe-program.c:22), nothing is promised.
ProgramHasItsPipes ==
  unmade = {} =>
    /\ childAt = "runs" =>
         /\ \A field \in Fields : childFds[Stdio[field]] = Meant(field)
         /\ Range(childFds) \cap {WriteEnd("in"), ReadEnd("out"), ReadEnd("err")} = {}
    /\ parentAt = "exit" =>
         Range(parentFds) \cap {ReadEnd("in"), WriteEnd("out"), WriteEnd("err")} = {}
    /\ wanted_io["out"] = 1 /\ wanted_io["err"] = 2 => childAt # "exited"

\* Descriptors are neither lost nor mixed up, of sockets and of pipes.
DescriptorsAreKept == DescriptorsAreHeld /\ ProgramHasItsPipes
=============================================================================
