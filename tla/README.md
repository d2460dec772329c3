# Verification of prog-dir

prog-dir is a directory of C programs and of the libraries they are built
from. This project models the libraries that keep state across calls and the
programs made of them, checks the models with TLC, and proves theorems about
both halves of chain-io, the codec of dzip, the filestore, pkg-install, the cache
of hash-fs and the interned strings of immutable with TLAPS. Every definition is translated from the C source;
`PROJECT.json` gives its lines under `map`. Paths below are relative to
`src/src/`, those of `backburner/` to `src/`.

## 1. Inventory

| Part | State | Operations | Uses |
|---|---|---|---|
| chain-io, reading | cache, released count, error and end flags | `chain_pull`, `chain_release`, the update function | `buffer_read` |
| chain-io, writing | cache, written count, error flag | `chain_push`, `chain_push_start`/`_final`, `chain_flush`, `chain_write_free` | `buffer_write` |
| dzip codec | table of recent places, the window, literal and match under way | `dzip_deflate_chunk`, `dzip_inflate` | vluint |
| dzip chains and program | an adaptor chain between two descriptor chains | its update functions, `main` | chain-io, the codec |
| filestore | a directory of files named by digest, shared by processes | `filestore_import_fd`, `_import_file`, `_move_file`, `resolve_conflict`, filestore-path | metahash, path |
| metahash | the digest and the header of its hash | `metahash_fd`, metahash, metahash-analyzer | base16, base2, gcrypt |
| HTTP client | a connection's chain, a get's chain, an update function that changes, sizes | `http_client_get`, the four update functions, http-cat | chain-io, network |
| network, pipe-program | descriptors, of one process or of two | `tcp_connect`, `tcp_host`, `tcp_listen`, the `udp_` calls, `pipe_program` | system calls |
| tar | the state of a reader over a descriptor | `tar_write_header`, `tar_update_fd`, `tar_read_region`, `tar_skip_file` | `buffer_read` |
| pkg | a log of owners, a configuration, an installation under way; a tree being packed | `pkg_root_open`/`_close`, `pkg_install_fd`, `pkg_pack_path` | tar, paren parser, table, path, dzip |
| immutable, table | strings in a hash table behind a mutex | `immutable_string`, `immutable_path`, include and resize | |
| hash-fs | a cache of sectors with mutexes | `hash_fs_cache_access` | a block device |
| buffer_io lines, filebuffer | a buffer over a descriptor, and where its line is | `buffer_getline_fd`, filebuffer | |
| paren parser, preprocessor | a text's lists; the layers of a walk | `paren_parse`, `paren_preprocessor`'s next atom | |
| json, metabase | a value; a conversion | `json_parse`, the getters; encode, decode | |
| glTF reader (backburner) | the arrays of a document | glb-info | json |
| string functions of `libc/` | a memory of bytes | `memcpy`, `memcmp_length`, `strcpy`, `strncpy`, `strdup`, `strcmp` | |
| assembler and machine (backburner) | constants, instructions, memory | `assembler`, `write_`/`read_machine_code`, `vm_frame` | the preprocessor |

Section 5 lists the rest. Interaction is by calls and callbacks, through the file
system, and, in the two libraries made for it, through memory shared by threads. A
chain calls the update function of whoever made it, which may itself pull from or
push to another chain. What makes this code hard is

* *cutting*: a descriptor delivers and takes any number of bytes at a time, and
  every layer keeps what it could not use or send, so that chunks, lines, bodies
  and blocks are cut anywhere;
* *failure in the middle*: a read, a write or an allocation fails with caches
  half used, and every layer above must neither repeat nor invent bytes, nor take
  a failure for the end;
* *stale state*: bytes released and still cached, a table filled from an earlier
  chunk, the size of an earlier file, an earlier answer's leftovers, the last
  line's digest, the arguments of the last application of a macro;
* *processes on one store or one root*, which take no lock, may be killed, and
  replace what they find damaged or owned;
* *threads* on one table or one cache of sectors, and their locks;
* *waiting*: a pull that wants more than the other side will ever send, a read
  that is repeated for ever.

What makes each part correct, in a sentence: a chain shows, or sends, exactly
its stream (`ByteReader`, `ByteWriter`); a chunk inflates to what was deflated;
dzip writes what its input means and exits with the right status;
the store holds what an adder reported; a get yields the body of its own
answer, and ends; the items an archive gives are those that were written; a file
has one owner, and what is protected stays; equal strings have equal addresses; a
sector is the one asked for; a parse is the text's meaning and no other.

## 2. The modules

| Module | Models | Composed of |
|---|---|---|
| `ByteReader`, `ByteWriter` | what a stream and a sink promise | |
| `ChainRead`, `ChainWrite` | `chain-io/read.c`, `chain-io/write.c` | |
| `FdChainRead`, `FdChainWrite` | `chain-io/fd/`, `buffer_io.c` | extend the two chains, implement the two promises |
| `SequenceLemmas` | lemmas about sequences and sequences of sequences, and the least element of a set of numbers | |
| `FdChainReadProofs`, `FdChainWriteProofs` | theorems about `FdChainRead` and `FdChainWrite` | |
| `DzipCodec` | `deflate.c`, `inflate.c`, command by command | |
| `DzipCodecProofs` | theorems about `DzipCodec` | |
| `Vluint` | the bytes of a number | |
| `DzipChunk` | the commands and chunks of the codec as bytes | `DzipCodec`, `Vluint` |
| `DzipStream` | chunks as units, for the two below | |
| `DzipUtil` | the program dzip, with the input adaptors | a chain over standard input, the adaptor, a chain over standard output |
| `DzipOutput` | the output adaptors | an adaptor chain and a descriptor chain |
| `DzipUtilProofs` | theorems about `DzipUtil` and `DzipOutput` | |
| `FileStore` | `filestore.c`, filestore-add | |
| `HttpClient` | `http/client.c`, http-cat | a chain over the socket and a get's chain |
| `HttpClientProofs` | theorems about `HttpClient` | |
| `TarFormat` | what `tar/write.c` writes | |
| `TarReader` | `tar/read.c` and a program that reads with it | `TarFormat` |
| `PkgInstall` | pkg-install: `pkg-root.c`, `pkg-install.c` | packages as their items, what `TarReader` gives |
| `PkgInstallProofs` | theorems about `PkgInstall`, `TarReader` and `PkgPack` | |
| `PkgPack` | pkg-pack: `pkg-pack.c` | `TarFormat` |
| `Immutable` | `immutable.c` over the table of `table.h` | |
| `HashFs` | `hash-fs.c` | |
| `LibraryProofs` | theorems about `FileStore`, `HashFs`, `Immutable`, `Descriptors`, `LibcMemory` and `LineReader` | |
| `LineReader` | `buffer_getline_fd` | |
| `Metahash` | base 16 and base 2; headers and names of hashes | |
| `Digester` | metahash, filebuffer, the digesting copy of filestore; metahash-analyzer, filestore-path | `LineReader`, `Metahash` |
| `ParenParser` | `paren-parser.c` | |
| `ParenPreprocessor` | `paren-preprocessor.c` | |
| `JsonText` | `json.c` | |
| `Gltf` | glb-info (`backburner/gltf/`) | `JsonText` |
| `Vm` | `backburner/vm/` | `ParenPreprocessor` |
| `Descriptors` | `network.c`, `pipe-program.c` | |
| `LibcMemory` | the string functions of `libc/` | |

Each `MC...` module gives the constants of one of them small values, and each
`.cfg` file is one run. Three of them hold several parts, of which the initial state
chooses the one a behaviour is of, while the others stand still: `MCDzip` (dzip or
`dzip -d`, the inflating output), `MCPkg` (an archive read, installations, a
packing) and `MCLibraries` (the libraries of the last third of the table). The
definitions of a part are the ones of its module; nothing is shared but the run. A run
of one part alone has a specification there that starts in that part: `MCOutputSpec`,
`MCTarSpec` and `MCDigestSpec`.

**Chains.** A `chain_read` is its record: `buffer`, `released`, `is_error`,
`is_complete`, `fresh_read`. `chain_pull` is a loop around the update function, so
it is a state of its own: `Pull` is the part of `chain_pull` before the loop, `pc =
"reading"` the loop, and `Absorb` what the loop does with one return of the
update function. Whoever uses `ChainRead` supplies the update function as
actions that call `Absorb`; `FdChainRead` does so with one `read(2)` at a time
(`Fetch`, `FetchFails`, `AllocFails`), including how `buffer_read` grows the cache and
what it leaves behind when it fails. `max` is the allocation. `ChainWrite` is
laid out the same way around the range `input` that is being flushed, with `Settle`
for what follows the loop, and `FdChainWrite` does one `write(2)` per step.

**dzip.** In `DzipCodec` one step is one turn of the deflater's loop, one command
of the inflater, or one byte of a match, since a match may overlap the bytes it
appends; `recent` is the table, `SlotOf` its hash, and it is kept from chunk to
chunk as in the C. `DzipChunk` says what bytes the commands become. `DzipUtil`
and `DzipOutput` do not look inside a chunk: a chunk is a header unit followed
by its bytes, and an "inflate" gives back what it stands for (`DzipStream`),
which the codec's run justifies. `DzipUtil` has three instances of the chain
modules, for `fd_in`, `dzip_in` and `fd_out`, and `update` and `main` are the program
counters of the adaptor's update function and of `main`.

**FileStore.** One adder per process, with one action per system call: the steps
between `link(2)`, `open(2)`, `unlink(2)` and the second `link(2)` interleave
freely with those of other adders. A content stands for its digest. Sources may
be edited by others (`Edit`), any call may fail (`CallFails`) and any adder may be
killed (`Crash`). `dirs` are the paths whose directories exist; they are made in one step
(`MakeDirectories`), because `mkdir(2)` of one that another adder made meanwhile is
no failure and nobody removes one.

**HttpClient.** `update` is the function pointer `interface.update`, one of four, and
each of them is one or two actions that pull from the connection's chain, use what
they got, and may install the next. Answers are sequences of units: a status, a
header, a chunk's size, CR, LF or a byte of a body; CR and LF are units of their
own because a read may end between them. `Frames` says how a server frames its answers (a
status line, headers of which one speaks of the body, an empty line, and the body with
its length or in chunks): `ResponsesAssumption` asks it of every answer, so that the
theorems hold for any answers framed as HTTP frames them, and the runs give three.

**Tar.** An archive is a sequence of units, a header being one unit and the
`Field`s that fill its block; names and contents count byte by byte, so that
padding, long names and the block arithmetic are those of the C. `TarFormat` is
the writer as a pure operator from items to the archive; `TarReader` has one
action per outcome of `tar_update_mem`'s loop turn, and one each for reading and for
skipping a file. A block that is not at a header is never mistaken for one: the
model leaves out that a byte of a name may happen to be a type flag.

**Pkg.** `PkgInstall` runs pkg-install again and again on one disk. A run opens
the configuration and the log, installs the items of one package in order, each item by
the checks of `pkg_install_file` and friends and then its system calls, and
rewrites the log at exit, line by line: a run may be killed, and one call may fail,
between any two steps. What the log says is kept apart from what is on disk, and
both from the owners the run holds in memory. `Spellings` are the ways to name
one root directory; the empty one is no root given, whose files lie relative to the
working directory while its log is that of `/`. `PkgPack` walks a tree with `lstat(2)`,
`open(2)`, `read(2)` as steps, so that a file may change between its size and its
contents, and writes what it finds through `TarFormat`, compressed or not.

**Immutable and HashFs.** Threads take a mutex, search a bucket, grow the table
item by item and leave, one step each; what `realpath(3)` writes goes to a variable that
is shared, as the C's buffer is. In `HashFs` a thread locks a row of the cache,
compares slots, loads from the device with errors, and returns holding the sector's
mutex, which its user gives back.

**Lines and digests.** `LineReader` has a step per `read(2)` and one per call, with the buffer,
its allocation and the line's bounds. `Digester` has the programs' loops:
what one turn leaves in the buffers that live from turn to turn is a variable.

**Parsers.** `ParenParser` reads one token per step; `ParenPreprocessor` gives one atom
per step from a stack of layers, and changes the macro bodies in place as the code does;
`JsonText` parses a text by recursive functions and then answers one getter. `Gltf` reads a
document member by member. `Vm` takes a program from its atoms through the assembler
and the file of machine code into the machine and runs it, an instruction per step.

**Descriptors.** One system call per step, each of which may fail; the state is
the table of open descriptors and of address lists, and, after the fork, the two processes'
tables, in which a descriptor is a number that names an end of a pipe. `pipe_program` does not ask whether
`pipe(2)` or `fork(2)` has failed: `SetupPipeFails` leaves in the two ends whatever the array on the stack
may hold (`Uninitialised`), which is then closed and duplicated like a descriptor, and after `ForkFails` the caller
goes on alone.

**LibcMemory.** A call is made in a memory of bytes, and a step is one turn of a loop, so that
which loop copies or compares a byte depends on alignment and length as in the C. The library
is linked by nothing but its own tests.

## 3. The runs

| Run | Checks | Instance |
|---|---|---|
| `chain_read` | `TypeOK`, `InPlace`, `ImplementsReader`, `Progress` | 3 or 5 bytes, pulls of 0, 1, 3, releases of up to 4, one failure |
| `chain_write` | `Bookkeeping`, `FlushWritesAll`, `ImplementsWriter`, `EverythingWritten` | 7 bytes, pushes of up to 4, any failing write |
| `dzip_codec` | `WindowsComeBack`, `ChunksAreIndependent`, `CommandsAreWhole` | two chunks in a row, all binary windows of 1, 3, 6 bytes and two longer ones |
| `dzip` | `WrittenIsFaithful`, `StatusIsTrue`, `OutputIsWhole`, `ProgramEnds` | three chunks and a bad one, 11 units that may end anywhere, inflated, or deflated once more; three chunks pushed 1 to 3 units at a time |
| `filestore` | `TypeOK`, `Promises`, `WholeFileIsKept`, `ExistingOnlyCreatesNothing` | three adders, two contents, one crash or failed call, one edit |
| `http_client` | `StaysInStep`, `BodyIsFaithful`, `GetsEnd` | three answers in series, cut anywhere, one failure |
| `tar_and_pkg` | `ArchiveIsGiven`, `ReadingKeepsPlace`; `Attributed`, `OwnersHonoured`, `ProtectedKept`, `SuccessMeansInstalled`; `PackedIsFaithful`, `MCPackEnds` | up to three of ten items, cut anywhere; two installations out of five packages with three configurations, one killed or failing; three trees, one edit, one failure |
| `libraries` | `TreeIsText`, `ProgramIsMeaning`, `DocumentIsRead`, `LinesAreText`, `DigestsAreOfGiven`, `AddressIsString`, `BytesAreMoved`, `HeldIsAsked`, `DescriptorsAreKept`, `EveryCallReturns` | see below |
| `dzip_deflate_output` | `OutputIsFaithful` is violated | two bytes |
| `http_keep_alive` | `GetsEnd` is violated | one answer, a connection that stays open |
| `tar_long_link` | `ItemsAreFaithful` is violated | up to two items |
| `hash_option` | `HashIsAsked` is violated | the arguments of `libraries`, no failing call |

What they show, part by part:

* *Chains.* However pulls, releases and reads are cut, the cache is the end of what
  was read, the client's place is never lost, a full cache is never taken for the
  end, every pull returns, and the client sees a `ByteReader`. Every sequence
  of pushes, pushes in place and flushes is a `ByteWriter`: after a failure the
  sink has a prefix without a gap.
* *Codec.* Deflating and inflating give the window back with colliding
  table slots, overlapping matches, a table left from another chunk and an
  output that already holds bytes. Each command is read back from its bytes, and
  every cut inside one is noticed.
* *dzip.* Standard output always means a prefix of what standard input means;
  a success means all of it, with the exception of section 6; a failure has a
  cause that is not the way the input was cut; the program ends.
* *FileStore.* What was reported as added is there and whole in the end, unless
  somebody was stopped between unlinking a damaged file and linking anew; no
  adder fails for another's sake unless one of the two replaced something; a
  whole file is only unlinked on purpose or by a stale decision.
* *HttpClient.* No body contains a byte of another answer or of the framing, and a
  get that ends well ended exactly where the next answer begins.
* *Tar.* Whatever is read or skipped, each item given is the one written, and an
  archive cut anywhere is never taken for a complete one.
* *Pkg.* Between runs that went well the log names the package of every file, and no
  package opens another's; what the configuration protects stays, whatever fails; a
  success means that what arrived is installed. Packing writes the script and
  the paths below the arguments, described as they are, whatever is flushed when: the files whole
  if nobody edits one, each path once if no argument is below another, and all of
  them if there is no device or pipe among them, which ends the walk of its argument. It ends, unless a
  file cannot be read.
* *Libraries.* A parse fails exactly when the text is wrong, and is the text's
  meaning; a macro's body that was applied before is as good as new; lines are those
  of the text under every cut; a digest is that of the whole of a file, and the
  ones taken from a line are those written in it; addresses of interned strings are
  equal just when the strings are, while the table grows under other threads; a
  sector that is held is of the digest asked for, and every lock is given back; no
  descriptor is lost on a failing path, with one exception, and a program has the pipes that were
  meant for it, if all could be made; a copy by words is the copy
  by bytes, and writes nothing else; the assembled program runs as its source says.

### Bounds and why they are enough

The chain modules behave differently only by comparisons among a handful of
numbers: cached against released, half of the cache, the target, the allocation.
Five bytes, an initial allocation of 2, releases larger and smaller than half of
the cache and than the cache, and targets of 0, below and above what is cached
reach each side of every comparison. `DownshiftLimit`, `FlushSize`,
`InputFlushSize` and `BufferMaxSize` are the C's 1e6 and 1e7 made small, and
chosen so that a few bytes cross them. `GrowFactor` and `GrowSlack` stand for
`buffer_realloc`'s policy.

In `DzipCodec` an index of 4 bytes, a first place of 8, a shortest match of 5 and
16963 slots become 2, 1, 2 and 2: an index is of several bytes, the bytes before the first
place are always literal, a match is longer than nothing, and collisions are
certain. Windows of six bits have matches that overlap, two matches in a
row and a literal between and after them. The two longer windows have arguments of
a command that need more than one digit.

Three adders are what a rival of a rival needs; one fault and one edit are what
each property excuses, once. In `HttpClient` the answers are chunked, with a length,
and chunked, so that each coding follows the other, and the second has a body that
begins like an empty line. In `TarReader` a block of four units and files of 0,
1, 4 and 5 units reach each case of the padding; names fit, do not fit, and do not
fit only for the separator of a directory.

Two runs of pkg-install are what a log between them needs. The five packages have two
that share a file, a second version of one with a file where the first had a
directory, one without a name and one whose name comes after an item; the roots have
two spellings of one directory and the empty one. In `PkgPack` files are shorter
and longer than the buffer, and an edit makes one shorter or longer than its size.

In `libraries`, texts of five characters nest two lists with a word and a line in
each place; documents are three atoms in a row out of eighteen, so that a macro is defined,
applied and applied again, inside a list and through an include, with too few and too
many arguments; JSON texts have up to five tokens, and values are three deep; lines
have up to five characters with a NUL among them, and reads of every length. A digest
list has none, one and two digests and every kind of damage. Two threads intern two
of four strings each, two of which share a bucket of a table that grows from 2 places;
three threads ask for three digests, two of which differ in
their type only, at two offsets of a cache of two sectors. glTF documents differ from a sound one by one member
that is missing or of another kind, at each level; files have all sizes around the
bounds. The assembler's programs pair every kind of statement with every other one; a
register is of 2 bytes of 6 values, so that an address space of 36 wraps within a run
and contains twice the memory. Words of `LibcMemory` have 2 bytes; sources lie on a word and
next to one, and lengths are 0 to 14, which is all of the four loops on both sides of each bound. `MaxErrors`, `MaxFaults`, `MaxEdits`, `MaxConsumed`, `MaxItems`,
`MaxChunks`, `MaxRuns`, `MaxPackEdits`, `MaxPackFaults`, `MaxLineErrors`, `MaxDigestFaults`,
`MaxCalls`, `MaxAccesses`, `MaxIoErrors`, `MaxNetFaults` and `MaxDescriptor` bound how
often things happen, and nothing that the code looks at. An uninitialised descriptor is no descriptor, one of the
caller's, or one that a pipe has taken.

### Fairness

* `FdChainRead!FairSpec`: the client pulls again (it is a loop in every program) and
  the descriptor answers. Releases are not forced.
* `FdChainWrite!FairSpec`: the descriptor takes bytes; the chain is freed in the
  end, by strong fairness, since the client may push and flush in between.
* `DzipUtil`, `HttpClient` and `PkgPack`: weak fairness of the one sequential program,
  whose descriptors answer. A server that never answers is not a step, so in
  `http_keep_alive` it is the code that waits, after everything was sent. In `PkgPack`
  neither an edit nor a fault is forced.
* `InternFair`, `FsFair`: some thread that can run does. That is weaker than fairness of each
  thread, which the scheduler gives too: since calls are finitely many, no thread can
  starve another for ever, and what the properties look for is a deadlock.
* The other specifications have no liveness properties and no fairness.

Runs whose system ends (a freed chain, an exited program, the end of an archive)
do not check deadlock; `chain_read` does.

## 4. What is proved

`FdChainReadProofs` proves about `FdChainRead`, for every stream, every set of ends,
pull sizes and releases, and every positive growth policy:

* `TypeCorrect`: `Spec => []TypeOK`. No subtraction of counts underflows.
* `Invariant`: `Spec => []Inv`.
* `PlaceKept`, `CacheSound`, `NoEarlyEnd`, and the three together as `PlaceIsKept`: the
  safety invariant `InPlace` of the run `chain_read`, from `Inv`.
* `RefinesByteReader`: `Spec => ImplementsReader`, the refinement.

The invariants are not inductive one by one. That the window shown is the next
part of the stream (`WindowIsNext`) needs the cache to be a suffix of what was
read and the place to be `taken - Len(buffer) + released`; that a read appends the
right bytes needs the cache to be shorter than its allocation, or the read would be
of nothing and the end announced early; and that `is_complete` is right needs the loop
not to be entered after it. `Inv` is the conjunction `TypeOK`, `Accounting`,
`CacheIsStream`, `CompleteAtEnd`, `WithinAllocation` and the last of these. The proof has
a lemma per idea: `ReleaseKeepsPlace` and `KeptIsStream` for
`chain_read_apply_release`, `FillPositive` and `AllocationSuffices` for `buffer_read`,
`FetchExtends` for one `read(2)`; `Inductive` then has one step per action, and
`StepImplementsReader` maps each action to an action of `ByteReader`:
`ClientPulls` to `Show`, `ReportEnd` or a stutter, `Fetch` to `Prefetch` or `Show`,
`FetchFails` and `AllocFails` to `Fail`, and `ClientReleases` to `Dispose`.

The assumptions are those named in `ChainRead` and `FdChainRead`: sizes are natural
numbers, the initial allocation and the growth are large enough for one byte, the
stream is a sequence. Nothing is assumed of `Garbage`.

`LibraryProofs` proves of `FileStore` every property that the run `filestore` checks, for any
number of adders, sources and contents, any mix of `--link`, `--replace` and
`--existing-only`, and any bounds on faults and edits: `TypeCorrect`,
`StoreKeepsItsPromise`, `FailuresExplained` and `TmpRemoved`, which are together
`PromisesKept`, then `WholeFileKept` and `ExistingOnly`. The promise of the store, `ReportedIsStored`, speaks only of states in
which every adder has ended; what carries it there is `Inv`, of which the
important parts are

* `Gone`: where an adder has found its path taken and it is free now, another one
  that unlinked it is about to link it again (or was stopped before it did);
* `Damaged`: while nobody writes what the store shows, a file that does not match its
  path has been there from the start, so nobody that uses that path has unlinked it or
  reported success, and an adder about to check has opened that very file;
* `Taken`: an adder that finds its path taken again was preceded by one that
  succeeded;
* `Existed`, `FoundWrong`: why an adder with `--existing-only` goes on, and why one
  without `--replace` unlinks;
* `Directories`: the directories of a path are there before an adder links to it, and
  they stay.

There is a lemma per part (`GoneStep`, `DamagedStep`...), with a step per action, and
`ContentKept` for the one action that changes contents from outside, `Edit`. The
assumptions are `OpsAssumption` (what an adder may be asked) and
`BoundsAssumption` (the bounds are natural numbers). That digests do not collide
is built into the model: a content is its own path.

`FdChainWriteProofs` proves about `FdChainWrite`, for every sequence of bytes a client
writes and every policy of growth and of partial writes: `WriteInvariant`,
`BooksAreKept` (the safety invariant `Bookkeeping`), `FlushIsComplete` (the action
property `FlushWritesAll`) and `RefinesByteWriter` (the refinement `ImplementsWriter`).
`WriteInv` adds to the types that what reached the descriptor is a prefix of what the
client gave (`WrittenIsPrefix`), that the buffer from the flush's place on is the rest of
it (`RestWaits`), where each loop may stand with respect to the buffer
(`LoopsAreOrderly`), and that the buffer is never larger than the chain allows
(`CacheBounded`).

`DzipCodecProofs` proves about `DzipCodec`, for every sequence of chunks and any choice
of matches the searches may make: `CodecInvariant`, `RoundTrips` (`WindowsComeBack`:
what the decoder rebuilds is what the encoder was given) and `ChunksIndependent`. The
invariant says that the commands of a chunk follow one another without a gap
(`Follow`), that each stands for the bytes at its place (`StandsFor`: literals are the
bytes themselves, a match is the bytes a distance before, which the decoder has by
then), that a finished chunk is such a list of commands (`Deflated`), and that the
decoder has rebuilt the window up to the command it stands at (`InStep`,
`InflatedUpTo`).

`DzipUtilProofs` proves about `DzipUtil`, the program in both of its directions, for every
input, every place it may end at, and all sizes of reads, buffers and flushes:
`DzipInvariant`, `WrittenMeansInput` (`WrittenIsFaithful`) and `StatusTellsTruth`
(`StatusIsTrue`). `DzipInv` says that what was read and not used is still in the
two buffers, in order (`InputIsKept`), how the pulls of the two input chains nest and where
`main` stands with respect to them, and that what was pushed is what the input used
so far means, of which the output has a beginning and its buffer the rest. The
argument rests on what a stream means: what stands for a whole is what stands for its
parts (`ComposeParts`, `Split`: using the complete chunks of a beginning, then going on
from there, is using those of the whole), so the place at which a pull cuts the input
does not matter; a longer input has a longer meaning (`Monotone`); and what
`dzip_deflate` makes inflates to what it was given (`DeflateInflates`). The theorems have the
conditions on the constants, `DzipConstants`, as a hypothesis, which `MCDzip` assumes,
so that the run evaluates it: the input is a sequence of units, a
header announces at least one byte of data (`dzip_deflate` makes no other; the loop of
`dzip_inflate_range` would leave one without data unused at the end of its input), and
sizes are positive where the code needs them so.

About `DzipOutput` it proves `InflatedIsWritten` (`OutputIsWhole` of a chain that inflates),
from `OutputAssumption`, which says the same of what a client pushes. The
invariant, `OutputInv`, is about two caches: what was pushed is `front \o back`, where
`front` is whole chunks and `back` waits in the first chain (`ConverterHas`), and what `front`
means is what was written and what waits in the second (`DescriptorHas`). A call of the
update function moves the whole chunks of `back` to `front` (`ConvertedIs`), a push
makes `back` longer (`ConverterPushes`), and the loop leaves a `back` of which nothing comes
(`OutputIsOrderly`); a write that fails stops both, and what was written remains
a beginning (`StaysFaithful`). The theorem has the hypothesis that the
stream pushed makes sense (`InflatesStream`; `MCDzip` assumes it of its stream):
of one with a bad chunk it is not true, since the adaptor does not look at the
result of `dzip_inflate_range` and converts the chunks before the bad one again at the
next push (section 6). Of a chain that deflates it is not true at all: that is the finding
of `dzip_deflate_output`.

`PkgInstallProofs` proves about `PkgInstall`, for any packages, paths, trees and protected
paths: `InstallInvariant`, `FilesAreAttributed` (`Attributed`: between runs, while nothing has gone wrong, every file a
package wrote is that package's in the log), `OwnersAreHonoured` (no package opens a file
another has written), `ProtectedIsKept`, and `SuccessIsInstalled`
(`SuccessMeansInstalled`: a run that is about to report success has installed what follows
`build.sh` in its archive). `InstallInv` ties the logs, the table and the disk together: items are
only taken for a package that has a name (`Named`), the file being written holds the first
chunks of its item (`Writing`), and, as long as nothing has gone wrong, the logs and the
table name the owner of every file that was written (`Owned`). `SuccessIsInstalled`
needs in addition that nothing is taken before the root is open (`Opening`) and that what has
been taken is installed, unless the archive names it again (`Progress`).

It also proves about `TarReader`, for any items, any place where the archive is cut and any
failing reads: `ArchivesAreGiven` (`ArchiveIsGiven`) and `PlaceIsKept`
(`ReadingKeepsPlace`), both of archives whose names and links fit into their headers
(`HeadersHold`, a hypothesis about the items that were written). The hypothesis is needed: what
is announced by a long name or link is measured by the size of the last file, so that the
same statement about all archives is false, as the run `tar_long_link` shows; long names
that happen to be read right are among the items of `tar_and_pkg`. `Edge` gives the place in the archive where
each item begins; that there are such places (`ArchiveHasEdges`) comes from what `FlattenSeq` does with the
written items, and that a header, the rest of its block, the contents and the padding stand
there, from `ItemIsWritten`. `TarInv` then says that the reader is at the edge of the next item, or behind
its header and knows its type, names and size, or has seen the first of the two blocks of zeros;
that it never stops for another reason than the archive or a read is part of it.

About `PkgPack` it proves `PackedAsGiven` (`PackedIsFaithful`), for any trees and arguments, any limits
of the two buffers, compressed or not, and any edits of the files while they are packed. `PackInv` speaks of a program none of
whose calls has failed (`Quiet`), and its parts are

* `StreamInv`: what was written, what waits in the compressed buffer and what waits in the plain one are, joined, the entries that were
  packed so far, of which the last has no padding while its file is read. A flush moves, and changes nothing of
  what is joined (`FlushKeeps`);
* `FileInv`: the entry of the file that is read has the bytes up to the offset, and the buffer
  had room after its flush. Therefore a turn of the loop that reads nothing into a buffer that did not grow
  has seen the end of the file (`EntriesEnded`);
* `EntriesInv`: each entry says of its path what the tree says, under the name below an argument;
* `Placed`: which argument the walk is at, that the directories that are open and the path that is visited are
  below it, and what is left of a directory are entries of it;
* `Covered`: a path below an argument has been packed, or the walk will come to it (`Coming`): it is at or below an argument that
  is left, the path that is visited or an entry that is left. This needs that what is above a
  path is a directory (`DirAbove`), and that nothing is given up but an argument that does not exist;
* `Once`: no directory that is open, nor the path that is visited, is at or below an entry that is left in another (`Apart`,
  `Alone`), so that what was packed is not come to again (`NotAgain`).

`PackAssumption` asks that what is above a path of a tree be a directory of that tree, that
arguments not be empty, and that the plain buffer have room.

`LibraryProofs` also proves about five of the libraries. `HashFs`:
`ReferenceIsResidue` (`mod_reference` lies within the table, for every digest)
and `HeldSectorIsAsked` (`HeldIsAsked`: the sector a thread was given is of the digest it asked
for and its alone until it unlocks it, and no failure leaves a mutex behind), from
`FsInv`. `Immutable`: `AddressesAreStrings` (`AddressIsString`: two answers
are the same address exactly when the strings asked for are the same), for any number of
threads, keys and hashes. Its `InternInv` numbers the entries of each chain
(`Chained`: no cycle, and every entry is reached), and says what a searching thread has
passed (`Searched`), what each thread knows at its place (`Orderly`), that a key has one
entry (`OneOfKey`), what is answered (`Answered`), that one thread at a time is inside the
mutex (`OneInside`); `Tables` puts the first three together, for some
numbering. `InternStep` is the step lemma, with a step per action.

`Descriptors`: `DescriptorsStay` (`DescriptorsAreKept`), for any descriptors the system may give, any
table of the caller's, any of the three that are wanted of it and any failing calls (`ProgramHasItsPipes`, its second part, if
no `pipe(2)` was among these: `PipeInv` is kept as long as none was). `NetInv`: what is open is what the program
holds, what `fdopen` forgot and, between the socket and the answer, the one of the call under way,
which is neither; the list of addresses is there between `getaddrinfo` and the call that
uses it. `PipeInv`: of the three fields that are set up so far, each end of a pipe is open where it is kept and
stands for the file it should (`Right`), those to come are `Untouched`, and in the child each of
the three has moved to its place in the order of the `dup2(2)`, without one that is still to move
being overwritten (`ChildIsRight`).

`LibcMemory`: `LibcMovesBytes` (`BytesAreMoved`), for any memory, any addresses in it and any size of a
word: a copy has its bytes and nothing beside it changes, what `memcmp_length` counts is equal and
lacks less than a word, and `strcmp` puts strings in their order. `LibcInv` says that as many bytes as the pointers have passed are copied (`Copies`) or are
known to be equal (`Compares`, `ComparesUpTo`), and that the pointers and the size have
moved together. `CallsAssumption` is what the functions ask of their caller: strings that end, areas that
are memory, and no overlap of what is copied with its copy.

`LineReader`: `LinesAreOfText` (`LinesAreText`), for any texts, any cuts of the reads and any sizes of the
buffer. Which lines a text has is said by joining: lines without a newline whose joining, with a newline behind it,
begins the text are its first lines, and there is only one way to be so. `LineInv` says which piece of the text the buffer is
(`BufferIsText`), that while it is read the next line begins with it (`Placed`) and it has no
newline, unless a NUL hides one (`ReadingInv`), and that a line that was returned ends at a newline
or with the text (`ClientInv`). `ReadingInv` is why the search may begin anew after each read and
why what is left at the end is one line. After a failed read the buffer is no piece of the text, and the invariant only says
that no more is read and that the lines before the last were right (`AfterError`).

`HttpClientProofs` proves about `HttpClient`, for any number of answers, any way to cut
them into reads, any place where the connection may end, any sizes of the caches and any
failures: `InvHolds`, `GetsStayInStep` (`StaysInStep`: no count exceeds the body it
counts, and a get that ends has shown its body whole and leaves the connection where the next
answer begins) and `GetsAreFaithful` (`BodyIsFaithful`: what was decoded is a beginning of the
body of that answer). `Inv` has three parts. `ConnInv`: what the connection has and the
client has not used is what the server sent from the client's place on; it does not
need the rest of `FdChainReadProofs`, because this client never releases more than was
pulled, except the two units after a body. `GetInv`: where the program stands with respect
to the get's chain, whose cache is either all shown or not shown at all. `InPlace`: the client's place in
the answer is one its framing knows (`AtLine`, `InBody`, `AtChunk`, `InChunk`), and
there it has heard of the body's framing what the headers so far say (`Heard`), and
decoded the beginning of the body that stands before it. Every turn of an update function is a
step from one such place to the next: `LineIsRead` says that the first CR and LF after
a line's beginning are the line's own, and `BodyGrows` that a piece of a chunk continues
the body. `AnswerInStream` places each answer in what `FlattenSeq` joins. The assumptions are
`ResponsesAssumption` (the answers are framed as HTTP) and `ClientAssumption` (the sizes the
client asks for and allocates are positive). A chunk's size line need not be of the
least length, and any other headers may precede or follow the one that counts.

The provers cannot do an induction over data with an operator as its parameter. Where a
proof needs one (`mod_reference`, the commands of a chunk), it takes the least
counterexample instead: `LeastElement` of `SequenceLemmas` gives it, and the step before
it contradicts it.

Assumptions on the constants are named in the modules (`WriteAssumption`,
`FdWriteAssumption`, `CodecAssumption`, `InstallAssumption`, `FsAssumption`,
`PackAssumption`, `InternAssumption`, `OutputAssumption`, `ClientAssumption`, `NetAssumption`, `PipeAssumption`, `ReaderAssumption`,
`LineAssumption`): sizes and bounds are natural numbers or positive where the code
allocates or divides by them, inputs are sequences of the given values.

Only model-checked:

* all liveness: fairness and ENABLED are out of the prover's reach;
* what is above a recursive operator: `ParenParser`, `ParenPreprocessor`, `JsonText`,
  `Gltf`, `Vm` and `Digester` (`TreeIsText`, `ProgramIsMeaning`,
  `DocumentIsRead`, `DigestsAreOfGiven`);
* what floats compute, and the bits of `Vluint` and `DzipChunk` (`CommandsAreWhole`);
* `ArchiveIsGiven` and `ReadingKeepsPlace` of archives with a name or link that does not fit into
  its header: they are true of those the run reads, and not of every sequence of items;
* `OutputIsWhole` of a stream with a bad chunk, which no run pushes either: it is false.

## 5. What is not modelled

* Whole components, with the reason in `PROJECT.json`: unfinished parts, which do not
  compile at this commit (`blkd/`, `kademlia/`, `manifest/`, `url/`, pkg-manifest, pkg-update); `vec/`,
  floating-point arithmetic without state; macros (`array/`, `keyargs/`,
  `list/`, `log/`); graphics, scripts and builds; in `backburner/`, an HTTP client that `http/` replaces, and
  event, calender, manga-reader and popcount; `junked/` and `ideas/`, whose code no makefile reaches.
* Option parsing, log messages, what is printed for people, host names, modes and times.
* Single functions that nothing modelled calls: `table_delete` and `table_clear`, separators of lines of more than
  one character and `dzip_inflate_read_chunk`, whose only use is under `#if 0`.
* `tcp_connect` is the one call of `network/` that a program uses, and nothing uses
  `pipe-program/`, `hash-fs/` or `metabase`'s other bases; the first two are modelled all the same.
* Reads interrupted by signals are failures, as in the code. Sizes of memory are
  unbounded (they never come near 2^64), a `write(2)` of some bytes takes one or fails and never returns 0
  (`fd/write.c:29` would take that for the end), and a vluint of more than ten bytes, which
  no writer makes, is not an input. Where arithmetic does wrap, it does in the models: in `Vm` and in the
  cache index of `HashFs`.
* The function that resolves constants in `vm/assembler.c` is empty at this commit, and takes other arguments
  than its callers give; `Vm` has the body of the earlier one, in `vm/junk.c`.

## 6. Where the code and its documentation differ

Four runs show a difference, with the lines under `findings`:

* `dzip_deflate_output`: a chain that deflates what is pushed to it does not advance
  the range, so that the next push, flush or free deflates it again.
* `http_keep_alive`: a body that ends what the server sends for the time being is
  waited for by one byte more, for ever.
* `tar_long_link`: a symbolic link with a long target that follows a file of one block
  is given its own name as the target; a name of exactly a block after such a file is
  given as empty. Most long names and links end in an error instead, since the size
  of their header is never read, and the long name of a directory leaves the rest
  of the archive one byte out of step (`write.c:129-138`).
* `hash_option`: metahash prints SHA2-256 whatever its option `-h` names.

Others came up while modelling. They are stated in the properties as
exceptions, follow from the actions, or concern what is not modelled:

* *chain-io.* What is left in a chain after its end was seen cannot be pulled with a larger
  target (`read.c:63`). In `HttpClient` a chunked answer may fail for it when a few
  released bytes at the front of the cache make a pull read on to the end of the
  connection (`read.c:78-79`, `client.c:218`); `StaysInStep` says nothing of gets that fail.
  A chain that is only fed in place never shortens its cache (`write.c:114-129`).
* *dzip* returns 0 when the last flush fails: `main` asks for errors before
  `chain_write_free` makes it (`dzip.util.c:57-64`); `StatusIsTrue` excuses this, and
  http-cat does the same (`http-cat.util.c:46-56`). A stream cut inside its last chunk is
  inflated without an error (`inflate/chain.c:25`). The inflating output adaptor does not look
  at the result of `dzip_inflate_range` (`inflate/chain.c:56`).
* *http.* `identity` as a coding is refused (`client.c:184-190`), an answer without a
  length loses two bytes of the connection (`client.c:205-209`), and http-cat pulls from a
  null handle when a request cannot be made (`http-cat.util.c:34-36`).
* *tar.* A hard link is given without its target (`read.c:181`, 208).
* *pkg.* An archive that ends in an error counts as installed (`pkg-install.c:255`). A file is
  overwritten without being truncated (`pkg-install.c:169`). Links are passed over. Arguments of `protect` that
  are absolute or end in a slash protect nothing. A configuration that cannot be
  read leaves an empty log behind and makes `main` fall back to the empty root, whose log is `/pkg/system.log`
  while its files go to the working directory. Two installers on one root take no lock. A write of the log that fails may leave
  a line whose path is cut short and which is read all the same (`pkg-root.c:191-206`, `DumpBreaksOff`); `Attributed` and
  `OwnersHonoured` promise nothing after it. When
  packing, a read that fails is repeated for ever (`pkg-pack.c:177`).
* *immutable, hash-fs.* `table_delete` does not lower `item_count`. In hash-fs the result of `lseek_fs` is used upside
  down, and the offset is in bytes where it should be in sectors, so that a sector's bytes are not those
  of its place; two offsets of one digest that share a slot are not told apart (`hash-fs.c:115`). `HeldIsAsked` speaks of
  the digest and of locks.
* *Lines.* A read that fails cannot be told from the end of the file (`buffer_io.c:304-306`), and with no room left
  the bytes the buffer was extended by come out as a line.
* *metahash* prints digests without the headers metahash-analyzer wants. filestore-path ignores that a line does not decode
  (`filestore-path.util.c:31`). filebuffer succeeds when a read of its temporary file fails, and
  leaves that file behind when it fails itself.
* *Parsers.* `paren_parse` gives NULL for an empty text as it does for a failure. The preprocessor reads defaults and
  never applies them, and follows an include or a macro of itself for ever. JSON: `\\` is not
  read, a literal needs one character more behind it, commas may be missing, what follows the value is ignored; a
  getter reads through NULL when its key is missing, even if it is optional, and a lookup in an empty object divides
  by zero. Hence glb-info needs every optional member to be there, and no document with a sparse accessor is ever read.
  The data of its second chunk may reach past the file by the length of a header.
* *vm.* `is_vm_int` does not look at the first character, so that `x` is the integer 0. Constants and names of equal bytes
  share a place, so that a store to one changes the other. A program without `exit` is run until its instruction
  pointer wraps.
* *network, pipe-program.* `tcp_connect_stream` forgets its descriptor when `fdopen` fails, and `tcp_listen_stream`
  aborts (`network.c:125`, 197), and `udp_recv` returns -1
  whatever it received. `pipe_program` takes any result of `dup2(2)` but 0 for a failure, so that a program runs only when its
  output and its errors are to stay where they are (`pipe-program.c:69-71`). It asks neither `pipe(2)` nor `fork(2)` for
  its result (lines 22, 57-61), so that after a `pipe(2)` that fails it closes and duplicates uninitialised numbers, of which
  `ProgramHasItsPipes` promises nothing.
* *libc.* `BytesAreMoved` says what `strncpy` and `memcmp_length` do, which is not what their names promise. `strncpy` copies all of a string that is longer than `n`. The last loop of `memcmp_length` never counts a byte, so
  that its result may be short by less than a word, and it looks at one byte past the end before it looks at the size
  (`memcmp_length.c:43`). `strncmp` is declared and nowhere defined.

## 7. What is left

Modelling: `table_delete` with a client that deletes; writing a request; option parsing; the modes and times of installed files.
