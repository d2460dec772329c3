----------------------------- MODULE MCLibraries -----------------------------
(* One instance of each of the libraries the programs share.  Init says which *)
(* of them a behaviour is of, and the others stay where they are.            *)
EXTENDS ParenParser, Vm, Gltf, Digester, Immutable, HashFs, Descriptors, LibcMemory

VARIABLE library

StringsOf(alphabet, n) == UNION {[1..k -> alphabet] : k \in 0..n}

\* paren_parse.
MCParenTexts == StringsOf({"(", ")", "a", " ", "\n"}, 5) \cup {Unreadable}

\* paren_preprocessor: three atoms in a row, of words, includes, macros and calls
\* of them, with too few and too many arguments, and a file that holds a macro.
T(w) == [text |-> w]
L(as) == [atoms |-> as]
X == T("x")
MacroOf(name, parameters, body) == L(<<T("macro"), T(name), L(parameters)>> \o body)
MacroF == MacroOf("f", <<X>>, <<X, L(<<X, T("b")>>)>>)
CallOf(name, values) == L(<<T(name)>> \o values)

MCAtoms ==
  {T("a"), L(<<>>), L(<<L(<<>>), X>>), MacroF,
   CallOf("f", <<T("a")>>), CallOf("f", <<CallOf("g", <<>>)>>), CallOf("g", <<>>),
   CallOf("f", <<X, T("y")>>), L(<<MacroF, CallOf("f", <<T("d")>>)>>),
   CallOf("include", <<T("i")>>), CallOf("include", <<T("e")>>), CallOf("include", <<L(<<>>)>>),
   CallOf("include", <<>>),
   MacroOf("f", <<X, X>>, <<L(<<X>>)>>), MacroOf("f", <<L(<<>>)>>, <<X>>),
   MacroOf("g", <<>>, <<CallOf("f", <<T("c")>>), T("c")>>), MacroOf("g", <<>>, <<>>),
   MacroOf("g", <<L(<<X, T("y"), T("z")>>)>>, <<X>>)}
MCDocuments == [1..3 -> MCAtoms]
MCTrees == ("i" :> <<MacroOf("f", <<L(<<X, T("y")>>)>>, <<T("q"), X>>), T("t")>>)
           @@ ("e" :> <<>>)

\* json_parse: up to five tokens, and values up to three deep.
MCTokens == {<<"{">>, <<"}">>, <<"[">>, <<"]">>, <<",">>, <<":">>, <<"1">>, <<Quote, Quote>>}
MCJsonTexts == {FlattenSeq(tokens) : tokens \in StringsOf(MCTokens, 5)}
MCKeys == {<<"a">>, <<"z">>}
Scalars == {Number("1"), String(<<"a", Quote>>), String(<<"newline">>), Literal("true"),
            Literal("null"), Array(<<>>), Object(<<>>)}
ArraysOf(values) == {Array(vs) : vs \in [1..1 -> values] \cup [1..2 -> values]}
ObjectsOf(values) ==
  {Object(pairs) : pairs \in UNION {[keys -> values] : keys \in
                                    {{<<"a">>}, {<<"a">>, <<Quote>>}}}}
Nested == {Number("1"), Array(<<Literal("null")>>),
           Object(<<Quote>> :> Array(<<Object(<<>>)>>))}
MCJsonValues == Scalars \cup ArraysOf(Scalars) \cup ObjectsOf(Scalars) \cup ObjectsOf(Nested)

\* glb-info: files of all the sizes around the bounds, and documents that differ
\* from a sound one in a member: it is missing, or it is something else.
Num(n) == Number(n)
NullValue == Literal("null")
GlbOf(size, jsonLength, binLength) ==
  [size |-> size, magic |-> "glTF", json |-> [length |-> jsonLength, type |-> "JSON"],
   bin |-> [length |-> binLength, type |-> "BIN"]]
WholeGlb == GlbOf(36, 4, 4)
MCGlbFiles ==
  {GlbOf(size, j, b) : size \in {0, 12, 19, 20} \cup 27..40, j \in {0, 4, 20}, b \in {0, 4, 12}}
  \cup {[WholeGlb EXCEPT !.magic = "no"], [WholeGlb EXCEPT !.json.type = "BIN"],
        [WholeGlb EXCEPT !.bin.type = "JSON"]}

Asset0 == ("generator" :> String("g")) @@ ("version" :> String("2"))
Buffer0 == ("byteLength" :> Num(1)) @@ ("uri" :> NullValue)
View0 == ("buffer" :> Num(0)) @@ ("byteLength" :> Num(1)) @@ ("byteOffset" :> NullValue)
      @@ ("byteStride" :> NullValue)
Accessor0 == ("sparse" :> NullValue) @@ ("byteOffset" :> NullValue) @@ ("componentType" :> Num(5121))
          @@ ("count" :> Num(1)) @@ ("type" :> String("SCALAR")) @@ ("bufferView" :> Num(0))
Odd == {Num(1), Num(-1), String("VEC2"), NullValue, Object(<<>>)}
Without(o, k) == [key \in DOMAIN o \ {k} |-> o[key]]
Variants(o) == {o} \cup {Without(o, k) : k \in DOMAIN o}
               \cup {[o EXCEPT ![k] = v] : k \in DOMAIN o, v \in Odd}
Objects(os) == Array([i \in DOMAIN os |-> Object(os[i])])
Root(asset, buffers, views, accessors) ==
  ("asset" :> Object(asset)) @@ ("buffers" :> Objects(buffers))
  @@ ("bufferViews" :> Objects(views)) @@ ("accessors" :> Objects(accessors))
Root0 == Root(Asset0, <<Buffer0>>, <<View0>>, <<Accessor0>>)
Sparse0 == ("count" :> Num(1))
  @@ ("indices" :> Object(("componentType" :> Num(5123)) @@ ("bufferView" :> Num(0))))
  @@ ("values" :> Object(("byteOffset" :> Num(0)) @@ ("bufferView" :> Num(0))))
Sparses == Variants(Sparse0)
  \cup {[Sparse0 EXCEPT ![k] = Object(o)] : k \in {"indices"}, o \in Variants(Sparse0["indices"].object)}
  \cup {[Sparse0 EXCEPT ![k] = Object(o)] : k \in {"values"}, o \in Variants(Sparse0["values"].object)}
SparseAccessors == {[Accessor0 EXCEPT !["sparse"] = Object(o)] : o \in Sparses}
Roots ==
  Variants(Root0) \cup {Root(asset, <<>>, <<>>, <<>>) : asset \in Variants(Asset0)}
  \cup {[Root0 EXCEPT ![k] = Array(<<NullValue>>)] : k \in DOMAIN Root0}
  \cup {Root(Asset0, buffers, <<view>>, <<>>) :
          buffers \in {<<>>, <<Buffer0, Buffer0>>} \cup {<<b>> : b \in Variants(Buffer0)},
          view \in Variants(View0)}
  \cup {Root(Asset0, <<Buffer0>>, views, accessors) :
          views \in {<<>>, <<View0>>, <<View0, View0>>},
          accessors \in {<<a>> : a \in Variants(Accessor0) \cup SparseAccessors}
                        \cup {<<Accessor0, a>> : a \in Variants(Accessor0)}}
MCGltfDocuments == {<<>>, <<NullValue>>} \cup {<<Object(r)>> : r \in Roots}

\* The assembler: constants, names and bodies of each kind in pairs, and what is
\* no program.
MCChars == [w \in {"0", "1", "2", "-1", "nn", "mm", "1.5", "@3", "x"} |->
  CASE w = "nn" -> <<"n", "n">> [] w = "mm" -> <<"m", "m">> [] w = "-1" -> <<"-", "1">>
    [] w = "1.5" -> <<"1", ".", "5">> [] w = "@3" -> <<"@", "3">> [] OTHER -> <<w>>]
MCFloatBits == ("1.5" :> 7) @@ ("2" :> 5) @@ ("1" :> 6)
Line(ws) == L([i \in DOMAIN ws |-> T(ws[i])])
Do(opcode, operand_atom) == L(<<T(opcode), operand_atom>>)
Define(n, constant) == L(<<T("name"), T(n), constant>>)
IfElse(bodies) == L(<<T("ifelse")>> \o bodies)
Simple == {Do("load-int", T("0")), Do("-int", T("1")), Do("load-int", T("nn")), Line(<<"exit">>),
           Do("+int", Line(<<"int", "2">>)), Do("load-float", Line(<<"float", "1.5">>))}
Bodies == {L(<<s>>) : s \in Simple} \cup {L(<<Do("load-int", T("2")), Do("+int", T("1"))>>)}
Ifs == {IfElse(<<b>>) : b \in Bodies} \cup {IfElse(bs) : bs \in Bodies \X Bodies}
Inner == L(<<Define("nn", T("0")), Do("load-int", T("nn")), Do("store-int", T("nn"))>>)
LoadOne == L(<<Do("load-int", T("1"))>>)
IfsInIfs == {IfElse(<<L(<<IfElse(<<L(<<Line(<<"exit">>)>>), LoadOne>>)>>)>>), IfElse(<<L(<<Inner>>)>>),
             IfElse(<<LoadOne, L(<<Inner>>)>>)}
NoStatements ==
  {Line(<<"no", "1">>), Line(<<"load-int">>), Line(<<"exit", "1">>), Line(<<"name">>),
   Line(<<"name", "mm">>), L(<<T("name"), L(<<>>), T("1")>>), Do("load-int", T("mm")),
   Do("+int", Line(<<"int", "1.5">>)), Do("+int", L(<<>>)), IfElse(<<>>), IfElse(<<T("x")>>),
   IfElse(<<L(<<>>)>>), IfElse(<<Inner, T("x")>>), T("x"), L(<<>>)}
Others == NoStatements \cup
  {Define("mm", T("nn")), Define("nn", T("2")), Do("/int", T("0")), Do("/int", T("2")),
   Do("*int", T("-1")), Do("+float", T("1")), Do("load-int", T("@3")), Do("load-int", T("x")),
   Do("store-int", T("nn")), Inner}
Start == Define("nn", T("1"))
MCPrograms ==
  {<<Start, s, t>> : s \in {Do("load-int", T("0")), Do("load-int", T("nn")), Start},
                     t \in Ifs \cup IfsInIfs \cup Others}
  \cup {<<Start, t, s, Line(<<"exit">>)>> : s \in Simple, t \in Others \cup IfsInIfs}
  \cup Others \X Others
Op(opcode, arg) == [opcode |-> opcode, arg |-> arg]
MCCodes ==
  {[constants |-> <<1, 0, 2, 0>>, instructions |-> ops] :
   ops \in {<<Op("load-int", 35), Op("store-int", 9), Op("exit", 0)>>, <<Op("jump", 13)>>, <<>>,
            <<Op("itof", 0), Op("jump-if-not", 0), Op("no", 0)>>}}

\* The armors of metahash-analyzer: one digest, two, none, and what is no digest.
Filled4(n, first) == [i \in 1..n |-> IF i = 1 THEN first ELSE 255]
DigestOf(id, first) == <<id, Filled4(SizeOfDigest(id), first)>>
ArmorOf(base, digests) ==
  [means |-> <<digests>>, starts |-> IF digests = <<>> THEN <<>> ELSE <<digests[1]>>,
   text |-> Encode(base, FlattenSeq([i \in DOMAIN digests |->
                           HeaderWrite(digests[i][1]) \o digests[i][2]]))]
NoArmor(chars) == [text |-> chars, means |-> <<>>, starts |-> <<>>]
Murmur == 35
MCArmors ==
  {ArmorOf("f", <<DigestOf(Murmur, 171)>>), ArmorOf("0", <<DigestOf(Murmur, 1)>>),
   ArmorOf("f", <<DigestOf(Murmur, 9), DigestOf(Md5, 16)>>), ArmorOf("f", <<>>),
   [ArmorOf("f", <<DigestOf(Murmur, 7)>>) EXCEPT !.text = @ \o <<"g">>, !.means = <<>>],
   NoArmor(<<" ">>), NoArmor(<<"F", "0">>), NoArmor(<<"0">>), NoArmor(<<"f", "0", "g">>),
   NoArmor(Encode("f", HeaderWrite(Murmur) \o Filled4(3, 1))),
   NoArmor(Encode("f", <<0, 29>> \o Filled4(3, 1))), NoArmor(Encode("f", <<0, 128>>)),
   NoArmor(Encode("0", <<0, 0>>))}
MCGiven == {ArmorText(armors) : armors \in [1..1 -> Armors] \cup [1..2 -> Armors]}
MCShortLines == StringsOf({"a", Newline, Nul}, 5)
MCLineTexts == MCShortLines \cup MCGiven

\* metahash: a file of two reads, a short one and an empty one, standard input
\* twice, and a file there is not.
MCFileContents == ("a" :> <<1, 2, 3, 4, 5>>) @@ ("b" :> <<6>>) @@ ("e" :> <<>>)
MCStdin == <<7, 8, 9, 10>>
MCFileLists == {<<>>, <<"a", "e", "b">>, <<"-", "a", "-">>, <<"b", "c">>}
MCHashLists == {<<>>, <<"sha256">>, <<"sha512", "md5">>}

\* immutable_string and immutable_path: a path whose real one is another string,
\* and one that has none; two strings share a bucket of the first table.
MCReal == [s \in Strings |-> CASE s = "x" -> "a" [] s = "" -> Missing [] OTHER -> s]
MCHash == [s \in Strings |-> CASE s = "" -> 0 [] s = "a" -> 1 [] s = "b" -> 3 [] OTHER -> 6]

\* hash-fs: two digests of the same bytes and two types, and a third.
MCDigests ==
  {[ints |-> <<1, 2>>, type |-> 0], [ints |-> <<1, 2>>, type |-> 1],
   [ints |-> <<4, 6>>, type |-> 0]}

\* pipe_program: no descriptor, the caller's first, and one that a pipe may have.
MCUninitialised == {-1, 0, 4}

\* libc: every length around four words and one, from and to both alignments;
\* things that differ at each of their bytes; strings with a byte above 127.
Apart == 24
Laid(at_from, first, at_to, second) ==
  [a \in 0..47 |-> IF a - at_from + 1 \in DOMAIN first THEN first[a - at_from + 1]
                   ELSE IF a - at_to + 1 \in DOMAIN second THEN second[a - at_to + 1] ELSE 99]
LibcCall(name, first, second, f, t, n) ==
  [name |-> name, memory |-> Laid(f, first, Apart + t, second), from |-> f, to |-> Apart + t, n |-> n]
Ended(s) == Append(s, 0)
Ascending == [i \in 1..16 |-> i]
Small == StringsOf({1, 200}, 2)
MCLibcCalls ==
  {LibcCall("memcpy", Ascending, <<>>, f, t, n) : f, t \in {0, 1}, n \in 0..14}
  \cup {LibcCall("memcmp_length", Ascending, [Ascending EXCEPT ![d] = 0], f, t, n) :
          f, t \in {0, 1}, n \in 0..8, d \in 1..9}
  \cup {LibcCall(name, Ended(SubSeq(Ascending, 1, len)), <<>>, f, t, n) :
          name \in {"strcpy", "strncpy", "strdup"}, len \in 0..11, f, t \in {0, 1}, n \in {0, 1, 3, 7}}
  \cup {LibcCall("strcmp", Ended(s), Ended(u), 0, 0, 0) : s, u \in Small}

-----------------------------------------------------------------------------
\* Where the parts stay that a behaviour is not of.
NoParen == /\ text = <<>> /\ iter = 0 /\ line_number = 1 /\ last_newline = 0
           /\ lists = <<List(<<>>, 0, 0)>> /\ parsed = "no"
NoWalk == document = <<>> /\ layers = <<>> /\ expanded = <<>> /\ walk = "on"
NoJson == /\ json = <<>> /\ written = <<>> /\ root = <<>> /\ asked = <<>> /\ got = <<>>
          /\ phase = "text"
NoGlb == /\ glb = WholeGlb /\ document_json = <<>> /\ toc = <<>> /\ gltf = <<>>
         /\ member = "toc"
NoVm == /\ tree = <<>> /\ code = NoCode /\ file = <<>> /\ memory = <<>>
        /\ instruction_pointer = 0 /\ result = 0 /\ vm = "source" /\ todo = <<>>
NoPipes == /\ wanted_io = Stdio /\ io = Stdio /\ child_side = Stdio /\ parentFds = <<>>
           /\ childFds = <<>> /\ parentAt = "exit" /\ childAt = "none" /\ unmade = {}
NoLibc == /\ libcCall = [name |-> "none", memory |-> <<>>] /\ bytes = <<>>
          /\ ptr = <<>> /\ libc = "none" /\ libcReturned = 0
NoLines == /\ lineText = <<>> /\ lineTaken = 0 /\ lineBuffer = <<>> /\ lineMax = 0
           /\ line = <<0, 0>> /\ linesRead = <<>> /\ linePc = "client" /\ lineErrors = 0
NoAnalyzer == program = "analyzer" /\ given = <<>> /\ printed = <<>> /\ analyzer = "running"
NoDigester == /\ user = "filebuffer" /\ arguments = <<>> /\ names = <<>> /\ use_hash_ids = <<>>
            /\ hashes = <<>> /\ encoder = Base16 /\ source = Source(<<>>, FALSE)
            /\ stdinOpen = TRUE /\ fill = <<>> /\ hashed = <<>> /\ copy = <<>> /\ told = <<>>
            /\ stage = "reads" /\ digestFaults = 0

MCInit ==
  /\ library \in {"paren", "walk", "json", "lines", "analyzer", "digest", "strings",
                 "sectors", "net", "glb", "vm", "pipe", "libc"}
  /\ IF library = "paren" THEN ParenInit ELSE NoParen
  /\ IF library = "walk" THEN WalkInit ELSE NoWalk
  /\ IF library = "json" THEN JsonInit ELSE NoJson
  /\ IF library = "glb"
     THEN GltfInit /\ (glb = WholeGlb \/ document_json = <<Object(Root0)>>) ELSE NoGlb
  /\ IF library = "vm" THEN VmInit ELSE NoVm
  /\ IF library = "pipe" THEN PipeInit ELSE NoPipes
  /\ IF library = "libc" THEN LibcInit ELSE NoLibc
  /\ CASE library = "lines" -> LineInit /\ lineText \in MCShortLines /\ NoAnalyzer
       [] library = "analyzer" -> AnalyzerInit
       [] OTHER -> NoLines /\ NoAnalyzer
  /\ IF library = "digest" THEN DigestInit ELSE NoDigester
  /\ InternInit /\ FsInit /\ NetInit

readers == <<parenVars, walkVars, jsonVars>>
users == <<vmVars, gltfVars>>
texts == <<readers, users>>
programs == <<lineVars, analyzerVars, digestVars>>
machine == <<netVars, pipeVars, libcVars>>
threads == <<internVars, fsVars, machine>>

MCNext ==
  /\ UNCHANGED library
  /\ \/ library = "paren" /\ ParenNext /\ UNCHANGED <<walkVars, jsonVars, users, programs, threads>>
     \/ library = "walk" /\ WalkNext /\ UNCHANGED <<parenVars, jsonVars, users, programs, threads>>
     \/ library = "json" /\ JsonNext /\ UNCHANGED <<parenVars, walkVars, users, programs, threads>>
     \/ library = "vm" /\ VmNext /\ UNCHANGED <<readers, gltfVars, programs, threads>>
     \/ library = "glb" /\ GltfNext /\ UNCHANGED <<readers, vmVars, programs, threads>>
     \/ library = "lines" /\ LineNext /\ UNCHANGED <<texts, analyzerVars, digestVars, threads>>
     \/ library = "analyzer" /\ AnalyzerNext /\ UNCHANGED <<texts, digestVars, threads>>
     \/ library = "digest" /\ DigestNext /\ UNCHANGED <<texts, lineVars, analyzerVars, threads>>
     \/ library = "strings" /\ InternNext /\ UNCHANGED <<texts, programs, fsVars, machine>>
     \/ library = "sectors" /\ FsNext /\ UNCHANGED <<texts, programs, internVars, machine>>
     \/ library = "net" /\ NetNext /\ UNCHANGED <<texts, programs, internVars, fsVars, pipeVars, libcVars>>
     \/ library = "pipe" /\ PipeNext /\ UNCHANGED <<texts, programs, internVars, fsVars, netVars, libcVars>>
     \/ library = "libc" /\ LibcNext /\ UNCHANGED <<texts, programs, internVars, fsVars, netVars, pipeVars>>

MCSpec ==
  /\ MCInit
  /\ [][MCNext]_<<library, texts, programs, threads>>
  /\ library = "strings" => InternFair
  /\ library = "sectors" => FsFair

\* The behaviours of the digesting programs.
MCDigestSpec == library = "digest" /\ MCInit /\ [][MCNext]_<<library, texts, programs, threads>>

\* A program means what it says to the preprocessor, and to the machine after it.
ProgramIsMeaning == ExpansionIsMeaning /\ CodeIsSource

\* A text is the value that was written in it, and a document what it says.
DocumentIsRead == JsonIsRead /\ GltfIsDocument

\* What is told of digests is of what was given, by metahash and metahash-analyzer.
DigestsAreOfGiven == AnalyzedIsGiven /\ DigestIsOfWhole

\* Every call that interns a string and every access to a sector ends.
EveryCallReturns == CallsReturn /\ AccessesEnd
=============================================================================
