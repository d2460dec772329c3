--------------------------------- MODULE Vm ---------------------------------
(***************************************************************************)
(* The assembler and the machine of vm/: a tree of (opcode operand),       *)
(* (name n constant), (ifelse (...) (...)) and blocks is assembled into    *)
(* constants and instructions, written to a file, read from it and run.    *)
(* The machine's memory starts with the constants.                         *)
(*                                                                         *)
(* resolve_constant is an empty function in assembler.c; the one it is     *)
(* here stands in junk.c.  An opcode is named by its keyword.              *)
(***************************************************************************)
EXTENDS ParenPreprocessor

CONSTANTS
  Programs,       \* trees
  Codes,          \* machine codes of another origin
  Chars,          \* the characters of the words of the programs
  FloatBits,      \* what atof makes of a word, as the integer of the same bytes
  RegisterSize,   \* bytes of a register, and of an address
  ByteValues,
  MemorySizes     \* arguments of vm_init, no less than a register

VARIABLES
  tree,           \* the program, or <<>>
  code,           \* [constants, instructions]
  file,           \* what has been written of the file
  memory, instruction_pointer, result,
  vm,             \* "source", "code", "file", "running", "exit", "failed", "crash"
  todo            \* what the program has to do still: the scopes it is in

machineVars == <<memory, instruction_pointer, result>>
vmVars == <<tree, code, file, machineVars, vm, todo>>

AddressSpace == ByteValues ^ RegisterSize
BytesOf(n) == [k \in 1..RegisterSize |-> ((n % AddressSpace) \div ByteValues ^ (k - 1)) % ByteValues]
WordOf(bytes) == FoldLeftDomain(LAMBDA sum, k : sum + bytes[k] * ByteValues ^ (k - 1), 0, bytes)
Signed(n) == IF 2 * n >= AddressSpace THEN n - AddressSpace ELSE n
BytesAt(bytes, address) == SubSeq(bytes, address + 1, address + RegisterSize)

NoCode == [constants |-> <<>>, instructions |-> <<>>]

VmInit ==
  /\ \/ tree \in Programs /\ code = NoCode /\ vm = "source"
     \/ tree = <<>> /\ code \in Codes /\ vm = "code"
  /\ file = <<>> /\ memory = <<>> /\ instruction_pointer = 0 /\ result = 0
  /\ todo = <<>>

-----------------------------------------------------------------------------
(* Constants (text.c, constants.c, junk.c).                                *)

DecimalDigits == <<"0", "1", "2", "3", "4", "5", "6", "7", "8", "9">>
OfChars(word, chars) == \A i \in 2..Len(Chars[word]) : Chars[word][i] \in chars

\* The first character is not looked at: a name of one letter is an integer, and
\* so is an address.
IsVmInt(word) == OfChars(word, Range(DecimalDigits) \cup {"-"})
IsVmFloat(word) == OfChars(word, Range(DecimalDigits) \cup {"-", "."})

\* atoi: a sign, and digits up to what is none.
Atoi(word) ==
  LET negative == Chars[word][1] = "-"
      chars == IF negative THEN Tail(Chars[word]) ELSE Chars[word]
      n == Max({k \in 0..Len(chars) : \A i \in 1..k : chars[i] \in Range(DecimalDigits)})
      value == FoldLeft(LAMBDA v, c : 10 * v + (CHOOSE i \in 1..10 : DecimalDigits[i] = c) - 1, 0,
                        SubSeq(chars, 1, n))
  IN  IF negative THEN AddressSpace - value ELSE value

\* find_constant: the last place a constant can be found at is not scanned.
Occurrences(constants, bytes) ==
  {a \in 0..Len(constants) - RegisterSize - 1 : BytesAt(constants, a) = bytes}

\* record_constant
AddressIn(constants, bytes) ==
  IF Occurrences(constants, bytes) = {} THEN Len(constants) ELSE Min(Occurrences(constants, bytes))
Recorded(constants, bytes) ==
  IF Occurrences(constants, bytes) = {} THEN constants \o bytes ELSE constants

\* The bytes of a constant that is written out, or none: a word, or a list of a
\* type and a word.
WrittenBytes(atom) ==
  IF IsText(atom)
  THEN IF IsVmInt(atom.text) THEN BytesOf(Atoi(atom.text))
       ELSE IF IsVmFloat(atom.text) THEN BytesOf(FloatBits[atom.text]) ELSE <<>>
  ELSE IF Len(atom.atoms) < 2 \/ ~IsText(atom.atoms[1]) \/ ~IsText(atom.atoms[2]) THEN <<>>
  ELSE LET word == atom.atoms[2].text
       IN  CASE atom.atoms[1].text = "int" /\ IsVmInt(word) -> BytesOf(Atoi(word))
             [] atom.atoms[1].text = "float" /\ IsVmFloat(word) -> BytesOf(FloatBits[word])
             [] OTHER -> <<>>

-----------------------------------------------------------------------------
(* The assembler.  Its state has the constants, the instructions, and the  *)
(* names of each scope, the innermost first; it ends well, in a failure or *)
(* in a crash.                                                             *)

OpcodesOfInt == {"load-int", "store-int", "+int", "-int", "*int", "/int"}
OpcodesOfFloat == {"load-float", "store-float", "+float", "-float", "*float", "/float"}
Opcodes == {"exit"} \cup OpcodesOfInt \cup OpcodesOfFloat
Instruction(opcode, arg) == [opcode |-> opcode, arg |-> arg]

EndsAs(asm, how) == [asm EXCEPT !.ends = how]
Emit(asm, instruction) == [asm EXCEPT !.instructions = Append(@, instruction)]
CountOf(asm) == Len(asm.instructions)

\* resolve_name
ScopesOf(asm, word) == {i \in DOMAIN asm.scopes : word \in DOMAIN asm.scopes[i]}

\* resolve_constant: <<address>> or none, and the constants it leaves.
AddressOf(asm, atom) ==
  LET bytes == WrittenBytes(atom)
  IN  IF bytes # <<>> THEN <<AddressIn(asm.constants, bytes)>>
      ELSE IF IsText(atom) /\ ScopesOf(asm, atom.text) # {}
      THEN <<asm.scopes[Min(ScopesOf(asm, atom.text))][atom.text]>>
      ELSE <<>>
ConstantsWith(asm, atom) ==
  IF WrittenBytes(atom) # <<>> THEN Recorded(asm.constants, WrittenBytes(atom)) ELSE asm.constants

\* add_constant
AddName(asm, definition) ==
  IF Len(definition) < 2 THEN EndsAs(asm, "failed")
  ELSE IF ~IsText(definition[2]) THEN EndsAs(asm, "failed")
  ELSE IF Len(definition) < 3 THEN EndsAs(asm, "crash")
  ELSE IF \/ AddressOf(asm, definition[3]) = <<>>
          \/ definition[2].text \in DOMAIN asm.scopes[1]
  THEN EndsAs(asm, "failed")
  ELSE [asm EXCEPT !.constants = ConstantsWith(asm, definition[3]),
                   !.scopes[1] = (definition[2].text :> AddressOf(asm, definition[3])[1]) @@ @]

\* parse_instruction
ParseInstruction(asm, words) ==
  IF words[1].text \notin Opcodes THEN EndsAs(asm, "failed")
  ELSE IF words[1].text = "exit"
  THEN IF Len(words) > 1 THEN EndsAs(asm, "failed") ELSE Emit(asm, Instruction("exit", 0))
  ELSE IF Len(words) < 2 THEN EndsAs(asm, "failed")
  ELSE IF AddressOf(asm, words[2]) = <<>> THEN EndsAs(asm, "failed")
  ELSE Emit([asm EXCEPT !.constants = ConstantsWith(asm, words[2])],
            Instruction(words[1].text, AddressOf(asm, words[2])[1]))

\* Mutant: the jump over the other body is jumped to, and not what follows it.
ElseStart_AtJump(elsejump_location) == elsejump_location

\* Where the second body of an ifelse starts.
ElseStart(elsejump_location) == elsejump_location + 1

\* parse_recurse and parse_ifelse.  A routine is a list of lists: another atom is
\* read as a pointer.
RECURSIVE ParseRecurse(_, _), ParseOne(_, _)
ParseRecurse(asm, atoms) ==
  IF atoms = <<>> \/ asm.ends # "well" THEN asm
  ELSE ParseRecurse(ParseOne(asm, Head(atoms)), Tail(atoms))

ParseBody(asm, body) ==
  IF IsText(body) THEN EndsAs(asm, "failed")
  ELSE IF body.atoms = <<>> THEN EndsAs(asm, "crash")
  ELSE ParseRecurse(Emit(asm, Instruction("jump", 0)), body.atoms)

ParseIfelse(asm, words) ==
  IF Len(words) < 2 THEN EndsAs(asm, "failed")
  ELSE LET ifjump == CountOf(asm) + 1
           ifbody == ParseBody(asm, words[2])
           elsejump_location == CountOf(ifbody)
           both == ParseBody(ifbody, words[3])
       IN  IF ifbody.ends # "well" THEN ifbody
           ELSE IF Len(words) = 2
           THEN [ifbody EXCEPT !.instructions[ifjump] =
                   Instruction("jump-if-not", CountOf(ifbody))]
           ELSE IF both.ends # "well" THEN both
           ELSE [both EXCEPT
                   !.instructions[elsejump_location + 1] = Instruction("jump", CountOf(both)),
                   !.instructions[ifjump] = Instruction("jump-if-not", ElseStart(elsejump_location))]

ParseOne(asm, atom) ==
  IF IsText(atom) \/ (~IsText(atom) /\ atom.atoms = <<>>) THEN EndsAs(asm, "crash")
  ELSE IF ~IsText(atom.atoms[1])
  THEN [ParseRecurse([asm EXCEPT !.scopes = <<<<>>>> \o @], atom.atoms) EXCEPT !.scopes = asm.scopes]
  ELSE CASE atom.atoms[1].text = "ifelse" -> ParseIfelse(asm, atom.atoms)
         [] atom.atoms[1].text = "name" -> AddName(asm, atom.atoms)
         [] OTHER -> ParseInstruction(asm, atom.atoms)

Assembler ==
  /\ vm = "source"
  /\ LET asm == ParseRecurse([constants |-> <<>>, instructions |-> <<>>, scopes |-> <<<<>>>>,
                              ends |-> "well"], tree)
     IN  IF asm.ends = "well"
         THEN /\ code' = [constants |-> asm.constants, instructions |-> asm.instructions]
              /\ vm' = "code"
         ELSE code' = code /\ vm' = asm.ends
  /\ UNCHANGED <<tree, file, machineVars, todo>>

-----------------------------------------------------------------------------
(* The file (machine-code.c).                                              *)

FileOf(c) == <<Len(c.constants), Len(c.instructions)>> \o c.constants
             \o FlattenSeq([i \in DOMAIN c.instructions |->
                              <<c.instructions[i].opcode, c.instructions[i].arg>>])

\* write_machine_code: any of its writes may be short.
WriteCode ==
  /\ vm = "code"
  /\ \E n \in 0..Len(FileOf(code)) : file' = SubSeq(FileOf(code), 1, n)
  /\ vm' = "file" /\ code' = NoCode
  /\ UNCHANGED <<tree, machineVars, todo>>

\* read_machine_code and vm_init.
Readable == Len(file) >= 2 /\ Len(file) >= 2 + file[1] + 2 * file[2]
CodeIn == [constants |-> SubSeq(file, 3, 2 + file[1]),
           instructions |-> [i \in 1..file[2] |->
              Instruction(file[1 + file[1] + 2 * i], file[2 + file[1] + 2 * i])]]

ReadCode ==
  /\ vm = "file"
  /\ \E memory_size \in MemorySizes :
       IF Readable /\ file[1] < memory_size
       THEN /\ code' = CodeIn /\ vm' = "running"
            /\ memory' = CodeIn.constants \o [i \in 1..memory_size - file[1] |-> 0]
            /\ todo' = <<[rest |-> tree, names |-> <<>>]>>
       ELSE vm' = "failed" /\ UNCHANGED <<code, memory, todo>>
  /\ UNCHANGED <<tree, file, instruction_pointer, result>>

-----------------------------------------------------------------------------
(* What a program does next, in its own words.  A scope is what is left of *)
(* a block and the bytes of the names that are in force there; a program   *)
(* that has come to its end starts over.                                   *)

RECURSIVE Unfold(_, _)
Unfold(scopes, fuel) ==
  LET scope == scopes[1]
      statement == Head(scope.rest).atoms
      Goes(rest) == [scopes EXCEPT ![1].rest = rest \o Tail(scope.rest)]
  IN  IF fuel = 0 THEN <<>>
      ELSE IF scope.rest = <<>>
      THEN Unfold(IF Len(scopes) > 1 THEN Tail(scopes)
                  ELSE <<[rest |-> tree, names |-> <<>>]>>, fuel - 1)
      ELSE IF ~IsText(statement[1])
      THEN Unfold(<<[rest |-> statement, names |-> scope.names]>> \o Goes(<<>>), fuel - 1)
      ELSE IF statement[1].text = "name"
      THEN LET bytes == IF WrittenBytes(statement[3]) # <<>> THEN WrittenBytes(statement[3])
                        ELSE scope.names[statement[3].text]
           IN  Unfold([Goes(<<>>) EXCEPT ![1].names = (statement[2].text :> bytes) @@ @], fuel - 1)
      ELSE IF statement[1].text = "ifelse"
      THEN Unfold(Goes(IF result # 0 THEN statement[2].atoms
                        ELSE IF Len(statement) > 2 THEN statement[3].atoms ELSE <<>>), fuel - 1)
      ELSE scopes

UnfoldLimit == 20   \* more statements than a program has without an instruction
Ahead == Unfold(todo, UnfoldLimit)

\* The bytes an operand means, of a constant or of a name.
Means(atom, names) == IF WrittenBytes(atom) # <<>> THEN WrittenBytes(atom) ELSE names[atom.text]

-----------------------------------------------------------------------------
(* vm_frame.  The run is followed until the pointer wraps.                 *)

Running == vm = "running" /\ instruction_pointer < AddressSpace - 1
memory_mod == Len(memory) - RegisterSize
Divides == Len(code.instructions) > 0 /\ memory_mod > 0

current == code.instructions[(instruction_pointer % Len(code.instructions)) + 1]
argument == ((current.arg + memory_mod) % AddressSpace) % memory_mod
operand == WordOf(BytesAt(memory, argument))
Executes(opcodes) == Running /\ Divides /\ current.opcode \in opcodes

Step ==
  /\ instruction_pointer' = instruction_pointer + 1
  /\ todo' = IF tree = <<>> \/ Ahead = <<>> THEN todo ELSE [Ahead EXCEPT ![1].rest = Tail(@)]
  /\ UNCHANGED <<tree, code, file>>

\* A modulus of zero.
Trap ==
  /\ Running /\ ~Divides
  /\ vm' = "crash" /\ UNCHANGED <<tree, code, file, machineVars, todo>>

Exit == Executes({"exit"}) /\ Step /\ vm' = "exit" /\ UNCHANGED <<memory, result>>

Load ==
  /\ Executes({"load-int", "load-float"}) /\ Step
  /\ result' = operand /\ UNCHANGED <<memory, vm>>

Store ==
  /\ Executes({"store-int", "store-float"}) /\ Step
  /\ memory' = [i \in DOMAIN memory |->
       IF i - argument \in 1..RegisterSize THEN BytesOf(result)[i - argument] ELSE memory[i]]
  /\ UNCHANGED <<result, vm>>

Magnitude(n) == Max({n, 0 - n})
Quotient(a, b) ==
  LET q == Magnitude(a) \div Magnitude(b) IN IF (a < 0) = (b < 0) THEN q ELSE 0 - q

\* An overflow wraps.
IntArithmetic ==
  /\ Executes({"+int", "-int", "*int"}) /\ Step
  /\ result' = (CASE current.opcode = "+int" -> result + operand
                  [] current.opcode = "-int" -> AddressSpace + result - operand
                  [] OTHER -> Signed(result) * Signed(operand)) % AddressSpace
  /\ UNCHANGED <<memory, vm>>

IntDivide ==
  /\ Executes({"/int"}) /\ Step
  /\ IF operand = 0 \/ (Signed(operand) = -1 /\ 2 * result = AddressSpace)
     THEN vm' = "crash" /\ UNCHANGED result
     ELSE vm' = vm /\ result' = Quotient(Signed(result), Signed(operand)) % AddressSpace
  /\ UNCHANGED memory

\* What floats come to is left open.
FloatArithmetic ==
  /\ Executes({"+float", "-float", "*float", "/float", "itof", "ftoi"}) /\ Step
  /\ result' \in {0, 1} /\ UNCHANGED <<memory, vm>>

Jumps == current.opcode = "jump" \/ result = 0
Jump ==
  /\ Executes({"jump", "jump-if-not"})
  /\ instruction_pointer' = IF Jumps THEN current.arg ELSE instruction_pointer + 1
  /\ UNCHANGED <<tree, code, file, memory, result, vm, todo>>

Unrecognized ==
  /\ Running /\ Divides
  /\ current.opcode \notin Opcodes \cup {"itof", "ftoi", "jump", "jump-if-not"}
  /\ vm' = "failed" /\ UNCHANGED <<tree, code, file, machineVars, todo>>

VmNext ==
  \/ Assembler \/ WriteCode \/ ReadCode
  \/ Trap \/ Exit \/ Load \/ Store \/ IntArithmetic \/ IntDivide \/ FloatArithmetic
  \/ Jump \/ Unrecognized

-----------------------------------------------------------------------------
(* Property.                                                               *)

\* The machine does what the program says: whenever its next instruction is no
\* jump, that is the one the program comes to next, through its blocks and the
\* bodies its results choose, and as long as nothing was stored among the
\* constants its operand is the constant that is written there or that the name
\* stands for.  A jump leads to an instruction or the end, a file that was cut
\* short is never run, and no operand reaches past the memory.
CodeIsSource ==
  vm = "running" =>
    /\ file = FileOf(code)
    /\ Divides =>
         /\ argument + RegisterSize <= Len(memory)
         /\ current.opcode \in {"jump", "jump-if-not"} /\ tree # <<>> =>
              current.arg <= Len(code.instructions)
    /\ Running /\ Divides /\ tree # <<>> /\ current.opcode \notin {"jump", "jump-if-not"} =>
         /\ Ahead # <<>>
         /\ LET statement == Head(Ahead[1].rest).atoms
            IN  /\ statement[1].text = current.opcode
                /\ (/\ current.opcode # "exit"
                    /\ SubSeq(memory, 1, Len(code.constants)) = code.constants) =>
                       BytesAt(memory, argument) = Means(statement[2], Ahead[1].names)
=============================================================================
