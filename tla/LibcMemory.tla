----------------------------- MODULE LibcMemory -----------------------------
(***************************************************************************)
(* The string functions of libc/: memcpy and memcmp_length, which go by    *)
(* words where they can, and those that are made of memcpy and strlen.  A  *)
(* call is made once, in a memory of bytes; one step is one turn of a loop. *)
(*                                                                         *)
(* `from` is the pointer whose alignment is looked at: the source of a     *)
(* copy, the first of two things that are compared.                        *)
(*                                                                         *)
(* What is described is what these functions do, which is not in each case *)
(* what their names stand for: strncpy copies the whole string, whatever n *)
(* is, and memcmp_length may stop short of the first difference by less    *)
(* than a word.                                                            *)
(***************************************************************************)
EXTENDS Integers, FiniteSets

CONSTANTS
  LibcCalls,     \* [name, memory, to, from, n], n being a size where there is one
  WordSize       \* sizeof (fast_int)

ASSUME WordAssumption == WordSize \in Nat \ {0}

Strlen(m, s) == CHOOSE len \in 0..Cardinality(DOMAIN m) :
                  m[s + len] = 0 /\ \A k \in 0..len - 1 : m[s + k] # 0

Copying == {"memcpy", "strcpy", "strncpy", "strdup"}

\* What a program may call them with: strings that end, and areas that are in
\* memory; what is copied does not overlap its copy.
IsString(m, s) == \E a \in DOMAIN m : s <= a /\ m[a] = 0
Area(a, n) == a..a + n - 1
CopyLength(call) ==
  IF call.name = "memcpy" THEN call.n ELSE Strlen(call.memory, call.from)

ASSUME CallsAssumption ==
  \A call \in LibcCalls :
    LET m == call.memory  length == CopyLength(call)
    IN  /\ call.to \in Nat /\ call.from \in Nat /\ call.n \in Nat
        /\ Cardinality(DOMAIN m) \in Nat /\ m \in [0..Cardinality(DOMAIN m) - 1 -> Nat]
        /\ call.name \in {"memcpy", "memcmp_length"} =>
             Area(call.from, call.n) \cup Area(call.to, call.n) \subseteq DOMAIN m
        /\ call.name \in {"strcpy", "strncpy", "strdup", "strcmp"} => IsString(m, call.from)
        /\ call.name = "strcmp" => IsString(m, call.to)
        /\ call.name \in Copying => Area(call.from, length) \cap Area(call.to, length) = {}
        /\ call.name \in {"strcpy", "strdup"} => Area(call.to, length + 1) \subseteq DOMAIN m
        /\ call.name = "strncpy" =>
             Area(call.to, length) \cup Area(call.to, call.n) \subseteq DOMAIN m

VARIABLES
  libcCall,      \* the call
  bytes,         \* what each address holds
  ptr,           \* the pointers and the size as the loops change them
  libc,          \* the loop, or how the call ended
  libcReturned   \* what a comparison returns

libcVars == <<libcCall, bytes, ptr, libc, libcReturned>>

LibcInit ==
  /\ libcCall \in LibcCalls /\ bytes = libcCall.memory
  /\ ptr = [to |-> libcCall.to, from |-> libcCall.from, n |-> libcCall.n]
  /\ libc = "called" /\ libcReturned = 0

LibcReturns(value) ==
  libc' = "done" /\ libcReturned' = value /\ UNCHANGED <<libcCall, bytes, ptr>>

-----------------------------------------------------------------------------
(* memcpy: a byte at a time to the first word of the source, then four     *)
(* words at a time, a word, and a byte.                                    *)

Following == [align |-> "unrolled", unrolled |-> "words", words |-> "bytes", bytes |-> "copied"]
Stride == [align |-> 1, unrolled |-> 4 * WordSize, words |-> WordSize, bytes |-> 1]

\* Mutant: a stride is made whatever is left.
GoesOn_Unbounded ==
  IF libc = "align" THEN ptr.from % WordSize # 0 /\ ptr.n # 0 ELSE ptr.n > 0

GoesOn ==
  CASE libc = "align" -> ptr.from % WordSize # 0 /\ ptr.n # 0
    [] libc = "bytes" -> ptr.n > 0
    [] OTHER -> ptr.n > Stride[libc]

Advance(k) == ptr' = [to |-> ptr.to + k, from |-> ptr.from + k, n |-> ptr.n - k]

MovesOn ==
  /\ libc \in DOMAIN Following /\ GoesOn
  /\ LET k == Stride[libc]
     IN  /\ bytes' = [a \in DOMAIN bytes |->
                        IF a \in ptr.to..ptr.to + k - 1 THEN bytes[ptr.from + (a - ptr.to)]
                        ELSE bytes[a]]
         /\ Advance(k)
  /\ UNCHANGED <<libcCall, libc, libcReturned>>

LoopEnds ==
  /\ libc \in DOMAIN Following /\ ~GoesOn
  /\ libc' = Following[libc] /\ UNCHANGED <<libcCall, bytes, ptr, libcReturned>>

-----------------------------------------------------------------------------
(* strcpy, strncpy, strdup: memcpy of as many bytes as the string has, and *)
(* what is written behind them.                                            *)

SourceLength == Strlen(libcCall.memory, libcCall.from)

StartsCopy ==
  /\ libc = "called" /\ libcCall.name \in Copying
  /\ libc' = "align"
  /\ ptr' = [ptr EXCEPT !.n = IF libcCall.name = "memcpy" THEN @ ELSE SourceLength]
  /\ UNCHANGED <<libcCall, bytes, libcReturned>>

MallocFails ==
  /\ libc = "called" /\ libcCall.name = "strdup"
  /\ libc' = "NULL" /\ UNCHANGED <<libcCall, bytes, ptr, libcReturned>>

\* strncpy fills what the string leaves of n, and the others end it.
Ending ==
  CASE libcCall.name = "memcpy" -> {}
    [] libcCall.name = "strncpy" -> libcCall.to + SourceLength..libcCall.to + libcCall.n - 1
    [] OTHER -> {libcCall.to + SourceLength}

EndsCopy ==
  /\ libc = "copied" /\ libc' = "done"
  /\ bytes' = [a \in DOMAIN bytes |-> IF a \in Ending THEN 0 ELSE bytes[a]]
  /\ UNCHANGED <<libcCall, ptr, libcReturned>>

-----------------------------------------------------------------------------
(* memcmp_length, and strcmp.  The third loop of memcmp_length goes on as  *)
(* long as bytes differ, and ends when they do: it does not count any.     *)

Differ(k) == \E i \in 0..k - 1 : bytes[ptr.from + i] # bytes[ptr.to + i]
Compared == libcCall.n - ptr.n

StartsComparison ==
  /\ libc = "called" /\ libcCall.name = "memcmp_length"
  /\ libc' = "compare bytes" /\ UNCHANGED <<libcCall, bytes, ptr, libcReturned>>

ComparesByte ==
  /\ libc = "compare bytes"
  /\ IF ptr.from % WordSize = 0 \/ ptr.n = 0
     THEN libc' = "compare words" /\ UNCHANGED <<libcCall, bytes, ptr, libcReturned>>
     ELSE IF Differ(1) THEN LibcReturns(Compared)
     ELSE Advance(1) /\ UNCHANGED <<libcCall, bytes, libc, libcReturned>>

\* Mutant: the word is counted before it is looked at.
ComparesWord_Later ==
  /\ libc = "compare words"
  /\ IF ptr.n < WordSize THEN LibcReturns(Compared)
     ELSE IF Differ(WordSize) THEN LibcReturns(Compared + WordSize)
     ELSE Advance(WordSize) /\ UNCHANGED <<libcCall, bytes, libc, libcReturned>>

ComparesWord ==
  /\ libc = "compare words"
  /\ IF ptr.n < WordSize \/ Differ(WordSize) THEN LibcReturns(Compared)
     ELSE Advance(WordSize) /\ UNCHANGED <<libcCall, bytes, libc, libcReturned>>

ComparesStrings ==
  /\ libc = "called" /\ libcCall.name = "strcmp"
  /\ IF Differ(1) \/ bytes[ptr.to] = 0
     THEN LibcReturns(bytes[ptr.from] - bytes[ptr.to])
     ELSE Advance(1) /\ UNCHANGED <<libcCall, bytes, libc, libcReturned>>

LibcNext ==
  \/ StartsCopy \/ MallocFails \/ MovesOn \/ LoopEnds \/ EndsCopy
  \/ StartsComparison \/ ComparesByte \/ ComparesWord \/ ComparesStrings

LibcSpec == LibcInit /\ [][LibcNext]_libcVars

-----------------------------------------------------------------------------
\* What a call may write, and what there is to be in the end.
Copied == IF libcCall.name = "memcpy" THEN libcCall.n ELSE SourceLength
Destination == (libcCall.to..libcCall.to + Copied - 1) \cup Ending

\* From which byte on two things differ, within n.
EqualLength ==
  CHOOSE k \in 0..libcCall.n :
    /\ \A i \in 0..k - 1 : bytes[libcCall.from + i] = bytes[libcCall.to + i]
    /\ k < libcCall.n => bytes[libcCall.from + k] # bytes[libcCall.to + k]
StringAt(m, s) == [i \in 1..Strlen(m, s) |-> m[s + i - 1]]
IsBefore(s, t) ==
  \E k \in 0..Cardinality(DOMAIN s) :
    /\ \A i \in 1..k : i \in DOMAIN t /\ s[i] = t[i]
    /\ k + 1 \in DOMAIN t /\ (k + 1 \in DOMAIN s => s[k + 1] < t[k + 1])

\* Whatever the alignment and the length, nothing outside the destination is
\* written, and in the end the bytes are there, the last one included
\* (memcpy.c:27-64); the destination of strncpy is as long as the string, if that
\* is longer than n (strncpy.c:9).  What memcmp_length counts is equal and lacks less than a
\* word (memcmp_length.c:22-53), and strcmp puts strings in their order.
BytesAreMoved ==
  /\ \A a \in DOMAIN bytes :
       (libcCall.name \notin Copying \/ a \notin Destination) => bytes[a] = libcCall.memory[a]
  /\ libc = "done" /\ libcCall.name \in Copying =>
       /\ \A i \in 0..Copied - 1 : bytes[libcCall.to + i] = libcCall.memory[libcCall.from + i]
       /\ \A a \in Ending : bytes[a] = 0
       /\ libcCall.name \in {"strcpy", "strdup"} =>
            StringAt(bytes, libcCall.to) = StringAt(libcCall.memory, libcCall.from)
  /\ libc = "done" /\ libcCall.name = "memcmp_length" =>
       libcReturned <= EqualLength /\ EqualLength - libcReturned < WordSize
  /\ libc = "done" /\ libcCall.name = "strcmp" =>
       LET s == StringAt(bytes, libcCall.from)
           t == StringAt(bytes, libcCall.to)
       IN  (libcReturned < 0 <=> IsBefore(s, t)) /\ (libcReturned > 0 <=> IsBefore(t, s))
=============================================================================
