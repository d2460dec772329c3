------------------------------- MODULE Vluint -------------------------------
(***************************************************************************)
(* Variable length unsigned integers (vluint/vluint.c): the low digit of   *)
(* the number first, every byte but the last marked with the bit above its *)
(* digit.                                                                  *)
(***************************************************************************)
EXTENDS Integers, Sequences

CONSTANTS
  Base,      \* VLUINT_CHAR_MAX, 128: a byte is a digit, plus Base if more follow
  Modulus    \* 2^64: vluint_result is a size_t and wraps

ASSUME VluintAssumption == Base \in Nat \ {0, 1} /\ Modulus \in Nat \ {0}

\* vluint_write: the bytes it appends.
VluintWrite(n) ==
  LET from[m \in 0..n] == IF m < Base THEN <<m>>
                          ELSE <<Base + (m % Base)>> \o from[m \div Base]
  IN  from[n]

\* Mutant: the end of the bytes ends a number too.
VluintRead_AtEnd(bytes) ==
  LET from[i \in 1..(Len(bytes) + 1)] ==
        IF i > Len(bytes) THEN [ok |-> TRUE, result |-> 0, rest |-> <<>>]
        ELSE IF bytes[i] < Base
        THEN [ok |-> TRUE, result |-> bytes[i] % Modulus,
              rest |-> SubSeq(bytes, i + 1, Len(bytes))]
        ELSE LET higher == from[i + 1]
             IN  [higher EXCEPT !.result =
                    ((bytes[i] % Base) + Base * @) % Modulus]
  IN  from[1]

\* vluint_read: whether the bytes hold a whole number, the number, and what
\* follows it.  The sum of digits times powers is taken from its last term.
VluintRead(bytes) ==
  LET Truncated == [ok |-> FALSE, result |-> 0, rest |-> bytes]
      from[i \in 1..(Len(bytes) + 1)] ==
        IF i > Len(bytes) THEN Truncated
        ELSE IF bytes[i] < Base
        THEN [ok |-> TRUE, result |-> bytes[i] % Modulus,
              rest |-> SubSeq(bytes, i + 1, Len(bytes))]
        ELSE LET higher == from[i + 1]
             IN  [higher EXCEPT !.result =
                    ((bytes[i] % Base) + Base * @) % Modulus]
  IN  IF from[1].ok THEN from[1] ELSE Truncated
=============================================================================
