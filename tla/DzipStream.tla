----------------------------- MODULE DzipStream -----------------------------
(***************************************************************************)
(* The dzip stream format as the chains see it (dzip/deflate/deflate.c,    *)
(* dzip/inflate/extensions.c): a sequence of chunks, each of which is one  *)
(* unit of header and at least one unit of data.  How bytes become commands *)
(* inside a chunk is the subject of DzipCodec; here a chunk's data is the  *)
(* plain bytes it stands for, which keeps the boundaries of chunks, the    *)
(* only thing the chains depend on.                                        *)
(***************************************************************************)
EXTENDS Integers, Sequences

CONSTANT MaxChunk   \* DZIP_MAX_CHUNK_SIZE: larger inputs are split

ASSUME MaxChunkAssumption == MaxChunk \in Nat \ {0}

(***************************************************************************)
(* Units.  A "foreign" header has another magic or version; a "broken" one *)
(* heads a chunk whose data stops making sense at its last unit.  A byte   *)
(* of data in the place of a header is foreign too.                        *)
(***************************************************************************)
Header(size, kind) == [size |-> size, kind |-> kind]
Byte(value) == [kind |-> "data", value |-> value]

\* What may stand in a stream: a unit that is no header of a chunk, or the header of
\* one that has data.
IsUnit(unit) == unit.kind \in {"foreign", "data"} \/ unit.size \in Nat \ {0, 1}
AreUnits(units) == \A unit \in units : IsUnit(unit)

Chunk(bytes) == <<Header(Len(bytes) + 1, "good")>> \o bytes

\* The size of the next chunk when n bytes are left to deflate.
NextChunk(n) == IF n > 2 * MaxChunk THEN MaxChunk ELSE n

\* One turn of dzip_deflate's loop, at place i; `from` holds what the turns that
\* follow append.
DeflateTurn(bytes, from, i) ==
  IF i > Len(bytes) THEN <<>>
  ELSE LET n == NextChunk(Len(bytes) - i + 1)
       IN  Chunk(SubSeq(bytes, i, i + n - 1)) \o from[i + n]

\* dzip_deflate: no chunk at all is made of no bytes.
Deflate(bytes) ==
  LET from[i \in 1..(Len(bytes) + 1)] == DeflateTurn(bytes, from, i)
  IN  from[1]

(***************************************************************************)
(* dzip_inflate_range: what it appends to its output, how many units of its *)
(* input it has used, and whether it succeeded.  It stops at a chunk that  *)
(* is not all there; on failure the input is not advanced, though the      *)
(* output holds what was inflated so far.                                  *)
(***************************************************************************)
Waits(i) == [ok |-> TRUE, used |-> i - 1, out |-> <<>>]
Fails(out) == [ok |-> FALSE, used |-> 0, out |-> out]

\* One turn of its loop, at place i; `from` holds what comes of the turns that
\* follow.
InflateTurn(units, from, i) ==
  LET size == units[i].size
  IN  IF i >= Len(units) THEN Waits(i)
      ELSE IF units[i].kind \in {"foreign", "data"} THEN Fails(<<>>)
      ELSE IF i + size > Len(units) + 1 THEN Waits(i)
      ELSE IF units[i].kind = "broken" THEN Fails(SubSeq(units, i + 1, i + size - 2))
      ELSE [from[i + size] EXCEPT !.out = SubSeq(units, i + 1, i + size - 1) \o @]

InflateRange(units) ==
  LET from[i \in 1..(Len(units) + 1)] == InflateTurn(units, from, i)
  IN  from[1]

\* The bytes a whole stream stands for, up to its first chunk that is not good.
Plain(units) == InflateRange(units).out
=============================================================================
