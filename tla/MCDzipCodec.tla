----------------------------- MODULE MCDzipCodec -----------------------------
(* A small instance of DzipChunk: two chunks, each of up to six bits or one  *)
(* with a long match or a match of a long distance.  Indexes of two bytes   *)
(* share two slots.                                                         *)
EXTENDS DzipChunk

Run(bit, n) == [i \in 1..n |-> bit]
MCWindows == UNION {[1..n -> Bytes] : n \in {1, 3, 6}}
             \cup {Run(0, 18), <<0>> \o Run(1, 16) \o <<0, 1, 1, 1>>}
MCSlotOf(index) == index[1]
MCPrior == {<<>>, <<1, 0>>}
=============================================================================
