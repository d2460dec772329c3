--------------------------- MODULE MCFdChainWrite ---------------------------
(* A small instance of FdChainWrite.                                        *)
EXTENDS FdChainWrite

MCData == [i \in 1..7 |-> i]
=============================================================================
