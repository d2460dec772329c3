---------------------------- MODULE MCFdChainRead ----------------------------
(* Small instances of FdChainRead: streams of a few distinct bytes.         *)
EXTENDS FdChainRead

MCSource == [i \in 1..5 |-> i]
=============================================================================
