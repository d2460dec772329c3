----------------------------- MODULE MCFileStore -----------------------------
(* A small instance of FileStore: adders of one source and two contents.    *)
(* --existing-only is decided before the type of the entry matters: it is    *)
(* tried with copies.                                                       *)
EXTENDS FileStore, TLC

MCOps == [source : Sources, type : {"copy", "link"}, replace : BOOLEAN,
          existing_only : {FALSE}]
         \cup [source : Sources, type : {"copy"}, replace : BOOLEAN,
               existing_only : {TRUE}]
MCSymmetry == Permutations(Adders) \cup Permutations(Contents)
=============================================================================
