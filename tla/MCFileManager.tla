---------------------------- MODULE MCFileManager ----------------------------
(***************************************************************************)
(* Bounds for FileManager: two servers, which nothing tells apart, with two*)
(* directories each, all full at first.                                    *)
(***************************************************************************)
EXTENDS FileManager, TLC

AllFull == {[d \in Servers \X Paths |-> Names]}
Symmetry == Permutations(Servers)
=============================================================================
