--------------------------- MODULE MCBlockManager ---------------------------
(* Small instances of BlockManager for TLC.  Rows are interchangeable: no  *)
(* list of a call depends on the number of a row, and every order of rows  *)
(* is tried.                                                               *)
EXTENDS BlockManager, TLC

Symmetry == Permutations(Ids)
=============================================================================
