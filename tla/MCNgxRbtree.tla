---------------------------- MODULE MCNgxRbtree -----------------------------
(* Small instances of NgxRbtree for TLC.                                   *)
EXTENDS NgxRbtree, TLC

Symmetry == Permutations(Nodes)
=============================================================================
