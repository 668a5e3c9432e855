---------------------------- MODULE MCLinkedList ----------------------------
(* Small instances of LinkedList for TLC.                                  *)
EXTENDS LinkedList, TLC

Symmetry == Permutations(Heads) \cup Permutations(Entries)
=============================================================================
