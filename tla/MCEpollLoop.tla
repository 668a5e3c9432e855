---------------------------- MODULE MCEpollLoop ----------------------------
(* Small instances of EpollLoop for TLC.                                   *)
EXTENDS EpollLoop, TLC

Symmetry == Permutations(Conns)
=============================================================================
