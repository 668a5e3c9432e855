-------------------------- MODULE MCProcessDaemon --------------------------
(* Small instances of ProcessDaemon for TLC.                               *)
EXTENDS ProcessDaemon, TLC

Symmetry == Permutations(Pids)
=============================================================================
