----------------------------- MODULE MCNgxShmtx -----------------------------
(* Small instances of NgxShmtx for TLC.                                    *)
EXTENDS NgxShmtx, TLC

MCPids == 1 .. 3
Symmetry == Permutations(Workers)
=============================================================================
