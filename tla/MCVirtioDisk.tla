---------------------------- MODULE MCVirtioDisk ----------------------------
(* Small instances of module VirtioDisk for TLC.                           *)
EXTENDS VirtioDisk, TLC

CONSTANTS p1, p2, p3, b1, b2, b3

MCProc == {p1, p2, p3}
MCBuf  == {b1, b2, b3}

Symmetry == Permutations(MCProc) \union Permutations(MCBuf)
=============================================================================
