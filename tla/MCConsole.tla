----------------------------- MODULE MCConsole -----------------------------
(* A small instance of module Console for TLC.                             *)
EXTENDS Console, TLC

CONSTANTS p1, p2

MCProc == {p1, p2}
MCKey  == {"x", "cr", "eof", "bs", "kill"}

ProcSymmetry == Permutations(MCProc)
=============================================================================
