---------------------------- MODULE MCProcTable ----------------------------
(* Small instances of module ProcTable for TLC.                            *)
EXTENDS ProcTable, TLC

CONSTANTS c1, c2

OneHart   == {c1}
TwoHarts  == {c1, c2}
HartSymmetry == Permutations(TwoHarts)
=============================================================================
