------------------------------- MODULE MCPipe -------------------------------
(* Small instances of module Pipe for TLC.                                 *)
EXTENDS Pipe, TLC

CONSTANTS p1, p2, p3, v1, v2

MCProc == {p1, p2, p3}
P1     == {p1}
P2     == {p2}
P12    == {p1, p2}
P23    == {p2, p3}
Bytes1 == {v1}
Bytes2 == {v1, v2}

ByteSymmetry == Permutations(Bytes2)
=============================================================================
