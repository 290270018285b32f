------------------------------- MODULE MCLog -------------------------------
(* Small instances of module Log for TLC.                                  *)
EXTENDS Log, TLC

CONSTANTS p1, p2, p3, b1, b2, d1, d2

MCProc2  == {p1, p2}
MCProc3  == {p1, p2, p3}
MCBlock1 == {b1}
MCBlock2 == {b1, b2}
MCData1  == {d1}
MCData2  == {d1, d2}

Symmetry == Permutations(MCProc2) \union Permutations(MCBlock2)
                \union Permutations(MCData2)
=============================================================================
