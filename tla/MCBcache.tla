------------------------------ MODULE MCBcache ------------------------------
(* A small instance of module Bcache for TLC.                              *)
EXTENDS Bcache, TLC

CONSTANTS p1, p2, a1, a2, b1, b2, k1, k2, k3, k4, d1, d2

MCProc    == {p1, p2}
MCUser    == {a1, a2, b1, b2}
MCProcess == [u \in MCUser |-> IF u \in {a1, a2} THEN p1 ELSE p2]
MCBlock   == {k1, k2, k3, k4}
MCData    == {d1, d2}
\* k1 is what a process holds when it asks for more: an indirect block, or a
\* log block.
MCRank    == [k \in MCBlock |-> IF k = k1 THEN 1 ELSE 0]

\* The two users of a process are alike, and so are the two processes.
Swap(x, y) == (x :> y) @@ (y :> x)
Symmetry ==
    {Swap(a1, a2), Swap(b1, b2), Swap(p1, p2) @@ Swap(a1, b1) @@ Swap(a2, b2)}
        \union Permutations({k2, k3, k4}) \union Permutations(MCData)
=============================================================================
