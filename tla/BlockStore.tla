----------------------------- MODULE BlockStore -----------------------------
(***************************************************************************)
(* What the buffer cache promises: each disk block is one variable that a  *)
(* process reads and writes while it alone holds the block.  Which buffer  *)
(* carries it, and what happens when buffers run short, cannot be seen.    *)
(***************************************************************************)
CONSTANTS Proc, BlockNo, Data, None

VARIABLES
    val,        \* the contents of each block
    holder      \* the process that holds it, or None

bsvars == <<val, holder>>

BSInit ==
    /\ val \in [BlockNo -> Data]
    /\ holder = [k \in BlockNo |-> None]

Hold(p, k) ==
    /\ holder[k] = None
    /\ holder' = [holder EXCEPT ![k] = p]
    /\ UNCHANGED val

Update(p, k, v) ==
    /\ holder[k] = p
    /\ val' = [val EXCEPT ![k] = v]
    /\ UNCHANGED holder

Drop(p, k) ==
    /\ holder[k] = p
    /\ holder' = [holder EXCEPT ![k] = None]
    /\ UNCHANGED val

BSNext ==
    \E p \in Proc, k \in BlockNo :
        \/ Hold(p, k)
        \/ Drop(p, k)
        \/ \E v \in Data : Update(p, k, v)

BSSpec == BSInit /\ [][BSNext]_bsvars
=============================================================================
