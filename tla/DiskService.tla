---------------------------- MODULE DiskService ----------------------------
(***************************************************************************)
(* What a disk driver promises to the buffer cache: a process hands over a *)
(* buffer, its contents are moved once, in the direction asked for, at     *)
(* some point of the call, and the call returns after that.  Transfers of  *)
(* different calls happen in any order.                                    *)
(***************************************************************************)
CONSTANTS Proc, Buf, None

VARIABLES
    req,        \* the request of each process
    moved       \* what the disk has done with each buffer during its request

dsvars == <<req, moved>>

Idle == [b |-> None, write |-> FALSE]

DSInit ==
    /\ req = [p \in Proc |-> Idle]
    /\ moved = [b \in Buf |-> "no"]

Start(p, b, w) ==
    /\ req[p] = Idle
    /\ \A q \in Proc : req[q].b # b
    /\ req' = [req EXCEPT ![p] = [b |-> b, write |-> w]]
    /\ UNCHANGED moved

Transfer(p) ==
    /\ req[p] # Idle
    /\ moved[req[p].b] = "no"
    /\ moved' = [moved EXCEPT ![req[p].b] = IF req[p].write THEN "out" ELSE "in"]
    /\ UNCHANGED req

Complete(p) ==
    /\ req[p] # Idle
    /\ moved[req[p].b] # "no"
    /\ req' = [req EXCEPT ![p] = Idle]
    /\ moved' = [moved EXCEPT ![req[p].b] = "no"]

DSNext ==
    \E p \in Proc :
        \/ \E b \in Buf, w \in BOOLEAN : Start(p, b, w)
        \/ Transfer(p)
        \/ Complete(p)

DSSpec == DSInit /\ [][DSNext]_dsvars
=============================================================================
