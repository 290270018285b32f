----------------------------- MODULE ByteStream -----------------------------
(***************************************************************************)
(* What a pipe promises: a bounded queue of bytes with two ends.  Bytes    *)
(* come out in the order they went in, each once, and a reader is told     *)
(* that the stream has ended only when it is empty and its write end is    *)
(* closed.                                                                 *)
(***************************************************************************)
EXTENDS Integers, Sequences

CONSTANTS Proc, Byte, Capacity, None, Eof

VARIABLES
    queue,      \* the bytes in the pipe
    ropen,      \* the read end is open
    wopen,      \* the write end is open
    got         \* what each process received last

bsvars == <<queue, ropen, wopen, got>>

BSInit ==
    /\ queue = <<>>
    /\ ropen = TRUE /\ wopen = TRUE
    /\ got = [p \in Proc |-> None]

PutByte(v) ==
    /\ ropen /\ wopen
    /\ Len(queue) < Capacity
    /\ queue' = Append(queue, v)
    /\ UNCHANGED <<ropen, wopen, got>>

TakeByte(p) ==
    /\ ropen
    /\ queue # <<>>
    /\ got' = [got EXCEPT ![p] = Head(queue)]
    /\ queue' = Tail(queue)
    /\ UNCHANGED <<ropen, wopen>>

EndOfFile(p) ==
    /\ queue = <<>> /\ ~wopen
    /\ got' = [got EXCEPT ![p] = Eof]
    /\ UNCHANGED <<queue, ropen, wopen>>

CloseEnd ==
    /\ \/ ropen' = FALSE /\ UNCHANGED wopen
       \/ wopen' = FALSE /\ UNCHANGED ropen
    /\ UNCHANGED <<queue, got>>

BSNext ==
    \/ \E v \in Byte : PutByte(v)
    \/ \E p \in Proc : TakeByte(p) \/ EndOfFile(p)
    \/ CloseEnd

BSSpec == BSInit /\ [][BSNext]_bsvars
=============================================================================
