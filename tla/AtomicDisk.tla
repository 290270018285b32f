----------------------------- MODULE AtomicDisk -----------------------------
(***************************************************************************)
(* What the logging layer of the file system promises its callers: a disk  *)
(* on which groups of block writes survive a crash all together or not at  *)
(* all, and on which a completed sync() means that every file-system call  *)
(* that had returned before it is on the disk.                             *)
(*                                                                         *)
(* The module mentions neither a log, nor a buffer cache, nor recovery.    *)
(* Module Log is shown to implement it.                                    *)
(***************************************************************************)
CONSTANTS
    Proc,       \* processes that make file-system calls
    Block,      \* the block numbers of the data area
    Data        \* what a block can contain

VARIABLES
    mem,        \* the contents a running kernel sees
    durable,    \* the contents a crash would leave behind
    active,     \* the processes inside a file-system call
    pending,    \* the processes with a finished call that is not yet durable
    syncing,    \* the processes inside sync()
    owed        \* per syncing process: the finished calls it still waits for

avars == <<mem, durable, active, pending, syncing, owed>>

AInit ==
    /\ durable \in [Block -> Data]
    /\ mem = durable
    /\ active = {}
    /\ pending = {}
    /\ syncing = {}
    /\ owed = [p \in Proc |-> {}]

Begin(p) ==
    /\ p \notin active
    /\ active' = active \union {p}
    /\ UNCHANGED <<mem, durable, pending, syncing, owed>>

Write(p, b, v) ==
    /\ p \in active
    /\ mem' = [mem EXCEPT ![b] = v]
    /\ UNCHANGED <<durable, active, pending, syncing, owed>>

End(p) ==
    /\ p \in active
    /\ active' = active \ {p}
    /\ pending' = pending \union {p}
    /\ UNCHANGED <<mem, durable, syncing, owed>>

\* The group commit: everything written so far becomes durable at one
\* instant, at which no call is half way through its writes.
Commit ==
    /\ active = {}
    /\ durable' = mem
    /\ pending' = {}
    /\ owed' = [p \in Proc |-> {}]
    /\ UNCHANGED <<mem, active, syncing>>

SyncCall(p) ==
    /\ p \notin syncing
    /\ syncing' = syncing \union {p}
    /\ owed' = [owed EXCEPT ![p] = pending]
    /\ UNCHANGED <<mem, durable, active, pending>>

SyncReturn(p) ==
    /\ p \in syncing
    /\ owed[p] = {}
    /\ syncing' = syncing \ {p}
    /\ UNCHANGED <<mem, durable, active, pending, owed>>

\* Power failure: only the durable contents survive.
Crash ==
    /\ mem' = durable
    /\ active' = {}
    /\ pending' = {}
    /\ syncing' = {}
    /\ owed' = [p \in Proc |-> {}]
    /\ UNCHANGED durable

ANext ==
    \/ \E p \in Proc :
          \/ Begin(p)
          \/ End(p)
          \/ SyncCall(p)
          \/ SyncReturn(p)
          \/ \E b \in Block, v \in Data : Write(p, b, v)
    \/ Commit
    \/ Crash

ASpec == AInit /\ [][ANext]_avars
=============================================================================
