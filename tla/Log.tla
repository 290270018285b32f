-------------------------------- MODULE Log --------------------------------
(***************************************************************************)
(* The write-ahead log shared by the modern ports,                         *)
(* kernel/filesystems/log.c: group commit of the file-system calls that    *)
(* run concurrently, recovery after a crash, and sync().                   *)
(*                                                                         *)
(* Each critical section of log.lock is one action; so is each disk write, *)
(* because a power failure can fall between any two of them.  A block's    *)
(* contents are opaque values.  The buffer cache (bio.c) appears as        *)
(* `cache', the contents of the buffers, and `pin', the references taken   *)
(* by bpin(); an unpinned, unlocked buffer can be recycled at any time.    *)
(* A process holds one modified buffer at a time between bread() and       *)
(* brelse().                                                               *)
(***************************************************************************)
EXTENDS Integers, Sequences, FiniteSets

CONSTANTS
    Proc,           \* the processes that make file-system calls
    Block,          \* block numbers of the data area
    Data,           \* contents of a block
    NotCached,      \* no buffer holds the block
    NoBlock,        \* the process holds no buffer
    LOGSIZE,        \* LOGSIZE of param.h: entries of the log header
    NLOG,           \* sb->nlog: blocks of the on-disk log, header included
    MAXOPBLOCKS,    \* MAXOPBLOCKS of param.h: log blocks begin_op() reserves
    OpBlocks,       \* distinct blocks that a call of this workload dirties
    MaxWrites,      \* bound: log_write()s made by one call
    MaxCalls        \* bound: calls made between two crashes

ASSUME LogAssumption ==
    /\ LOGSIZE \in Nat
    /\ NLOG \in Nat
    /\ MAXOPBLOCKS \in Nat \ {0}
    /\ OpBlocks \in 0..MAXOPBLOCKS
    /\ MaxWrites \in Nat
    /\ MaxCalls \in Nat
    /\ NotCached \notin Data
    /\ NoBlock \notin Block
    /\ IsFiniteSet(Proc)

VARIABLES
    \* The disk, which survives a crash.
    disk,           \* contents of the home locations
    logblk,         \* contents of the log's body blocks
    dhead,          \* the on-disk log header: the block numbers it lists
    \* Volatile state.
    phase,          \* recovery's progress, "run", or "panic"
    cache,          \* contents of the buffers, or NotCached
    pin,            \* per block: references taken by bpin()
    lh,             \* log.lh, the in-memory header
    outstanding,    \* log.outstanding
    committing,     \* log.committing
    ncommit,        \* log.ncommit
    tail,           \* loop index of write_log() and install_trans()
    pc,             \* where each process is
    sleeping,       \* processes asleep on channel &log
    buf,            \* the modified buffer each process has locked
    wrote,          \* the blocks each process's call has dirtied
    nwrites,        \* its number of log_write()s
    calls,          \* calls made since the machine was switched on
    target,         \* sys_sync()'s local n
    \* History variables: who has finished a call that is not yet durable,
    \* and for which of those calls each sync() has to wait.
    pending, owed

diskVars == <<disk, logblk, dhead>>
bufVars  == <<cache, pin>>
logVars  == <<lh, outstanding, committing, ncommit, tail>>
opVars   == <<buf, wrote, nwrites, calls>>
syncVars == <<target, pending, owed>>
vars == <<diskVars, phase, bufVars, logVars, pc, sleeping, opVars, syncVars>>

CommitPC == {"commit", "write_log", "install", "finish"}
OpPC     == {"op", "modified"}
SyncPC   == {"sync", "sync_wait"}
PC       == {"idle", "begin_op"} \union OpPC \union CommitPC \union SyncPC

RangeOf(s) == {s[i] : i \in DOMAIN s}

\* bread(): what the process finds in the buffer.
Bread(b) == IF cache[b] = NotCached THEN disk[b] ELSE cache[b]

LogFull == Len(lh) >= LOGSIZE \/ Len(lh) >= NLOG - 1

\* wakeup(&log).
Wakeup_Missing == UNCHANGED sleeping
Wakeup == sleeping' = {}

Goto(p, l) == pc' = [pc EXCEPT ![p] = l]
-----------------------------------------------------------------------------
(* A machine that has just been switched on, with the log mkfs wrote.      *)

Init ==
    /\ disk \in [Block -> Data]
    /\ logblk \in [1..LOGSIZE -> Data]
    /\ dhead = <<>>
    /\ phase = "read_head"
    /\ cache = [b \in Block |-> NotCached]
    /\ pin = [b \in Block |-> 0]
    /\ lh = <<>>
    /\ outstanding = 0
    /\ committing = FALSE
    /\ ncommit = 0
    /\ tail = 0
    /\ pc = [p \in Proc |-> "idle"]
    /\ sleeping = {}
    /\ buf = [p \in Proc |-> NoBlock]
    /\ wrote = [p \in Proc |-> {}]
    /\ nwrites = [p \in Proc |-> 0]
    /\ calls = 0
    /\ target = [p \in Proc |-> 0]
    /\ pending = {}
    /\ owed = [p \in Proc |-> {}]

\* The processor stops; the disk keeps what it has.
Crash ==
    /\ phase' = "read_head"
    /\ cache' = [b \in Block |-> NotCached]
    /\ pin' = [b \in Block |-> 0]
    /\ lh' = <<>>
    /\ outstanding' = 0
    /\ committing' = FALSE
    /\ ncommit' = 0
    /\ tail' = 0
    /\ pc' = [p \in Proc |-> "idle"]
    /\ sleeping' = {}
    /\ buf' = [p \in Proc |-> NoBlock]
    /\ wrote' = [p \in Proc |-> {}]
    /\ nwrites' = [p \in Proc |-> 0]
    /\ calls' = 0
    /\ target' = [p \in Proc |-> 0]
    /\ pending' = {}
    /\ owed' = [p \in Proc |-> {}]
    /\ UNCHANGED diskVars
-----------------------------------------------------------------------------
(* recover_from_log(), run by the first process before any other starts.   *)

ReadHead ==
    /\ phase = "read_head"
    /\ lh' = dhead
    /\ tail' = 0
    /\ phase' = "install"
    /\ UNCHANGED <<diskVars, bufVars, outstanding, committing, ncommit,
                   pc, sleeping, opVars, syncVars>>

\* One iteration of install_trans(): the log block is copied into the
\* buffer of its home location and written there.
InstallBlock ==
    LET b == lh[tail + 1]
        v == logblk[tail + 1]
    IN  /\ tail < Len(lh)
        /\ cache' = [cache EXCEPT ![b] = v]
        /\ disk' = [disk EXCEPT ![b] = v]
        /\ tail' = tail + 1
        /\ UNCHANGED <<logblk, dhead>>

RecoverInstall ==
    /\ phase = "install"
    /\ InstallBlock
    /\ UNCHANGED <<phase, pin, lh, outstanding, committing, ncommit,
                   pc, sleeping, opVars, syncVars>>

\* log.lh.n = 0; write_head().
EraseLog ==
    /\ tail = Len(lh)
    /\ lh' = <<>>
    /\ dhead' = <<>>
    /\ tail' = 0
    /\ UNCHANGED <<disk, logblk>>

RecoverErase ==
    /\ phase = "install"
    /\ EraseLog
    /\ phase' = "run"
    /\ UNCHANGED <<bufVars, outstanding, committing, ncommit,
                   pc, sleeping, opVars, syncVars>>
-----------------------------------------------------------------------------
(* The buffer cache beneath the log: a reader brings a block in, bget()    *)
(* recycles a buffer with no reference.                                    *)

Load(b) ==
    /\ phase = "run"
    /\ cache[b] = NotCached
    /\ cache' = [cache EXCEPT ![b] = disk[b]]
    /\ UNCHANGED <<diskVars, phase, pin, logVars, pc, sleeping, opVars,
                   syncVars>>

Recyclable(b) == pin[b] = 0 /\ \A p \in Proc : buf[p] # b

Evict(b) ==
    /\ phase = "run"
    /\ cache[b] # NotCached
    /\ Recyclable(b)
    /\ cache' = [cache EXCEPT ![b] = NotCached]
    /\ UNCHANGED <<diskVars, phase, pin, logVars, pc, sleeping, opVars,
                   syncVars>>
-----------------------------------------------------------------------------
(* A file-system call.                                                     *)

CallBeginOp(p) ==
    /\ phase = "run"
    /\ pc[p] = "idle"
    /\ calls < MaxCalls
    /\ calls' = calls + 1
    /\ Goto(p, "begin_op")
    /\ UNCHANGED <<diskVars, phase, bufVars, logVars, sleeping, buf, wrote,
                   nwrites, syncVars>>

NoRoom_NotSelf == Len(lh) + outstanding * MAXOPBLOCKS > LOGSIZE
NoRoom == Len(lh) + (outstanding + 1) * MAXOPBLOCKS > LOGSIZE

\* One turn of begin_op()'s loop, from acquire() to release() or sleep().
BeginOpWait(p) ==
    /\ phase = "run"
    /\ pc[p] = "begin_op"
    /\ p \notin sleeping
    /\ committing \/ NoRoom
    /\ sleeping' = sleeping \union {p}
    /\ UNCHANGED <<diskVars, phase, bufVars, logVars, pc, opVars, syncVars>>

CountIn_Missing == UNCHANGED outstanding
CountIn == outstanding' = outstanding + 1

BeginOp(p) ==
    /\ phase = "run"
    /\ pc[p] = "begin_op"
    /\ p \notin sleeping
    /\ ~committing
    /\ ~NoRoom
    /\ CountIn
    /\ wrote' = [wrote EXCEPT ![p] = {}]
    /\ nwrites' = [nwrites EXCEPT ![p] = 0]
    /\ Goto(p, "op")
    /\ UNCHANGED <<diskVars, phase, bufVars, lh, committing, ncommit, tail,
                   sleeping, buf, calls, syncVars>>

\* bread() and the caller's change of the locked buffer's data.
Modify(p, b, v) ==
    /\ phase = "run"
    /\ pc[p] = "op"
    /\ nwrites[p] < MaxWrites
    /\ Cardinality(wrote[p] \union {b}) <= OpBlocks
    /\ \A q \in Proc : buf[q] # b
    /\ buf' = [buf EXCEPT ![p] = b]
    /\ cache' = [cache EXCEPT ![b] = v]
    /\ Goto(p, "modified")
    /\ UNCHANGED <<diskVars, phase, pin, logVars, sleeping, wrote, nwrites,
                   calls, syncVars>>

Absorbed(b) == b \in RangeOf(lh)

\* log_write() pins a block when it first enters the transaction.
PinLogged_Always(b) == [pin EXCEPT ![b] = @ + 1]
PinLogged(b) == IF Absorbed(b) THEN pin ELSE [pin EXCEPT ![b] = @ + 1]

\* log_write() and the brelse() that follows it.
LogWrite(p) ==
    LET b == buf[p]
    IN  /\ phase = "run"
        /\ pc[p] = "modified"
        /\ ~LogFull
        /\ outstanding >= 1
        /\ lh' = IF Absorbed(b) THEN lh ELSE Append(lh, b)
        /\ pin' = PinLogged(b)
        /\ buf' = [buf EXCEPT ![p] = NoBlock]
        /\ wrote' = [wrote EXCEPT ![p] = @ \union {b}]
        /\ nwrites' = [nwrites EXCEPT ![p] = @ + 1]
        /\ Goto(p, "op")
        /\ UNCHANGED <<diskVars, phase, cache, outstanding, committing,
                       ncommit, tail, sleeping, calls, syncVars>>

\* end_op(): the last call out becomes the committer.
EndOp(p) ==
    /\ phase = "run"
    /\ pc[p] = "op"
    /\ ~committing
    /\ outstanding' = outstanding - 1
    /\ pending' = pending \union {p}
    /\ IF outstanding = 1
         THEN /\ committing' = TRUE
              /\ Goto(p, "commit")
              /\ UNCHANGED sleeping
         ELSE /\ Wakeup
              /\ Goto(p, "idle")
              /\ UNCHANGED committing
    /\ UNCHANGED <<diskVars, phase, bufVars, lh, ncommit, tail, opVars,
                   target, owed>>

\* The panics of log_write() ("too big a transaction", "log_write outside
\* of trans") and of end_op() ("log.committing"): the machine stops.
Panicking ==
    {p \in Proc :
        \/ pc[p] = "modified" /\ (LogFull \/ outstanding < 1)
        \/ pc[p] = "op" /\ committing}

Panic(p) ==
    /\ phase = "run"
    /\ p \in Panicking
    /\ phase' = "panic"
    /\ UNCHANGED <<diskVars, bufVars, logVars, pc, sleeping, opVars, syncVars>>
-----------------------------------------------------------------------------
(* commit(), run by the last process out of its call, without log.lock.    *)

\* What a commit makes durable is no longer owed to any sync().
Settled ==
    /\ pending' = {}
    /\ owed' = [p \in Proc |-> {}]

Commit(p) ==
    /\ phase = "run"
    /\ pc[p] = "commit"
    /\ tail' = 0
    /\ IF Len(lh) > 0
         THEN Goto(p, "write_log") /\ UNCHANGED <<pending, owed>>
         ELSE Goto(p, "finish") /\ Settled
    /\ UNCHANGED <<diskVars, phase, bufVars, lh, outstanding, committing,
                   ncommit, sleeping, opVars, target>>

\* One iteration of write_log(): a cached block is written to the log.
WriteLog(p) ==
    LET b == lh[tail + 1]
    IN  /\ phase = "run"
        /\ pc[p] = "write_log"
        /\ tail < Len(lh)
        /\ cache' = [cache EXCEPT ![b] = Bread(b)]
        /\ logblk' = [logblk EXCEPT ![tail + 1] = Bread(b)]
        /\ tail' = tail + 1
        /\ UNCHANGED <<disk, dhead, phase, pin, lh, outstanding, committing,
                       ncommit, pc, sleeping, opVars, syncVars>>

LogWritten_OffByOne == tail >= Len(lh) - 1
LogWritten == tail = Len(lh)

\* What write_head() puts in the header block.
HeadOut_OffByOne == SubSeq(lh, 1, Len(lh) - 1)
HeadOut == lh

\* write_head(), the true commit point.
WriteHead(p) ==
    /\ phase = "run"
    /\ pc[p] = "write_log"
    /\ LogWritten
    /\ dhead' = HeadOut
    /\ tail' = 0
    /\ Goto(p, "install")
    /\ Settled
    /\ UNCHANGED <<disk, logblk, phase, bufVars, lh, outstanding, committing,
                   ncommit, sleeping, opVars, target>>

\* One iteration of install_trans(0), with its bunpin().
Install(p) ==
    /\ phase = "run"
    /\ pc[p] = "install"
    /\ InstallBlock
    /\ pin' = [pin EXCEPT ![lh[tail + 1]] = @ - 1]
    /\ UNCHANGED <<phase, lh, outstanding, committing, ncommit,
                   pc, sleeping, opVars, syncVars>>

Erase(p) ==
    /\ phase = "run"
    /\ pc[p] = "install"
    /\ EraseLog
    /\ Goto(p, "finish")
    /\ UNCHANGED <<phase, bufVars, outstanding, committing, ncommit,
                   sleeping, opVars, syncVars>>

CountCommit_Missing == UNCHANGED ncommit
CountCommit == ncommit' = ncommit + 1

\* The rest of end_op() after commit(): the committer lets the others in.
Finish(p) ==
    /\ phase = "run"
    /\ pc[p] = "finish"
    /\ committing' = FALSE
    /\ CountCommit
    /\ Wakeup
    /\ Goto(p, "idle")
    /\ UNCHANGED <<diskVars, phase, bufVars, lh, outstanding, tail, opVars,
                   syncVars>>
-----------------------------------------------------------------------------
(* sys_sync().                                                             *)

CallSync(p) ==
    /\ phase = "run"
    /\ pc[p] = "idle"
    /\ owed' = [owed EXCEPT ![p] = pending]
    /\ Goto(p, "sync")
    /\ UNCHANGED <<diskVars, phase, bufVars, logVars, sleeping, opVars,
                   target, pending>>

\* The commit that sync() waits for: the one in progress or the next.
SyncGoal == ncommit + 1

\* Some call has ended, or may end, without being on the disk.
Unsettled_Committing == committing
Unsettled == committing \/ outstanding > 0

\* The test of committing and outstanding, and the first sleep.
SyncWait(p) ==
    /\ phase = "run"
    /\ pc[p] = "sync"
    /\ Unsettled
    /\ target' = [target EXCEPT ![p] = SyncGoal]
    /\ sleeping' = sleeping \union {p}
    /\ Goto(p, "sync_wait")
    /\ UNCHANGED <<diskVars, phase, bufVars, logVars, opVars, pending, owed>>

SyncAgain(p) ==
    /\ phase = "run"
    /\ pc[p] = "sync_wait"
    /\ p \notin sleeping
    /\ ncommit < target[p]
    /\ sleeping' = sleeping \union {p}
    /\ UNCHANGED <<diskVars, phase, bufVars, logVars, pc, opVars, syncVars>>

SyncReturn(p) ==
    /\ phase = "run"
    /\ \/ pc[p] = "sync" /\ ~Unsettled
       \/ pc[p] = "sync_wait" /\ p \notin sleeping /\ ncommit >= target[p]
    /\ Goto(p, "idle")
    /\ UNCHANGED <<diskVars, phase, bufVars, logVars, sleeping, opVars,
                   syncVars>>
-----------------------------------------------------------------------------
Recovery == ReadHead \/ RecoverInstall \/ RecoverErase

\* A step a process takes on its own once it is inside the kernel.
Step(p) ==
    \/ BeginOpWait(p)
    \/ BeginOp(p)
    \/ \E b \in Block, v \in Data : Modify(p, b, v)
    \/ LogWrite(p)
    \/ EndOp(p)
    \/ Panic(p)
    \/ Commit(p)
    \/ WriteLog(p)
    \/ WriteHead(p)
    \/ Install(p)
    \/ Erase(p)
    \/ Finish(p)
    \/ SyncWait(p)
    \/ SyncAgain(p)
    \/ SyncReturn(p)

Next ==
    \/ Recovery
    \/ \E p \in Proc : CallBeginOp(p) \/ CallSync(p) \/ Step(p)
    \/ \E b \in Block : Load(b) \/ Evict(b)
    \/ Crash

Spec == Init /\ [][Next]_vars

\* The scheduler runs every runnable process again and again, and recovery
\* runs in the first of them.  Nothing obliges a process to make a call.
Fairness ==
    /\ WF_vars(Recovery)
    /\ \A p \in Proc : WF_vars(Step(p))

FairSpec == Spec /\ Fairness
-----------------------------------------------------------------------------
(* Properties.                                                             *)

TypeOK ==
    /\ disk \in [Block -> Data]
    /\ logblk \in [1..LOGSIZE -> Data]
    /\ dhead \in Seq(Block)
    /\ phase \in {"read_head", "install", "run", "panic"}
    /\ cache \in [Block -> Data \union {NotCached}]
    /\ pin \in [Block -> Int]
    /\ lh \in Seq(Block)
    /\ Len(lh) <= LOGSIZE
    /\ Len(dhead) <= LOGSIZE
    /\ outstanding \in Nat
    /\ committing \in BOOLEAN
    /\ ncommit \in Nat
    /\ tail \in 0..LOGSIZE
    /\ pc \in [Proc -> PC]
    /\ sleeping \subseteq Proc
    /\ buf \in [Proc -> Block \union {NoBlock}]
    /\ wrote \in [Proc -> SUBSET Block]
    /\ nwrites \in [Proc -> Nat]
    /\ calls \in Nat
    /\ target \in [Proc -> Nat]
    /\ pending \subseteq Proc
    /\ owed \in [Proc -> SUBSET Proc]

\* The processes between begin_op() and end_op().
InOp == {p \in Proc : pc[p] \in OpPC}

\* The log blocks that begin_op() set aside for the calls of the processes
\* in S and that those calls, having dirtied w, have not used: as tokens.
Tokens(S, w) == {t \in S \X (1..MAXOPBLOCKS) : t[2] > Cardinality(w[t[1]])}

Reserved == Tokens(InOp, wrote)

\* begin_op()'s admission test does its job: what is logged and what the
\* admitted calls may still log fit in the log together, whatever the
\* interleaving of the calls and however much they absorb.
LogReservation == Len(lh) + Cardinality(Reserved) <= LOGSIZE

\* No file-system call that keeps within its share of the log can make
\* log_write() panic "too big a transaction" or "log_write outside of
\* trans", or end_op() panic "log.committing".
NoPanic == phase # "panic"

\* The blocks whose only up-to-date copy outside the log is their buffer.
Unflushed ==
    IF \E p \in Proc : pc[p] = "install"
      THEN {lh[i] : i \in tail + 1 .. Len(lh)}
      ELSE RangeOf(lh)

\* bpin() and bunpin() balance: a logged block stays in the cache, pinned
\* exactly once however often it is absorbed, until install_trans() has
\* written it home; no other block is pinned, so none leaks out of the
\* pool of recyclable buffers.
PinnedUntilInstalled ==
    phase \in {"run", "panic"} =>
        \A b \in Block : pin[b] = IF b \in Unflushed THEN 1 ELSE 0

\* The write-ahead rule: a home location is overwritten only with contents
\* that the committed log on the disk already holds for it.
WriteAhead ==
    [][\A b \in Block :
          disk'[b] # disk[b] =>
             \E i \in DOMAIN dhead : dhead[i] = b /\ logblk[i] = disk'[b]]_vars

\* sys_sync() returns only when every call that had passed its end_op()
\* before sync() was entered is durable.
SyncDurable ==
    [][\A p \in Proc :
          pc[p] \in SyncPC /\ pc'[p] = "idle" /\ phase' = "run"
             => owed[p] = {}]_vars

\* What recover_from_log() would leave in block b after a crash now.
Recovered(b) ==
    IF b \in RangeOf(dhead)
      THEN logblk[CHOOSE i \in DOMAIN dhead : dhead[i] = b]
      ELSE disk[b]

View(b) == IF phase \in {"run", "panic"} THEN Bread(b) ELSE Recovered(b)

AD == INSTANCE AtomicDisk WITH
    mem     <- [b \in Block |-> View(b)],
    durable <- [b \in Block |-> Recovered(b)],
    active  <- InOp,
    syncing <- {p \in Proc : pc[p] \in SyncPC}

\* The log implements an atomic disk: through any crash, in commit or in
\* recovery, the file-system calls of a group commit survive together or
\* not at all, and never half way through a call.
CrashAtomicity == AD!ASpec

\* No wakeup is lost in begin_op(): a process that waits there for the end
\* of a commit or for log space gets into its call, or the machine stops.
BeginOpReturns ==
    \A p \in Proc : pc[p] = "begin_op" ~> pc[p] # "begin_op" \/ phase = "panic"

\* No wakeup is lost in sys_sync(): it returns once the calls it waits for
\* have ended.
SyncReturns ==
    \A p \in Proc : pc[p] \in SyncPC ~> pc[p] = "idle" \/ phase = "panic"
=============================================================================
