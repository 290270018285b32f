------------------------------- MODULE Bcache -------------------------------
(***************************************************************************)
(* The buffer cache, kernel/devices/storage/bio.c: a pool of NBUF buffers  *)
(* on a list ordered by last use, each with a reference count guarded by   *)
(* bcache.lock and a sleep lock guarding its contents.                     *)
(*                                                                         *)
(* Every section of bcache.lock is one action, acquiring and releasing a   *)
(* sleep lock another, a disk transfer another: a process is preempted     *)
(* between any two.  A caller changes a block and then either writes it    *)
(* with bwrite() or leaves it to the log, which pins it with bpin() and    *)
(* later writes and unpins it (install_trans()).                           *)
(*                                                                         *)
(* A process may ask for a block while it holds another: bmap() and        *)
(* itrunc() keep the indirect block across balloc() and bfree(), and       *)
(* write_log() and install_trans() copy between a log block and a home     *)
(* block.  So a process is several users of the cache, one for each buffer  *)
(* it may have at a time.                                                  *)
(***************************************************************************)
EXTENDS Integers, FiniteSets

CONSTANTS
    Proc,       \* the processes that use the cache
    User,       \* one for every buffer a process may have: two each in the code
    Process,    \* the process each user belongs to
    BlockNo,    \* block numbers
    Rank,       \* the order callers keep: log, then indirect, then other blocks
    Data,       \* contents of a block
    NBUF,       \* buffers in the pool
    MaxPins,    \* bound: blocks that the log has pinned at a time
    None,       \* nobody
    NoBlock     \* the block number of a buffer never used

ASSUME BcacheAssumption ==
    /\ NBUF \in Nat \ {0}
    /\ MaxPins \in Nat
    /\ Process \in [User -> Proc]
    /\ Rank \in [BlockNo -> 0..2]
    /\ None \notin User
    /\ NoBlock \notin BlockNo
    /\ IsFiniteSet(User)

Buf == 1..NBUF

VARIABLES
    lru,        \* the list from bcache.head.next: most recently used first
    blockno,    \* b->blockno
    valid,      \* b->valid
    refcnt,     \* b->refcnt
    owner,      \* the holder of b->lock
    data,       \* b->data
    disk,       \* the disk's contents
    pinned,     \* buffers the log has pinned
    panicked,   \* bget() found no buffer
    pc,         \* what each user does next
    want,       \* the block it asked for
    mine        \* the buffer bget() found for it

vars == <<lru, blockno, valid, refcnt, owner, data, disk, pinned, panicked,
          pc, want, mine>>

Goto(u, l) == pc' = [pc EXCEPT ![u] = l]

Init ==
    /\ lru = [i \in Buf |-> NBUF + 1 - i]
    /\ blockno = [i \in Buf |-> NoBlock]
    /\ valid = [i \in Buf |-> FALSE]
    /\ refcnt = [i \in Buf |-> 0]
    /\ owner = [i \in Buf |-> None]
    /\ data \in [Buf -> Data]
    /\ disk \in [BlockNo -> Data]
    /\ pinned = {}
    /\ panicked = FALSE
    /\ pc = [u \in User |-> "idle"]
    /\ want = [u \in User |-> NoBlock]
    /\ mine = [u \in User |-> 0]
-----------------------------------------------------------------------------
(* bget() and bread().                                                     *)

\* bget()'s first loop: the buffers that carry block k.
Cached_ValidOnly(k) == {i \in Buf : blockno[i] = k /\ valid[i]}
Cached(k) == {i \in Buf : blockno[i] = k}

\* bget()'s second loop: a buffer it may recycle.
Reusable_Unlocked(i) == owner[i] = None
Reusable(i) == refcnt[i] = 0

\* The place in the list where the backward scan stops.
LeastRecent(n) ==
    /\ Reusable(lru[n])
    /\ \A m \in Buf : m > n => ~Reusable(lru[m])

\* The process runs no other part of the cache, and asks for a block in the
\* callers' order: bmap() for the bitmap and for a new block while it holds the
\* indirect block, the log for a home block while it holds a log block.
Others(u) == {v \in User : Process[v] = Process[u] /\ v # u}

MayAsk_AnyOrder(u, k) ==
    pc[u] = "idle" /\ \A v \in Others(u) : pc[v] \in {"idle", "have"}
MayAsk(u, k) ==
    /\ pc[u] = "idle"
    /\ \A v \in Others(u) :
          pc[v] = "idle" \/ (pc[v] = "have" /\ Rank[k] < Rank[want[v]])

\* bget() finds block k in the cache.
BgetHit(u, k) ==
    /\ ~panicked
    /\ MayAsk(u, k)
    /\ \E i \in Cached(k) :
          /\ mine' = [mine EXCEPT ![u] = i]
          /\ refcnt' = [refcnt EXCEPT ![i] = @ + 1]
    /\ want' = [want EXCEPT ![u] = k]
    /\ Goto(u, "lock")
    /\ UNCHANGED <<lru, blockno, valid, owner, data, disk, pinned, panicked>>

StaleFlag_Kept(i) == valid
StaleFlag(i) == [valid EXCEPT ![i] = FALSE]

\* bget() recycles the least recently used buffer that nobody references.
BgetMiss(u, k) ==
    /\ ~panicked
    /\ MayAsk(u, k)
    /\ Cached(k) = {}
    /\ \E n \in Buf :
          /\ LeastRecent(n)
          /\ blockno' = [blockno EXCEPT ![lru[n]] = k]
          /\ valid' = StaleFlag(lru[n])
          /\ refcnt' = [refcnt EXCEPT ![lru[n]] = 1]
          /\ mine' = [mine EXCEPT ![u] = lru[n]]
    /\ want' = [want EXCEPT ![u] = k]
    /\ Goto(u, "lock")
    /\ UNCHANGED <<lru, owner, data, disk, pinned, panicked>>

\* panic("bget: no buffers").
BgetPanic(u, k) ==
    /\ ~panicked
    /\ MayAsk(u, k)
    /\ Cached(k) = {}
    /\ \A i \in Buf : ~Reusable(i)
    /\ panicked' = TRUE
    /\ UNCHANGED <<lru, blockno, valid, refcnt, owner, data, disk, pinned, pc,
                   want, mine>>

\* acquiresleep(&b->lock), outside bcache.lock.
Lock(u) ==
    /\ ~panicked
    /\ pc[u] = "lock"
    /\ owner[mine[u]] = None
    /\ owner' = [owner EXCEPT ![mine[u]] = u]
    /\ Goto(u, "locked")
    /\ UNCHANGED <<lru, blockno, valid, refcnt, data, disk, pinned, panicked,
                   want, mine>>

\* bread() reads the block from the disk unless the buffer is valid.
Fill(u) ==
    LET i == mine[u]
    IN  /\ ~panicked
        /\ pc[u] = "locked"
        /\ valid' = [valid EXCEPT ![i] = TRUE]
        /\ data' = IF valid[i] THEN data ELSE [data EXCEPT ![i] = disk[blockno[i]]]
        /\ Goto(u, "have")
        /\ UNCHANGED <<lru, blockno, refcnt, owner, disk, pinned, panicked,
                       want, mine>>
-----------------------------------------------------------------------------
(* What the holder of a buffer does with it.                               *)

\* A process is in one call at a time.
AtRest(u) == \A v \in Others(u) : pc[v] \in {"idle", "have"}

Modify(u, d) ==
    /\ ~panicked
    /\ pc[u] = "have" /\ AtRest(u)
    /\ data' = [data EXCEPT ![mine[u]] = d]
    /\ Goto(u, "dirty")
    /\ UNCHANGED <<lru, blockno, valid, refcnt, owner, disk, pinned, panicked,
                   want, mine>>

\* memmove() between the two buffers of write_log() and install_trans().
Copy(u) ==
    /\ ~panicked
    /\ pc[u] = "have" /\ AtRest(u)
    /\ \E v \in Others(u) :
          /\ pc[v] = "have"
          /\ data' = [data EXCEPT ![mine[u]] = data[mine[v]]]
    /\ Goto(u, "copied")
    /\ UNCHANGED <<lru, blockno, valid, refcnt, owner, disk, pinned, panicked,
                   want, mine>>

Bwrite(u) ==
    /\ ~panicked
    /\ pc[u] \in {"dirty", "copied"}
    /\ disk' = [disk EXCEPT ![blockno[mine[u]]] = data[mine[u]]]
    /\ Goto(u, "have")
    /\ UNCHANGED <<lru, blockno, valid, refcnt, owner, data, pinned, panicked,
                   want, mine>>

\* log_write(): bpin() unless the block is in the transaction already.
LogWrite(u) ==
    LET i == mine[u]
    IN  /\ ~panicked
        /\ pc[u] = "dirty"
        /\ Cardinality(pinned \union {i}) <= MaxPins
        /\ pinned' = pinned \union {i}
        /\ refcnt' = IF i \in pinned THEN refcnt ELSE [refcnt EXCEPT ![i] = @ + 1]
        /\ Goto(u, "have")
        /\ UNCHANGED <<lru, blockno, valid, owner, data, disk, panicked, want,
                       mine>>

\* install_trans(): bwrite() of a pinned block that it has copied from the
\* log, then bunpin(), with the log block's buffer still held.
InstallWrite(u) ==
    /\ ~panicked
    /\ pc[u] = "copied"
    /\ mine[u] \in pinned
    /\ disk' = [disk EXCEPT ![blockno[mine[u]]] = data[mine[u]]]
    /\ Goto(u, "unpin")
    /\ UNCHANGED <<lru, blockno, valid, refcnt, owner, data, pinned, panicked,
                   want, mine>>

Unpinned_Kept(i) == refcnt
Unpinned(i) == [refcnt EXCEPT ![i] = @ - 1]

Bunpin(u) ==
    /\ ~panicked
    /\ pc[u] = "unpin"
    /\ pinned' = pinned \ {mine[u]}
    /\ refcnt' = Unpinned(mine[u])
    /\ Goto(u, "have")
    /\ UNCHANGED <<lru, blockno, valid, owner, data, disk, panicked, want, mine>>
-----------------------------------------------------------------------------
(* brelse(): releasesleep(), then the section of bcache.lock.              *)

Unlock(u) ==
    /\ ~panicked
    /\ pc[u] = "have" /\ AtRest(u)
    /\ owner' = [owner EXCEPT ![mine[u]] = None]
    /\ Goto(u, "put")
    /\ UNCHANGED <<lru, blockno, valid, refcnt, data, disk, pinned, panicked,
                   want, mine>>

\* The list with buffer i moved to its front.
ToFront(i) ==
    LET at == CHOOSE n \in Buf : lru[n] = i
    IN  [n \in Buf |-> IF n = 1 THEN i ELSE IF n <= at THEN lru[n - 1] ELSE lru[n]]

Put(u) ==
    LET i == mine[u]
    IN  /\ ~panicked
        /\ pc[u] = "put"
        /\ refcnt' = [refcnt EXCEPT ![i] = @ - 1]
        /\ lru' = IF refcnt[i] = 1 THEN ToFront(i) ELSE lru
        /\ want' = [want EXCEPT ![u] = NoBlock]
        /\ mine' = [mine EXCEPT ![u] = 0]
        /\ Goto(u, "idle")
        /\ UNCHANGED <<blockno, valid, owner, data, disk, pinned, panicked>>
-----------------------------------------------------------------------------
Next ==
    \E u \in User :
        \/ \E k \in BlockNo : BgetHit(u, k) \/ BgetMiss(u, k) \/ BgetPanic(u, k)
        \/ Lock(u)
        \/ Fill(u)
        \/ \E d \in Data : Modify(u, d)
        \/ Copy(u)
        \/ Bwrite(u)
        \/ LogWrite(u)
        \/ InstallWrite(u)
        \/ Bunpin(u)
        \/ Unlock(u)
        \/ Put(u)

Spec == Init /\ [][Next]_vars
-----------------------------------------------------------------------------
(* Properties.                                                             *)

\* Two buffers never carry the same block, although bget() gives up
\* bcache.lock between choosing a buffer and locking it.
OneBufferPerBlock ==
    \A i, j \in Buf : blockno[i] = blockno[j] /\ blockno[i] # NoBlock => i = j

\* b->refcnt counts exactly the bread() calls that hold, wait for or are about
\* to give back the buffer, and the log's pin: no reference is leaked, so
\* every buffer becomes recyclable again, and none is dropped early.
RefcntExact ==
    \A i \in Buf :
        refcnt[i] = Cardinality({u \in User : mine[u] = i})
                      + IF i \in pinned THEN 1 ELSE 0

\* bget() panics only when the buffers that processes have asked for and not
\* yet given back, two for one in bmap(), itrunc() or the log's copying, and
\* the log's pins really fill the pool, whatever was recycled, absorbed or
\* unpinned before.
InUse == {u \in User : mine[u] # 0}
PanicOnlyWhenFull ==
    panicked => NBUF <= Cardinality(InUse) + Cardinality(pinned)

\* A process that waits for a buffer's sleep lock while it holds another never
\* closes a circle: some process of any set waits for none of the set, or not
\* at all.
WaitsFor(p, q) ==
    \E u, v \in User :
        /\ Process[u] = p /\ pc[u] = "lock"
        /\ Process[v] = q /\ owner[mine[u]] = v
NoCircularWait ==
    \A S \in (SUBSET Proc) \ {{}} : \E p \in S : \A q \in S : ~WaitsFor(p, q)

HolderPC == {"have", "dirty", "copied", "unpin"}

BS == INSTANCE BlockStore WITH
    Proc <- User,
    val <- [k \in BlockNo |->
              IF \E i \in Buf : blockno[i] = k /\ valid[i]
                THEN data[CHOOSE i \in Buf : blockno[i] = k /\ valid[i]]
                ELSE disk[k]],
    holder <- [k \in BlockNo |->
                 IF \E u \in User : pc[u] \in HolderPC /\ want[u] = k
                   THEN CHOOSE u \in User : pc[u] \in HolderPC /\ want[u] = k
                   ELSE None]

\* The cache implements one exclusively held variable per block: bread()
\* returns the block that was asked for with the contents last given to it,
\* through any recycling of buffers, and to one process at a time.
CoherentBlocks == BS!BSSpec
=============================================================================
