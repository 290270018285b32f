# TLA+ specifications of the xv6-multiarch kernel

The repository unifies fourteen ports of xv6. Most of the logic that is hard to
get right is in the parts that several processes, harts and devices share: the
write-ahead log, the buffer cache, the disk driver, the scheduler with
sleep/wakeup, the process table, pipes, inodes with the system calls on them, and
the console. These modules model those parts from the files that the modern ports
share (`kernel/...`) and, where a part is still per port, from the riscv64 port
(`forks/riscv64/kernel/...`). TLC checks them on
small instances; TLAPS proves most of the safety properties, and all five
refinements, for all sizes.

`PROJECT.json` maps every definition to the lines it models, lists the hazards in
the code with the properties aimed at them, and names a mutated definition for
each property that makes it fail.

    tlc -workers 2 -config log_atomic.cfg MCLog     # one run
    tlapm LogProofs.tla                             # one module of proofs

## 1. The system

| part | state | operations | what is hard |
|---|---|---|---|
| write-ahead log (`kernel/filesystems/log.c`) | on-disk header and body, `log.lh`, `outstanding`, `committing`, `ncommit` | `begin_op`, `log_write`, `end_op`, `commit`, recovery, `sys_sync` | group commit of concurrent calls, a crash between any two writes, space reservation, one wait channel for two kinds of sleepers |
| buffer cache (`kernel/devices/storage/bio.c`) | LRU list, `blockno`, `valid`, `refcnt`, sleep lock and data per buffer | `bget`, `bread`, `bwrite`, `brelse`, `bpin`, `bunpin` | a buffer chosen under one lock and locked under another, recycling, running out |
| virtio disk (`kernel/devices/storage/riscv64/virtio_disk.c`) | descriptor table, two rings, `info[]`, `b->disk` | `virtio_disk_rw`, `virtio_disk_intr`, the device | out-of-order completion, interrupt acknowledgement racing the used ring, descriptor exhaustion, index wrap |
| scheduler (`proc.c`) | `p->state`, `p->chan`, `p->lock`, the process on each hart | `scheduler`, `sched`, `yield`, `sleep_prepare`, `sleep`, `wakeup` | a lock taken by one thread and released by another through `swtch`, lost wakeups |
| process table (`proc.c`, `trap.c`) | `p->parent`, `p->killed`, `wait_lock` | `kfork`, `kexit`, `reparent`, `kwait`, `kkill`, `usertrap` | exit against wait against reparent against kill; freeing a stack in use |
| pipes (`pipe.c`, `file.c`) | ring buffer, `nread`, `nwrite`, open flags, file references | `pipewrite`, `piperead`, `pipeclose`, `fileclose` | several readers and writers, kills and failing copies half way, the last close |
| inodes and directories (`fs.c`) | `itable`, bitmap, inode blocks | `iget`, `ilock`, `iput`, `ialloc`, `balloc`, `writei`, `dirlink`, `namex`, `ireclaim` | the last reference of an unlinked inode, orphans after a crash, lock order |
| file table, system calls (`file.c`, `sysfile.c`) | `ftable`, `p->ofile`, `p->cwd` | `open`, `mkdir`, `mknod`, `link`, `unlink`, `chdir`, `write`, `dup`, `close`, and the file parts of `fork`, `exec`, `exit` | partial failure of multi-step calls, a parent unlinked between lookup and lock |
| console, uart (`console.c`, `uart.c`) | `cons.buf`, `r`, `w`, `e`, `tx_lock`, the uart's FIFOs | `consoleread`, `consolewrite`, `consoleintr`, `uartwrite`, `uartputc_sync`, `uartintr` | editing against reading, echoes that take no lock, a transmit interrupt that comes once |
| memory (`kalloc.c`, `buddy.c`, `vm.c`, `exec.c`) | free lists, page tables | `kalloc`, `kfree`, `uvmcopy`, `kexec` | failure paths; otherwise sequential |

A system call on files takes a share of the log (`begin_op`), reads and changes
blocks through the buffer cache, hands them to the log (`log_write`, which pins
the buffer) and gives its share back; the last one to do so commits. The buffer
cache calls the disk driver with the buffer's sleep lock held; the driver, the
log, sleep locks, pipes and `kwait` all block through `sleep_prepare`/`sleep` and
are released through `wakeup` (or roused by `kkill`).

The models meet at these interfaces. `Log` has the buffer cache as contents plus
pin counts, with eviction of any unpinned buffer at any moment; `Bcache` has the
log as a client that pins, writes home and unpins, and the disk as an atomic
transfer; `VirtioDisk` shows that a transfer through the driver is what `Bcache`
assumes (`DiskService`). `FileSys` has the log as what `AtomicDisk` promises and
`Log` implements: what a group of calls changed becomes durable at once, when the
last of them ends. `Log`, `VirtioDisk`, `Console` and `Pipe` treat "on the channel when
the caller's lock is released" as one step; `Sched` has that hand-over in detail,
and `ProcTable` checks that no wakeup gets lost in it.

## 2. Modules

| module | models | checked by |
|---|---|---|
| `AtomicDisk` | abstract: a memory of blocks whose updates become durable in groups of whole calls | |
| `Log` | `log.c` | `MCLog`, `LogProofs` |
| `BlockStore` | abstract: one exclusively held variable per block | |
| `Bcache` | `bio.c`, `sleeplock.c` | `MCBcache`, `BcacheProofs` |
| `DiskService` | abstract: each request is transferred once and then returns | |
| `VirtioDisk` | `virtio_disk.c` and the device | `MCVirtioDisk`, `VirtioDiskProofs` |
| `Sched` | context switch, sleep, wakeup, kill of one slot | through `ProcTable` |
| `ProcTable` | process life cycle on top of `Sched` | `MCProcTable`, `ProcTableProofs` |
| `ByteStream` | abstract: a bounded byte queue with two ends | |
| `Pipe` | `pipe.c`, reference counts of `file.c` | `MCPipe`, `PipeProofs` |
| `Inode` | `fs.c`: operations on the inode table and the disk | through `FileSys` |
| `FileSys` | `sysfile.c`, `file.c`, `namex`, `iput`, `ireclaim` as steps of processes | `MCFileSys`, `FileSysProofs` |
| `LineDiscipline` | abstract: a line that can be edited, then read | |
| `Console` | `console.c`, `uart.c` and the uart | `MCConsole`, `ConsoleProofs` |
| `RingTheorems` | lemmas: a ring buffer with counters that wrap | used by `PipeProofs`, `VirtioDiskProofs`, `ConsoleProofs` |

### Log

Each section of `log.lock` is an action, and so is each disk write. State:
`disk`, `logblk`, `dhead` survive `Crash`; the rest is volatile. `Modify` is a
process's `bread` and change of a buffer it keeps locked; `LogWrite` is
`log_write` with its two full-log tests, absorption and `bpin`, then `brelse`.
`Commit`, `WriteLog`, `WriteHead`, `Install`, `Erase`, `Finish` are `commit()` and
the end of `end_op()`. After a crash `ReadHead`, `RecoverInstall`, `RecoverErase`
run, and may be interrupted by another crash. `Evict` and `Load` recycle buffers.
`Panic` stops the machine as `panic()` does, after which only `Crash` follows.
`calls` counts the calls made since the machine was switched on, for `MaxCalls`.
`pending` and `owed` are history variables for `SyncDurable`.

### Bcache

`BgetHit`, `BgetMiss` and `BgetPanic` are the three ways through `bget()`'s
section of `bcache.lock`; `Lock` is `acquiresleep()`; `Fill` the `virtio_disk_rw`
of `bread()`; `Unlock` and `Put` the two halves of `brelse()`. The list is a
function from position to buffer. `Modify` stands for any caller that changes a
buffer, with `iupdate()` as the mapped example.

A process may hold a buffer while it asks for, waits for, uses and gives back
another: `bmap()` keeps the indirect block across `balloc()`, `itrunc()` across
`bfree()`, `write_log()` and `install_trans()` have a log block and a home block.
None of them nests deeper. So a process is several *users* of the cache (`User`,
`Process`), two in the instance, of which one at a time is in a call (`MayAsk`,
`AtRest`). `Copy` is the `memmove()` between the two buffers, followed by `Bwrite`
for `write_log()` and by `InstallWrite` and `Bunpin` for `install_trans()`. What a
process asks for while it holds a buffer is lower in the order of the callers, log
blocks (2), indirect blocks (1), all others (0), which `Rank` gives for each block: the log is a region
of its own, and an indirect block becomes a data block only after it has been freed, when no
call that would take it for an indirect block is under way. Nothing says that the home block
of an installation is not an indirect one, so `Rank` orders these too.

### VirtioDisk

A section of `vdisk_lock` is an action, except in `virtio_disk_intr()`: the device
runs between the acknowledgement (`IntrAck`) and each look at the used ring
(`IntrEntry`, `IntrDone`), and `handling` keeps processes out meanwhile. `Submit`
is the way from a successful `alloc3_desc()` to the sleep on `b`, `AllocFails` the
failing one with the wakeups its `free_desc()` calls make, `Finish` the way out.
The device fetches in order, serves in any order, follows the descriptors through
memory (so a chain freed or overwritten under it changes what it transfers), and
raises its interrupt some time after filling the ring. Serving a chain and adding it
to the used ring are one step: the driver looks at neither data nor status before
it has seen the entry. Contents are left out: the history `moved` records for each
buffer which way it was transferred for its current request. A ring entry that its reader
has passed is forgotten (`Passed`), which keeps the state space small and hides
nothing from a correct reader; the mutant that reads an old entry sees chain 0.

### Sched and ProcTable

`locked` is the set of slots whose `p->lock` is held across `swtch()`; every other
section of `p->lock` is one action that needs the lock free. `Schedule`, `Resume`,
`SwitchAway`, `SwitchOut` are the four sides of two context switches. `wakeup()`
goes slot by slot (`WakeupSlot`), so anything may happen between two slots.
`ProcTable` adds the code of the processes as labels of `pc`, `wait_lock` as
`wlock`, and lets a process be preempted between any two steps (a kernel without
kernel preemption only takes fewer of these steps). `Trap` is `usertrap()` up to its
`killed()` test and `Call` the `syscall()` after it, so a call may run in a process killed in between. `kfork` is three sections
(`Fork`, `ForkParent`, `ForkRun`) plus its two failures. `Fork` may take any
`UNUSED` slot where `allocproc()` takes the first: the scan passes slots one lock
at a time, so a concurrent free makes others possible too. Pids are lives of
slots: `kill` of slot `q` is a kill of the pid that lives there, 0 the pid that
unused slots carry.

### Pipe

One action per turn of a loop; `lock` is `pi->lock` kept from turn to turn. A kill
takes no pipe lock and may fall between any `killed()` test and what follows. Both
user copies may fail at any byte. `CloseRead`/`CloseWrite` are `fileclose()`'s
section of `ftable.lock`, `PipeCloseRead`/`PipeCloseWrite` the `pipeclose()` that
the last reference leads to.

### Inode and FileSys

`Inode` has no variables. Its operators are the functions of `fs.c`, each from one
`w = [t, d, bad]` (inode table, disk, panicked) to the next; an inode on disk is its
type, its link count and the set of its blocks, a directory a function from names to
numbers. `FileSys` strings them together. A step is what happens between taking and
releasing the sleep lock of one inode; where a call keeps a lock while it takes a
second one (`create` of a new inode, `unlink`) or calls `iput()`, the lock stays in `t`
and the call continues in another step. `iput()` is up to three steps, `IputTruncate`,
`IputUnref` and `IputFree`, since the slot is free for others before the inode number
is. `namex()` takes one step per path element.

`loc[p]` has the process's label and its pointers into the inode table, so that
`RefsExact` can compare `ip->ref` with the pointers that exist. `ialloc()` may return
any free inode: it looks at one inode block at a time, and inodes that it has passed
may be freed meanwhile. `mem` is the disk through the buffer cache and the log,
`durable` what a crash leaves; `Crash` may come before every step, and `Reclaim` then
runs `ireclaim()`, which another crash may interrupt. `read` and `fstat` change nothing
that the model has.

### Console

Two kinds of actors: processes in `consoleread()`/`consolewrite()` and the one
`uartintr()` that the PLIC lets run at a time; the uart drains its transmitter and
raises its interrupt by itself. Each test of LSR, each write of THR and each read of
ISR or RHR is a step, because `uartputc_sync()` and `uartwrite()` have no lock in common.
`lock` is `cons.lock`; `tx_lock` is held by the process with `left > 0`. The transmitter
is a count of characters, and the three of a BACKSPACE are one. `printk()`, which uses
`uartputc_sync()` like an echo, is left out.

## 3. Runs

| run | instance | shows |
|---|---|---|
| `log_atomic` | 2 processes, 2 blocks, 2 values, calls of 2 blocks, 3 calls between crashes, an on-disk log of 2 blocks | `CrashAtomicity` (refinement of `AtomicDisk`), `WriteAhead`, `SyncDurable`, `LogReservation`, `PinnedUntilInstalled`, `TypeOK` |
| `log_live` | 3 processes, a log for 2 calls at a time, 3 calls between crashes, fairness | `BeginOpReturns`, `SyncReturns`, `NoPanic` |
| `log_full_op` | calls of exactly `MAXOPBLOCKS` blocks | violates `NoPanic` (finding 1) |
| `bcache` | 2 processes of 2 users, 4 blocks, one of them of rank 1, 3 buffers, 1 pin | `CoherentBlocks` (refinement of `BlockStore`), `OneBufferPerBlock`, `RefcntExact`, `PanicOnlyWhenFull`, `NoCircularWait` |
| `virtio` | 3 processes on descriptors for 2, NUM 8, index modulo 16 | `TransfersOnce` (refinement of `DiskService`), `DescriptorsPartitioned`, `SleepersAreShort`, `CompletionsComing`, `NoPanic` |
| `proc_life` | 2 harts, 3 slots, kills of 2, 3 and 0, 2 calls besides init's | `OneHartPerStack`, `StateIsAccurate`, `FreedIsQuiet`, `ParentsAlive` |
| `proc_live` | 1 hart, 3 slots, 3 calls, fairness | `ExitIsReaped` |
| `proc_kill0` | 1 hart, `kill(0)` | violates `KilledByPid` (finding 2) |
| `pipe` | 3 processes (a reader, a writer, one of both), 2 bytes, PIPESIZE 2, counters modulo 4, kills | `StreamIntact` (refinement of `ByteStream`), `FreedIsUnused`, `NoLostData`, `NoLostRoom` |
| `pipe_kill` | one reader, two writers, one of them killed | violates `SleepersWaitForData` (finding 3) |
| `filesys` | 2 processes, 3 inodes, 3 blocks, 3 entries per block, 2 names, 13 calls with paths, 2 files and descriptors, crashes, 3 calls between crashes | `RefsExact`, `OneSlotPerInode`, `CopyIsCurrent`, `CrashConsistent`, `NoLostInode`, `NoLockCycle`, `NoPanic` |
| `console` | 2 processes, 2 calls of up to 2 characters, 3 keys in a buffer of 2, indexes modulo 4 from 3, one kill | `InputIsLines` (refinement of `LineDiscipline`), `NoMissedLine`, `NoLostTransmit`, `NoOverrun` |

**Bounds.** `MaxCalls`, `MaxWrites`, `MaxPins` and `MaxN` end the workload, not the
system. In `Log`, `MaxCalls` counts the calls since the machine was switched on, and
crashes are unlimited: three calls let a group commit of two be followed by a
second transaction that reuses log blocks with stale contents of the first, and a
crash in recovery come after a crash in commit; two blocks per call with a log of
four let calls interleave, absorb and wait for space. The on-disk log of `log_atomic`
is smaller than the header, which `begin_op()` does not look at, so the run also
covers panics and the restarts after them. `log_live` and `PanicFree` have the layout
of the riscv64 `mkfs` (`nlog = LOGBLOCKS + 1`). Three slots give init, a child and a
grandchild or sibling, so that a parent exits while its child exits. Fewer buffers
than blocks force recycling, and two processes with two buffers each, or with a pin, use up
the three; one block of rank 1 is what either process may hold while it asks for another, and
what the other then waits for (an indirect or a log block). NUM 8 is the code's own value; the index modulus 16
(2^16 in the code) is passed several times. `CTRMOD` 4 with PIPESIZE 2 wraps the
pipe's counters at once, at the smallest modulus that still tells full from
empty; the console's, which starts at 3, wraps at the first key. `PipeAssumption`,
`VirtioAssumption` and `ConsoleAssumption` keep what matters of the real moduli: the
ring's size divides them. In `filesys` the root directory's block is full, so that a new
name needs a block, a new directory another one, and what is left is too little for a
file that grows; inodes, links, files and descriptors run out too. Three calls let an
unlink or an exit fall between the steps of a second process's call, after a first
call that made something to unlink. The inode table is as large as the disk has inodes,
as `iget()` panics when it is full (see 4). Three keys overfill the console's buffer,
and two readers, or a reader and a writer, share it.

**Deadlock** is checked except where the system may really stop: `bcache` reaches
`bget()`'s panic; in `proc_live` the machine is idle once the workload is spent
(`wfi`); in the pipe runs all processes may have closed the pipe; in `console` nobody
types any more.

**Symmetry** is used only for safety runs, over processes, blocks, values and
harts that no definition tells apart.

**Fairness.** `Log`: weak fairness of each process's own steps and of recovery; a
runnable process is scheduled again and again, and nothing obliges it to make
calls. `ProcTable`: strong fairness for a hart choosing a given runnable process
(the scan of `scheduler()` is round robin, so a process that is runnable again and
again is reached) and for a process's kernel steps, which may find `wait_lock` or a
`p->lock` taken now and then but never for good; init keeps calling `wait()`, as
`init.c` does. Strong fairness for a lock is an assumption about the hardware's
arbitration of a test-and-set that is released again and again; the code has no
ticket. `VirtioDisk`, `Pipe` and `Console` state the absence of lost wakeups as safety
(`CompletionsComing`, `NoLostData`, `NoLostRoom`, `NoMissedLine`, `NoLostTransmit`),
`FileSys` the absence of deadlock (`NoLockCycle`), and need no fairness.

## 4. Findings

1. `log_full_op`: `log_write()` looks whether the log is full before it looks whether
   it can absorb the block, so calls that use all the `MAXOPBLOCKS` blocks reserved
   for them panic when they rewrite a block. No call of the kernel uses its whole
   share today; `PanicFree` proves that calls below it are safe.
2. `proc_kill0`: `kill(0)` marks the first unused slot as killed, and the next process
   born there dies.
3. `pipe_kill`: `pipewrite()` returns without `wakeup(&pi->nread)` when the writer is
   killed, and the bytes it has already put into the pipe are announced to nobody.

Some more observations that are no violations. `NBUF` and `LOGSIZE` are both
`MAXOPBLOCKS*3`, so `BuffersSuffice`, which wants two buffers per process beyond the
pinned ones, says nothing about a log that is full of pinned blocks; the kernel
relies on transactions being smaller than that. And processes short of descriptors
wake each other in `alloc3_desc()`'s failure path: with NUM = 8 two descriptors are
left over when two requests are in flight, and two or more waiters then spin
through sleep and wakeup until a request ends. `begin_op()` has no queue either: with
an endless stream of calls, processes whose short calls overlap can keep the log
full, and uncommitted, for one that waits for room, and so can starve a `sync()`;
that is why `log_live` bounds the calls. Last, the shared `tools/mkfs.c` writes
`nlog = LOGSIZE` with the header included, one block less than what `begin_op()`
hands out; `PanicFree` needs `NLOG > LOGSIZE`.

From the file system and the console: the inode table has `NINODE = 50` slots while
`NFILE = 100` files may be open, and a full table is a panic in `iget()` where a full
file table is an error. `consoleread()` loses the key whose `copyout` fails, where
`piperead()` keeps the byte. A kill that comes between a `killed()` test and the
`sleep()` after it is noticed only at the next wakeup. And `exit()` of the legacy ports
puts the working directory outside a transaction (`proc-legacy.c:199`); the riscv64 port
has `begin_op()` and `end_op()` around it, and that is what `FileSys` models.

## 5. Proofs

All theorems hold for every value of the constants that satisfies the named
assumption of the component's module; the conditions a theorem adds are in its
statement.

**`LogProofs`.** `TypeCorrect`, `ReservationHolds`, `PanicFree`. `LogReservation` is not
inductive: that `log.lh` may grow by one depends on who is inside a call and on
nobody committing. `IndInv` is `TypeOK` with `Control` (the committer excludes calls
and other committers, `outstanding` counts the processes in a call, ...) and `Space`
(`LogReservation`, and that each call's dirtied blocks are in the log and within
its share). Reservations are counted as a set of tokens, one per unused reserved
block, so that each action adds or removes elements and no sum over processes is
needed. `PanicFree` assumes `OpBlocks < MAXOPBLOCKS` (finding 1 is why) and that the
on-disk log is not smaller than the header.

Its second part proves `LogIsAtomic` (the refinement `CrashAtomicity`: `Log` implements
`AtomicDisk`), `LogComesFirst` (`WriteAhead`), `SyncIsDurable`, `PinsBalance`. None of them
follows from `IndInv`, which says nothing of contents. `AtomicInv` relates the four
copies of a block to the progress of `commit()` and of recovery: no block is listed twice,
and the on-disk header lists something only while `install_trans()` runs (`Headers`); what
of the log's body is a copy of what, during `write_log()` and installation (`Copies`); a
buffer differs from its home location only while a call has it locked or while it is
pinned, and then it is in the cache (`Buffers`); pins are the blocks of `log.lh` that are
not installed yet (`Pins`); and a finished call that is not durable waits for a commit to
come (`Syncs`). The refinement maps the memory to what `bread()` returns, and what is durable
to what recovery would leave on the disk, so that exactly the write of the header is the
abstract commit. Each action is shown to be an abstract step or a stutter.

**`ProcTableProofs`.** `StackExclusive`, `StateAccurate`, `FreedQuiet`. `HandOver`
strengthens them with: a thread in `swtch` holds its `p->lock` and one that does
not, does not (`LockSpansSwitch`); a thread off the harts is parked at the point
where `swtch` brings it back (`OffIsParked`); what `p->state` may be inside a switch
(`StateInSwitch`); and a `USED` slot belongs to the `kfork` that allocated it
(`ForkOwnsSlot`). Lemmas per kind of move (`LocalMove`, `StateMove`, `SwitchAwayMove`,
`AwakeMove`) keep the case analysis over the kernel's steps short.

`ChildrenKept` is `ParentsAlive`, which is stated for a free `wait_lock` and hence says
nothing of the steps in between. `LifeInv` does: `wait_lock` is held by the thread at a
label in its critical sections and never across `swtch` (`WaitLockHeld`); `reparent()` has
left an exiting process without children and nobody gives it new ones (`ReparentDone`);
`kfork`'s child has its parent from `ForkParent` on (`ForkHasChild`, `HasParent`); a parent's
state is that of a live process (`ParentLives`); and init never exits (`InitLives`), which
`kexit()` makes sure of with a panic.

**`BcacheProofs`.** `CountsExact`, `BlockHasOneBuffer`, `PanicMeansFull`, `BuffersSuffice`, `WaitsEnd`. `CacheInv`
adds to the two properties that a user past `bget()` has a buffer and the right block in
it, that a sleep lock's holder is between `Lock` and `Unlock`, and that only pinned
buffers are unpinned. `PanicMeansFull` is a counting argument: when `bget()` finds no
buffer to recycle, each buffer that is not pinned has a user of its own (`AllTaken`), and
`Exhausted` keeps this true after the panic. It counts buffers, two for a process that has two.
`BuffersSuffice` adds that the user that asked has none: while `NBUF >= Cardinality(User) +
Cardinality(pinned)`, with `User` twice the processes in the code, there is no panic.

`WaitsEnd` is `NoCircularWait` for any number of processes. `WaitInv` says that a process has
one user under way (`OneAtATime`), that what it asks for ranks below all that it holds
(`AsksBelow`), and that a sleep lock's owner is a user that has asked for the very block
(`OwnerUses`). So from one waiting process to the one it waits for, if that waits too, ranks fall
(`WaitsDown`), and there are three.

`BlocksCoherent` is the refinement `CoherentBlocks`: the value of a block is in its valid
buffer if it has one and on the disk otherwise, its holder is who has the buffer's sleep
lock past `bread()`. `StoreInv` adds to `CacheInv` that a holder's buffer is valid
(`FilledBuffers`), that a buffer differs from the disk only if it is pinned or its holder
has changed it and will write or pin it (`CleanBuffers`), and that what is unpinned has been
written (`WrittenUnpins`). So a buffer that `bget()` recycles takes nothing with it.

**`RingTheorems`.** Lemmas, for any ring whose size divides the modulus of its counters:
what is between two counters (`Window`) is a sequence; storing at one end appends, moving
the other one on is `Tail`, moving back is `Front`, two windows join, and a store outside a
window leaves it alone. Three components have such a ring, with moduli 2^32 and 2^16.

**`PipeProofs`.** `FreedLast`, `DataWakesReaders`, `RoomWakesWriters` and `PipeIsStream` (the
refinement `StreamIntact`). `PipeInv` says who may be where: a process in a call has the
file, and the one that dropped an end's last reference is the only one to close it
(`Referenced`); who has `pi->lock` between turns (`LockHeld`); and what a sleeper may count
on while the process that owes it a wakeup is still under way (`WriterWaits`,
`ReaderWaits`): `NoLostData` alone does not survive the middle of a `pipewrite()`. `RingInv`
bounds the counters' distance by `PIPESIZE`, and says that a `piperead()` which has read
nothing yet finds a byte or a closed end.

**`VirtioDiskProofs`.** `NeverPanics`, `DescriptorsKept`, `ReleaseWakesSleepers`,
`NoCompletionMissed` and `DiskServes` (the refinement `TransfersOnce`). `DriverInv` follows a
request. Its three descriptors are its own and hold what `Submit` wrote until `Finish`
(`Chains`, which counts `Cardinality(free) + 3 * Cardinality(InFlight) = NUM`); until the
handler has seen it, its head is in exactly one of the available ring, the device and the
used ring (`Apart`, `OnTheWay`), so the rings never overflow and `virtio_disk_intr()` finds
status 0; an entry not handled yet has the handler running or an interrupt to come; and
the data has been moved iff the device has served it (`Served`).

**`ConsoleProofs`.** `NoLineMissed`, `NoTransmitLost`, `TwoPlacesSuffice` and `ConsoleIsLines`
(the refinement `InputIsLines`). `ConsoleInv` ties labels to channels (`OnChannel`: a sleeper is on the channel its label says, and one on
its way to sleep is or has been woken) and to `tx_lock` (`TxLockExclusive`), and extends
`NoLostTransmit` to processes between their test of LSR and `sleep()`
(`TransmitComing`). `RoomForBoth` is the invariant behind the FIFO of two places: after
each of the two has seen the transmitter idle, there is room for what both write.
The refinement needs `InputInv`: `r`, `w` and `e` are in this order, modulo 2^32, and at most
the buffer's size apart (`Indexes`), and the line under edit has no newline (`NoNewline`), so that `^U`,
which stops at one, kills the whole of it.

**`FileSysProofs`.** `FsCorrect`, `RefsAreExact` (`RefsExact`) and `InodeHasOneSlot`
(`OneSlotPerInode`), on any disk, consistent or not: the references do not depend on what
the disk says. `RefsExact` is not inductive, since it does not know which pointers a step
will put. `FsInv` says label by label which of `dp`, `ip` and `old` are set (`Pointed`, which
looks through a pending `iput()` to where the call will go on), that a process owes at most
two `iput()`s (`Debts`), and that only one that has exited or is not born has no working
directory and no files (`Resident`). The operators of `Inode` keep all counts, or add or drop
one (`Same`, `Gains`). As a step changes only what one process or one file points to, the sum
over all pointers changes by the difference of its own (`LocalStep`, `FileStep`), so each
action is left with an equation between a few pointers before and after.
`RefsAreExact` holds unless the machine has panicked: in the step in which `iget()`, with
no slot to give, calls `panic()`, the caller's pointer is set and no reference was counted. The
`filesys` run checks `RefsExact` together with `NoPanic`, on a table that is large enough.

**Model-checked only:** liveness (`BeginOpReturns`, `SyncReturns`, `ExitIsReaped`), which is
out of the prover's reach, and the properties of `FileSys` that need a consistent disk or the
order of locks: `CopyIsCurrent`, `CrashConsistent`, `NoLostInode`, `NoLockCycle`, `NoPanic`.
They count links and blocks over the whole disk (see 7).

## 6. What is not modelled

- Contents and layout of blocks, the order of a file's blocks and its indirect block,
  file offsets and sizes, devices behind `devsw`, user memory, exit statuses, `growproc`, the fields
  of `struct proc` that no other process looks at.
- Which blocks are indirect, and that this changes as blocks are freed and used again:
  `Rank` of a block is constant in `Bcache` (see there). What a caller does between two
  buffers besides copying is left out, too.
- In `sys_open()`, the moment between `filealloc()` and the `fileclose()` that follows a
  failing `fdalloc()`: `Open` is one step once the inode is locked, so a file slot that is taken
  for nothing does not make another `open()` fail. The test of a device's major number
  (`MayOpen`): a device that fails it is a file that may not be opened.
- Weak memory: every lock is sequentially consistent; the code's fences and
  acquire/release instructions are taken to provide that.
- Hardware init, MMIO negotiation, assembly, trap vectors, page-table formats.
- A disk that fails: the driver panics on a status other than 0, and the device of
  `VirtioDisk` does not report one.
- How many blocks a call on files hands to the log: `FileSys` does not count them, so
  that `itrunc()` of a large file stays within `MAXOPBLOCKS` is not shown.
- Allocators (`kalloc.c`, `buddy.c`), page tables (`vm.c`), loading of programs: code that
  is sequential under one lock.
- The legacy files (`*-legacy.c`), the other ports' own variants, third-party USB
  stacks, user programs, `mkfs`. Most of the repository's lines are of this kind: copies of
  the modelled files in fourteen ports, and drivers from elsewhere.

## 7. Plan

1. **Proofs** about `FileSys`: the consistency of the disk, each inode's `nlink` against
   the entries that name it and the links that calls under way still owe (`CrashConsistent`,
   `NoLostInode`). `CopyIsCurrent` and `NoPanic` depend on it: on a disk where an entry names an
   inode that is being freed, `iget()` finds it, and `ifree()` changes it behind the copy.
   `NoLockCycle` needs who holds which sleep lock, and a directory locked before what is in it.
2. **`LegacyLog`**: `log-legacy.c` as a second implementation of `AtomicDisk`.
3. **`Buddy`**: splitting and merging of buddies against a partition of memory.
