----------------------------- MODULE VirtioDisk -----------------------------
(***************************************************************************)
(* The virtio disk driver of the riscv64 port,                             *)
(* kernel/devices/storage/riscv64/virtio_disk.c: processes share a set of  *)
(* NUM descriptors, hand chains of three of them to the device through the *)
(* available ring, and sleep until the interrupt handler finds their chain *)
(* in the used ring.                                                       *)
(*                                                                         *)
(* A section of vdisk_lock is one action, except in virtio_disk_intr(),    *)
(* where the device runs between the acknowledgement and each look at the  *)
(* used ring.  sleep_prepare() runs under vdisk_lock, so a process is on   *)
(* its channel from the end of its section (module Sched has what follows).*)
(* The device fetches chains in order, serves them in any order, and       *)
(* raises its interrupt some time after it has filled the used ring.       *)
(***************************************************************************)
EXTENDS Integers, FiniteSets, Sequences, Functions

CONSTANTS
    Proc,       \* processes that do disk I/O
    Buf,        \* their buffers, each for one block
    NUM,        \* descriptors, and entries of a ring
    IDXMOD,     \* the rings' indexes are modulo this: 2^16 in the code
    None

ASSUME VirtioAssumption ==
    /\ NUM \in Nat /\ NUM >= 3
    /\ IDXMOD \in Nat /\ IDXMOD > 0 /\ IDXMOD % NUM = 0
    /\ None \notin Proc \union Buf

Desc == 0..(NUM - 1)

VARIABLES
    free,       \* disk.free: the free descriptors
    desc,       \* disk.desc: what each points to, and the next of its chain
    ops,        \* disk.ops[i].type: does the request write the disk?
    infob,      \* disk.info[i].b
    status,     \* disk.info[i].status: "ok" is 0, "unset" is 0xff
    bdisk,      \* b->disk = 1
    avail,      \* disk.avail: ring and idx
    used,       \* disk.used: ring and idx
    used_idx,   \* disk.used_idx
    panicked,   \* a panic() of the driver was reached
    handling,   \* virtio_disk_intr() holds vdisk_lock
    pc, buf, head,   \* of each process: control, its b, its idx[0]
    seen,       \* device: how far it has looked in avail
    fetched,    \* device: chains it is working on
    notify,     \* device: about to raise an interrupt
    isr,        \* device: interrupt status
    moved       \* history: what the device has done in each buffer's request

drvVars == <<free, desc, ops, infob, status, bdisk, avail, used_idx, panicked,
             handling, pc, buf, head>>
devVars == <<used, seen, fetched, moved, notify, isr>>
vars == <<drvVars, devVars>>

NoDesc == [addr |-> None, next |-> 0, more |-> FALSE]
EmptyRing == [ring |-> [i \in Desc |-> 0], idx |-> 0]

Init ==
    /\ free = Desc
    /\ desc = [i \in Desc |-> NoDesc]
    /\ ops = [i \in Desc |-> FALSE]
    /\ infob = [i \in Desc |-> None]
    /\ status = [i \in Desc |-> "ok"]
    /\ bdisk = [b \in Buf |-> FALSE]
    /\ avail = EmptyRing
    /\ used = EmptyRing
    /\ used_idx = 0
    /\ panicked = FALSE
    /\ handling = FALSE
    /\ pc = [p \in Proc |-> "idle"]
    /\ buf = [p \in Proc |-> None]
    /\ head = [p \in Proc |-> 0]
    /\ moved = [b \in Buf |-> "no"]
    /\ seen = 0
    /\ fetched = {}
    /\ notify = FALSE
    /\ isr = FALSE

Push(r, i) == [ring |-> [r.ring EXCEPT ![r.idx % NUM] = i],
               idx  |-> (r.idx + 1) % IDXMOD]

\* The reader at index i has passed an entry.  The entry stays in memory, but
\* the model does not tell apart what such entries hold.
Passed(r, i) == [r EXCEPT !.ring[i % NUM] = 0]

\* A process may take a section of vdisk_lock.
Enter(p, l) == ~panicked /\ ~handling /\ pc[p] = l
-----------------------------------------------------------------------------
(* virtio_disk_rw().                                                       *)

\* A process that holds b->lock asks for a transfer.
Call(p, b, w) ==
    /\ ~panicked
    /\ pc[p] = "idle"
    /\ \A q \in Proc : buf[q] # b
    /\ pc' = [pc EXCEPT ![p] = IF w THEN "write" ELSE "read"]
    /\ buf' = [buf EXCEPT ![p] = b]
    /\ UNCHANGED <<free, desc, ops, infob, status, bdisk, avail, used_idx,
                   panicked, handling, head, devVars>>

\* wakeup(&disk.free[0]).
Retry == [nodesc_read |-> "read", nodesc_write |-> "write"]
WakeAllocators_Missing == pc
WakeAllocators ==
    [p \in Proc |-> IF pc[p] \in DOMAIN Retry THEN Retry[pc[p]] ELSE pc[p]]

\* The free descriptors after alloc3_desc() has failed.
GivenBack_Leaked == {}
GivenBack == free

\* alloc3_desc() fails, giving back what it got, and p goes to sleep.
AllocFails(p) ==
    /\ \E l \in {"read", "write"} :
          /\ Enter(p, l)
          /\ Cardinality(free) < 3
          /\ pc' = [(IF free = {} THEN pc ELSE WakeAllocators)
                      EXCEPT ![p] = IF l = "read" THEN "nodesc_read"
                                                  ELSE "nodesc_write"]
    /\ free' = GivenBack
    /\ UNCHANGED <<desc, ops, infob, status, bdisk, avail, used_idx,
                   panicked, handling, buf, head, devVars>>

Lowest(S) == CHOOSE i \in S : \A j \in S : i <= j

\* alloc3_desc() succeeds: fill the chain, hand it over, sleep on b.
Submit(p) ==
    LET w == pc[p] = "write"
        i0 == Lowest(free)
        i1 == Lowest(free \ {i0})
        i2 == Lowest(free \ {i0, i1})
    IN  /\ Enter(p, "read") \/ Enter(p, "write")
        /\ Cardinality(free) >= 3
        /\ free' = free \ {i0, i1, i2}
        /\ ops' = [ops EXCEPT ![i0] = w]
        /\ desc' = [desc EXCEPT
                      ![i0] = [addr |-> i0, next |-> i1, more |-> TRUE],
                      ![i1] = [addr |-> buf[p], next |-> i2, more |-> TRUE],
                      ![i2] = [addr |-> i0, next |-> 0, more |-> FALSE]]
        /\ status' = [status EXCEPT ![i0] = "unset"]
        /\ infob' = [infob EXCEPT ![i0] = buf[p]]
        /\ bdisk' = [bdisk EXCEPT ![buf[p]] = TRUE]
        /\ avail' = Push(avail, i0)
        /\ head' = [head EXCEPT ![p] = i0]
        /\ pc' = [pc EXCEPT ![p] = "asleep"]
        /\ UNCHANGED <<used_idx, panicked, handling, buf, devVars>>

\* The chain that starts at descriptor i, as free_chain() walks it.
Chain(i) ==
    LET j == desc[i].next
    IN  {i} \union (IF desc[i].more THEN {j} ELSE {})
            \union (IF desc[i].more /\ desc[j].more THEN {desc[j].next} ELSE {})

\* The loop "while (b->disk == 1)" ends.
DiskDone_Unchecked(p) == TRUE
DiskDone(p) == ~bdisk[buf[p]]

\* Woken without an interrupt for b: sleep again.
SleepAgain(p) ==
    /\ Enter(p, "awake")
    /\ ~DiskDone(p)
    /\ pc' = [pc EXCEPT ![p] = "asleep"]
    /\ UNCHANGED <<free, desc, ops, infob, status, bdisk, avail, used_idx,
                   panicked, handling, buf, head, devVars>>

\* free_chain(idx[0]) and return; free_desc() panics on a free descriptor.
Finish(p) ==
    LET c == Chain(head[p])
    IN  /\ Enter(p, "awake")
        /\ DiskDone(p)
        /\ infob' = [infob EXCEPT ![head[p]] = None]
        /\ panicked' = (c \cap free # {})
        /\ free' = free \union c
        /\ desc' = [i \in Desc |-> IF i \in c THEN NoDesc ELSE desc[i]]
        /\ pc' = [WakeAllocators EXCEPT ![p] = "idle"]
        /\ buf' = [buf EXCEPT ![p] = None]
        /\ head' = [head EXCEPT ![p] = 0]
        /\ moved' = [moved EXCEPT ![buf[p]] = "no"]
        /\ UNCHANGED <<ops, status, bdisk, avail, used_idx, handling, used,
                       seen, fetched, notify, isr>>

\* kkill() wakes a sleeping process, whatever it sleeps on.
Kill(p) ==
    /\ pc[p] \in DOMAIN Retry \union {"asleep"}
    /\ pc' = [pc EXCEPT ![p] = IF @ = "asleep" THEN "awake" ELSE Retry[@]]
    /\ UNCHANGED <<free, desc, ops, infob, status, bdisk, avail, used_idx,
                   panicked, handling, buf, head, devVars>>
-----------------------------------------------------------------------------
(* virtio_disk_intr().                                                     *)

IntrAck ==
    /\ ~panicked
    /\ isr
    /\ ~handling
    /\ handling' = TRUE
    /\ isr' = FALSE
    /\ UNCHANGED <<free, desc, ops, infob, status, bdisk, avail, used_idx,
                   panicked, pc, buf, head, used, seen, fetched,
                   moved, notify>>

\* The used-ring entry that the handler looks at.
Completed_First == used.ring[0]
Completed == used.ring[used_idx % NUM]

\* disk.used_idx += 1.
Advance_All == used.idx
Advance == (used_idx + 1) % IDXMOD

\* One turn of the loop: mark the buffer done and wake its process.
IntrEntry ==
    LET b == infob[Completed]
    IN  /\ ~panicked
        /\ handling
        /\ used_idx # used.idx
        /\ IF status[Completed] # "ok" \/ b = None
             THEN /\ panicked' = TRUE
                  /\ UNCHANGED <<bdisk, pc, used_idx, used>>
             ELSE /\ bdisk' = [bdisk EXCEPT ![b] = FALSE]
                  /\ pc' = [p \in Proc |-> IF pc[p] = "asleep" /\ buf[p] = b
                                             THEN "awake" ELSE pc[p]]
                  /\ used_idx' = Advance
                  /\ used' = Passed(used, used_idx)
                  /\ UNCHANGED panicked
        /\ UNCHANGED <<free, desc, ops, infob, status, avail, handling, buf,
                       head, seen, fetched, moved, notify, isr>>

\* The loop's condition: the handler has seen the whole used ring.
IntrDone ==
    /\ ~panicked
    /\ handling
    /\ used_idx = used.idx
    /\ handling' = FALSE
    /\ UNCHANGED <<free, desc, ops, infob, status, bdisk, avail, used_idx,
                   panicked, pc, buf, head, devVars>>
-----------------------------------------------------------------------------
(* The device (QEMU's virtio-blk), as the driver relies on it.             *)

DeviceFetch ==
    /\ seen # avail.idx
    /\ fetched' = fetched \union {avail.ring[seen % NUM]}
    /\ seen' = (seen + 1) % IDXMOD
    /\ avail' = Passed(avail, seen)
    /\ UNCHANGED <<free, desc, ops, infob, status, bdisk, used_idx, panicked,
                   handling, pc, buf, head, used, moved, notify, isr>>

\* Follow chain h through memory: transfer, write the status byte, and only
\* then add h to the used ring.  The driver looks at neither data nor status
\* before it has seen the entry.
DeviceServe(h) ==
    LET data == desc[desc[h].next]
        b == data.addr
    IN  /\ h \in fetched
        /\ moved' = [moved EXCEPT ![b] = IF ops[desc[h].addr] THEN "out" ELSE "in"]
        /\ status' = [status EXCEPT ![desc[data.next].addr] = "ok"]
        /\ fetched' = fetched \ {h}
        /\ used' = Push(used, h)
        /\ notify' = TRUE
        /\ UNCHANGED <<free, desc, ops, infob, bdisk, avail, used_idx,
                       panicked, handling, pc, buf, head, seen, isr>>

DeviceInterrupt ==
    /\ notify
    /\ isr' = TRUE
    /\ notify' = FALSE
    /\ UNCHANGED <<drvVars, used, seen, fetched, moved>>
-----------------------------------------------------------------------------
Driver(p) == Submit(p) \/ SleepAgain(p) \/ Finish(p)

Handler == IntrAck \/ IntrEntry \/ IntrDone

Device ==
    \/ DeviceFetch
    \/ \E h \in Desc : DeviceServe(h)
    \/ DeviceInterrupt

Next ==
    \/ \E p \in Proc :
          \/ \E b \in Buf, w \in BOOLEAN : Call(p, b, w)
          \/ AllocFails(p)
          \/ Driver(p)
          \/ Kill(p)
    \/ Handler
    \/ Device

Spec == Init /\ [][Next]_vars
-----------------------------------------------------------------------------
(* Properties.                                                             *)

\* Descriptors are conserved: the free ones and the chains of the processes
\* between Submit and Finish partition the table, so a request never shares
\* a descriptor and none leaks.
InFlight == {p \in Proc : pc[p] \in {"asleep", "awake"}}
DescriptorsPartitioned ==
    /\ \A p \in InFlight : Cardinality(Chain(head[p])) = 3
    /\ \A p \in InFlight : Chain(head[p]) \cap free = {}
    /\ \A p, q \in InFlight : p # q => Chain(head[p]) \cap Chain(head[q]) = {}
    /\ Cardinality(free) + 3 * Cardinality(InFlight) = NUM

\* The panics for a wrong status byte and for a double free are not reached,
\* nor does the handler follow a cleared disk.info[id].b, in whatever order
\* the device completes and however the interrupts are merged.
NoPanic == ~panicked

\* A process sleeps for descriptors only while there are too few: every
\* release of a chain wakes the sleepers.
SleepersAreShort ==
    (\E p \in Proc : pc[p] \in DOMAIN Retry) => Cardinality(free) < 3

DS == INSTANCE DiskService WITH
    req <- [p \in Proc |->
              [b |-> buf[p],
               write |-> IF p \in InFlight THEN ops[head[p]]
                         ELSE pc[p] \in {"write", "nodesc_write"}]]

\* virtio_disk_rw() returns only after the device has transferred its own
\* buffer, once, in the direction asked for.
TransfersOnce == DS!DSSpec

\* What the reader at index i of ring r has yet to see.
Unseen(r, i) == [k \in 1..((r.idx - i) % IDXMOD) |-> r.ring[(i + k - 1) % NUM]]

Waiting == {p \in InFlight : bdisk[buf[p]]}

\* No completion is missed: the request of a process that waits is in exactly
\* one stage of the device or of the used ring, and a used ring with entries
\* that the handler has not seen has its attention or an interrupt on its
\* way.  Nobody sleeps on a buffer that the disk is done with.
CompletionsComing ==
    LET toFetch == Unseen(avail, seen)
        toHandle == Unseen(used, used_idx)
    IN  /\ \A p \in Waiting :
              head[p] \in Range(toFetch) \union fetched \union Range(toHandle)
        /\ Len(toFetch) + Cardinality(fetched) + Len(toHandle)
              = Cardinality(Waiting)
        /\ toHandle # <<>> => handling \/ isr \/ notify
        /\ \A p \in Proc : pc[p] = "asleep" => p \in Waiting
=============================================================================
