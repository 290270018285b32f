-------------------------------- MODULE Pipe --------------------------------
(***************************************************************************)
(* One pipe of the riscv64 port: forks/riscv64/kernel/pipe.c, with the     *)
(* reference counts of fileclose() (file.c) that decide when an end closes.*)
(*                                                                         *)
(* A step is one turn of a loop of pipewrite() or piperead(); `lock' keeps *)
(* pi->lock from one turn to the next.  kill() takes no pipe lock, so it   *)
(* may come between a killed() test and what follows it.  sleep_prepare()  *)
(* runs under pi->lock, so a process is on its channel when it releases    *)
(* the lock (module Sched has what follows).                               *)
(***************************************************************************)
EXTENDS Integers, Sequences, FiniteSets

CONSTANTS
    Proc,       \* processes that may use the pipe
    Readers,    \* those that have a descriptor of its read end at first
    Writers,    \* those that have one of its write end
    Killable,   \* those that may be killed
    Byte,
    PIPESIZE,
    CTRMOD,     \* nread and nwrite are modulo this: 2^32 in the code
    MaxN,       \* bound: the largest n of a call
    None, Eof

ASSUME PipeAssumption ==
    /\ PIPESIZE \in Nat \ {0}
    /\ CTRMOD \in Nat /\ CTRMOD > PIPESIZE /\ CTRMOD % PIPESIZE = 0
    /\ MaxN \in Nat
    /\ Readers \subseteq Proc /\ Writers \subseteq Proc
    /\ Readers # {} /\ Writers # {}
    /\ None \notin Proc

VARIABLES
    data, nread, nwrite, readopen, writeopen,   \* struct pipe
    freed,      \* kfree(pi) was called
    lock,       \* the holder of pi->lock across loop turns, or None
    rfd, wfd,   \* processes that hold the read file, the write file
    killed,     \* p->killed
    pc,         \* what each process does next
    n, i,       \* its call's n and i
    got         \* what its last read delivered

pipeVars == <<data, nread, nwrite, readopen, writeopen, freed>>
vars == <<pipeVars, lock, rfd, wfd, killed, pc, n, i, got>>

\* pipealloc() has succeeded and fork() has shared the descriptors.
Init ==
    /\ data \in [0..(PIPESIZE - 1) -> Byte]
    /\ nread = 0 /\ nwrite = 0
    /\ readopen = TRUE /\ writeopen = TRUE
    /\ freed = FALSE
    /\ lock = None
    /\ rfd = Readers /\ wfd = Writers
    /\ killed = [p \in Proc |-> FALSE]
    /\ pc = [p \in Proc |-> "idle"]
    /\ n = [p \in Proc |-> 0] /\ i = [p \in Proc |-> 0]
    /\ got = [p \in Proc |-> None]

Empty == nread = nwrite

Full_OffByOne == nwrite = (nread + PIPESIZE + 1) % CTRMOD
Full == nwrite = (nread + PIPESIZE) % CTRMOD

\* p is at label l and holds pi->lock or finds it free.
Locked(p, l) == pc[p] = l /\ lock \in {None, p}

\* p goes to label l with the lock; p gives the lock up and goes to label l.
Keep(p, l) == lock' = p /\ pc' = [pc EXCEPT ![p] = l]
Leave(p, l) == lock' = None /\ pc' = [pc EXCEPT ![p] = l]

\* The locals of a call that returns are gone.
Return(p) == n' = [n EXCEPT ![p] = 0] /\ i' = [i EXCEPT ![p] = 0]

\* wakeup(&pi->nread) wakes readers, wakeup(&pi->nwrite) wakes writers.
ReadersAwake == [q \in Proc |-> IF pc[q] = "rsleep" THEN "read" ELSE pc[q]]
WritersAwake_Missing == pc
WritersAwake == [q \in Proc |-> IF pc[q] = "wsleep" THEN "write" ELSE pc[q]]
-----------------------------------------------------------------------------
(* Calls.                                                                  *)

Call(p, l, k) ==
    /\ pc[p] = "idle"
    /\ ~killed[p]
    /\ pc' = [pc EXCEPT ![p] = l]
    /\ n' = [n EXCEPT ![p] = k]
    /\ UNCHANGED <<pipeVars, lock, rfd, wfd, killed, i, got>>

CallWrite(p, k) == p \in wfd /\ Call(p, "write", k)
CallRead(p, k)  == p \in rfd /\ Call(p, "read", k)

Kill(p) ==
    /\ ~killed[p]
    /\ killed' = [killed EXCEPT ![p] = TRUE]
    /\ pc' = [pc EXCEPT ![p] = CASE @ = "rsleep" -> "read"
                                 [] @ = "wsleep" -> "write"
                                 [] OTHER -> @]
    /\ UNCHANGED <<pipeVars, lock, rfd, wfd, n, i, got>>
-----------------------------------------------------------------------------
(* pipewrite().                                                            *)

\* The loop's first test fails: return -1.
WriteFails(p) ==
    /\ Locked(p, "write")
    /\ i[p] < n[p]
    /\ ~readopen \/ killed[p]
    /\ Leave(p, "idle")
    /\ Return(p)
    /\ UNCHANGED <<pipeVars, rfd, wfd, killed, got>>

WriteTurn(p) ==
    /\ Locked(p, "write")
    /\ i[p] < n[p]
    /\ readopen /\ ~killed[p]
    /\ Keep(p, "wbody")
    /\ UNCHANGED <<pipeVars, rfd, wfd, killed, n, i, got>>

\* The pipe is full: wake the readers and sleep.
WriteSleep(p) ==
    /\ Locked(p, "wbody")
    /\ Full
    /\ lock' = None
    /\ pc' = [ReadersAwake EXCEPT ![p] = "wsleep"]
    /\ UNCHANGED <<pipeVars, rfd, wfd, killed, n, i, got>>

\* copyin() delivers a byte, which goes into the buffer.
WriteByte(p, v) ==
    /\ Locked(p, "wbody")
    /\ ~Full
    /\ data' = [data EXCEPT ![nwrite % PIPESIZE] = v]
    /\ nwrite' = (nwrite + 1) % CTRMOD
    /\ i' = [i EXCEPT ![p] = @ + 1]
    /\ Keep(p, "write")
    /\ UNCHANGED <<nread, readopen, writeopen, freed, rfd, wfd, killed, n, got>>

DoneWrite_Silent == pc
DoneWrite == ReadersAwake

\* copyin() fails: the loop ends early.
WriteFault(p) ==
    /\ Locked(p, "wbody")
    /\ ~Full
    /\ lock' = None
    /\ pc' = [DoneWrite EXCEPT ![p] = "idle"]
    /\ Return(p)
    /\ UNCHANGED <<pipeVars, rfd, wfd, killed, got>>

WriteDone(p) ==
    /\ Locked(p, "write")
    /\ i[p] = n[p]
    /\ lock' = None
    /\ pc' = [DoneWrite EXCEPT ![p] = "idle"]
    /\ Return(p)
    /\ UNCHANGED <<pipeVars, rfd, wfd, killed, got>>
-----------------------------------------------------------------------------
(* piperead().                                                             *)

ReadKilled(p) ==
    /\ Locked(p, "read")
    /\ Empty /\ writeopen
    /\ killed[p]
    /\ Leave(p, "idle")
    /\ Return(p)
    /\ UNCHANGED <<pipeVars, rfd, wfd, killed, got>>

ReadWait(p) ==
    /\ Locked(p, "read")
    /\ Empty /\ writeopen
    /\ ~killed[p]
    /\ Keep(p, "rwait")
    /\ UNCHANGED <<pipeVars, rfd, wfd, killed, n, i, got>>

ReadSleep(p) ==
    /\ Locked(p, "rwait")
    /\ Leave(p, "rsleep")
    /\ UNCHANGED <<pipeVars, rfd, wfd, killed, n, i, got>>

ReadStart(p) ==
    /\ Locked(p, "read")
    /\ ~Empty \/ ~writeopen
    /\ Keep(p, "rcopy")
    /\ UNCHANGED <<pipeVars, rfd, wfd, killed, n, i, got>>

\* copyout() takes the byte; only then is it gone from the pipe.
ReadByte(p) ==
    /\ Locked(p, "rcopy")
    /\ i[p] < n[p]
    /\ ~Empty
    /\ got' = [got EXCEPT ![p] = data[nread % PIPESIZE]]
    /\ nread' = (nread + 1) % CTRMOD
    /\ i' = [i EXCEPT ![p] = @ + 1]
    /\ UNCHANGED <<data, nwrite, readopen, writeopen, freed, lock, rfd, wfd,
                   killed, pc, n>>

ReadFault(p) ==
    /\ Locked(p, "rcopy")
    /\ i[p] < n[p]
    /\ ~Empty
    /\ lock' = None
    /\ pc' = [WritersAwake EXCEPT ![p] = "idle"]
    /\ Return(p)
    /\ UNCHANGED <<pipeVars, rfd, wfd, killed, got>>

\* A read of some bytes that returns 0 tells its caller that the stream has
\* ended.
ReadDone(p) ==
    /\ Locked(p, "rcopy")
    /\ i[p] = n[p] \/ Empty
    /\ lock' = None
    /\ pc' = [WritersAwake EXCEPT ![p] = "idle"]
    /\ got' = [got EXCEPT ![p] = IF i[p] = 0 /\ n[p] # 0 THEN Eof ELSE @]
    /\ Return(p)
    /\ UNCHANGED <<pipeVars, rfd, wfd, killed>>
-----------------------------------------------------------------------------
(* close(), and the closes of kexit().                                     *)

\* fileclose() goes on to pipeclose() for the last reference only.
LastRef_Any(p, fd) == TRUE
LastRef(p, fd) == fd = {p}

CloseRead(p) ==
    /\ pc[p] = "idle"
    /\ p \in rfd
    /\ rfd' = rfd \ {p}
    /\ pc' = IF LastRef(p, rfd) THEN [pc EXCEPT ![p] = "rclose"] ELSE pc
    /\ UNCHANGED <<pipeVars, lock, wfd, killed, n, i, got>>

CloseWrite(p) ==
    /\ pc[p] = "idle"
    /\ p \in wfd
    /\ wfd' = wfd \ {p}
    /\ pc' = IF LastRef(p, wfd) THEN [pc EXCEPT ![p] = "wclose"] ELSE pc
    /\ UNCHANGED <<pipeVars, lock, rfd, killed, n, i, got>>

\* pipeclose(pi, 0).
PipeCloseRead(p) ==
    /\ pc[p] = "rclose"
    /\ lock = None
    /\ readopen' = FALSE
    /\ pc' = [WritersAwake EXCEPT ![p] = "idle"]
    /\ freed' = (freed \/ ~writeopen)
    /\ UNCHANGED <<data, nread, nwrite, writeopen, lock, rfd, wfd, killed, n, i,
                   got>>

WakeOnClose == ReadersAwake

\* pipeclose(pi, 1).
PipeCloseWrite(p) ==
    /\ pc[p] = "wclose"
    /\ lock = None
    /\ writeopen' = FALSE
    /\ pc' = [WakeOnClose EXCEPT ![p] = "idle"]
    /\ freed' = (freed \/ ~readopen)
    /\ UNCHANGED <<data, nread, nwrite, readopen, lock, rfd, wfd, killed, n, i,
                   got>>
-----------------------------------------------------------------------------
\* What a process does by itself inside a call.
Step(p) ==
    \/ WriteFails(p) \/ WriteTurn(p) \/ WriteSleep(p)
    \/ \E v \in Byte : WriteByte(p, v)
    \/ WriteFault(p) \/ WriteDone(p)
    \/ ReadKilled(p) \/ ReadWait(p) \/ ReadSleep(p) \/ ReadStart(p)
    \/ ReadByte(p) \/ ReadFault(p) \/ ReadDone(p)
    \/ PipeCloseRead(p) \/ PipeCloseWrite(p)

Next ==
    \E p \in Proc :
        \/ \E k \in 0..MaxN : CallWrite(p, k) \/ CallRead(p, k)
        \/ Step(p)
        \/ p \in Killable /\ Kill(p)
        \/ CloseRead(p)
        \/ CloseWrite(p)

Spec == Init /\ [][Next]_vars
-----------------------------------------------------------------------------
(* Properties.                                                             *)

Count == (nwrite - nread) % CTRMOD

Stream == INSTANCE ByteStream WITH
    Capacity <- PIPESIZE,
    queue <- [k \in 1..Count |-> data[(nread + k - 1) % PIPESIZE]],
    ropen <- readopen,
    wopen <- writeopen

\* The ring buffer and its two wrapping counters implement a bounded byte
\* queue for any number of readers and writers: nothing lost, repeated or
\* reordered, a failed copyout() loses nothing, and a read returns 0 only at
\* the end of the stream.
StreamIntact == Stream!BSSpec

\* kfree(pi) comes after the last use: nobody is in the pipe, or on the way
\* into pipeclose(), once its page is free.
FreedIsUnused ==
    freed => /\ \A p \in Proc : pc[p] = "idle"
             /\ rfd = {} /\ wfd = {}

\* A reader sleeps only while the pipe is empty and can still be written: the
\* loop condition of piperead(), "pipe-empty", is true of every sleeper.
SleepersWaitForData ==
    lock = None => \A p \in Proc : pc[p] = "rsleep" => Empty /\ writeopen

\* As long as no writer has been killed, no reader sleeps through bytes in the
\* pipe or the close of its write end, however many readers and writers
\* compete and whichever copies fail.
NoLostData == (\A p \in Writers : ~killed[p]) => SleepersWaitForData

\* A writer sleeps only while the pipe is full and can still be read: no
\* writer sleeps through room made for it or the close of the read end.
NoLostRoom ==
    lock = None => \A p \in Proc : pc[p] = "wsleep" => Full /\ readopen
=============================================================================
