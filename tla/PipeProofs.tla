----------------------------- MODULE PipeProofs -----------------------------
(***************************************************************************)
(* For any number of readers and writers, any buffer size and any modulus  *)
(* of the counters that it divides: a pipe is freed after its last use, no *)
(* sleeper misses data or room, and the ring buffer is a queue of bytes.   *)
(*                                                                         *)
(* The inductive invariant PipeInv says who may be where: in the pipe with *)
(* a reference, across loop turns with pi->lock, asleep with a reason.     *)
(***************************************************************************)
EXTENDS Pipe, RingTheorems

Reading == {"read", "rwait", "rsleep", "rcopy"}
Writing == {"write", "wbody", "wsleep"}
Labels == {"idle", "rclose", "wclose"} \union Reading \union Writing

Types ==
    /\ pc \in [Proc -> Labels]
    /\ lock \in Proc \union {None}
    /\ rfd \subseteq Proc
    /\ wfd \subseteq Writers
    /\ killed \in [Proc -> BOOLEAN]
    /\ n \in [Proc -> Nat]
    /\ i \in [Proc -> Nat]
    /\ nread \in 0..(CTRMOD - 1)
    /\ nwrite \in 0..(CTRMOD - 1)

\* A process in a call has the file; the one that dropped the last reference
\* goes to pipeclose().
Referenced ==
    /\ \A p \in Proc : pc[p] \in Reading => p \in rfd
    /\ \A p \in Proc : pc[p] \in Writing => p \in wfd
    /\ \A p \in Proc : pc[p] = "rclose" => rfd = {} /\ readopen
    /\ \A p \in Proc : pc[p] = "wclose" => wfd = {} /\ writeopen
    /\ \A p, q \in Proc : pc[p] = "rclose" /\ pc[q] = "rclose" => p = q
    /\ \A p, q \in Proc : pc[p] = "wclose" /\ pc[q] = "wclose" => p = q
    /\ rfd # {} => readopen
    /\ wfd # {} => writeopen
    /\ freed => ~readopen /\ ~writeopen

\* pi->lock is kept in the middle of a turn, and between two turns.
LockHeld ==
    /\ \A p \in Proc : pc[p] \in {"wbody", "rwait", "rcopy"} => lock = p
    /\ \A p \in Proc : lock = p => pc[p] \in {"write", "wbody", "rwait", "rcopy"}

\* What the tests at the top of the loops have found still holds.
Tested ==
    \A p \in Proc : /\ pc[p] = "wbody" => readopen
                    /\ pc[p] = "rwait" => Empty /\ writeopen

\* A writer sleeps on a full pipe, or the reader that makes room is not done.
WriterWaits ==
    \A p \in Proc : pc[p] = "wsleep" =>
        \/ Full /\ readopen
        \/ \E q \in Proc : lock = q /\ pc[q] = "rcopy"

\* A reader sleeps on an empty pipe, or the writer that fills it is not done.
ReaderWaits ==
    (\A p \in Writers : ~killed[p]) =>
        \A p \in Proc : pc[p] = "rsleep" =>
            \/ Empty /\ writeopen
            \/ \E q \in Proc : lock = q /\ pc[q] \in {"write", "wbody"}

PipeInv ==
    /\ Types
    /\ Referenced
    /\ LockHeld
    /\ Tested
    /\ WriterWaits
    /\ ReaderWaits
-----------------------------------------------------------------------------
\* The counters stay within their width.
LEMMA CounterWraps ==
    ASSUME NEW a \in 0..(CTRMOD - 1)
    PROVE  (a + 1) % CTRMOD \in 0..(CTRMOD - 1)
BY PipeAssumption

LEMMA InitPipeInv == Init => PipeInv
<1> SUFFICES ASSUME Init PROVE PipeInv
  OBVIOUS
<1> USE PipeAssumption DEF Init
<1>1. Types
  BY DEF Types, Labels
<1>2. Referenced
  BY DEF Referenced, Reading, Writing
<1>3. LockHeld /\ Tested /\ WriterWaits /\ ReaderWaits
  BY DEF LockHeld, Tested, WriterWaits, ReaderWaits
<1> QED
  BY <1>1, <1>2, <1>3 DEF PipeInv

LEMMA NextPipeInv ==
    ASSUME PipeInv, [Next]_vars
    PROVE  PipeInv'
<1> USE PipeAssumption DEF PipeInv, Types, Labels, Reading, Writing, Referenced,
        LockHeld, Tested, WriterWaits, ReaderWaits
<1>1. ASSUME NEW p \in Proc, NEW k \in 0..MaxN, CallWrite(p, k) \/ CallRead(p, k)
      PROVE  PipeInv'
  BY <1>1 DEF CallWrite, CallRead, Call, pipeVars, Empty, Full
<1>2. ASSUME NEW p \in Proc, Kill(p)
      PROVE  PipeInv'
  BY <1>2 DEF Kill, pipeVars, Empty, Full
<1>3. ASSUME NEW p \in Proc, WriteFails(p)
      PROVE  PipeInv'
  BY <1>3 DEF WriteFails, Locked, Leave, Return, pipeVars, Empty, Full
<1>4. ASSUME NEW p \in Proc, WriteTurn(p)
      PROVE  PipeInv'
  BY <1>4 DEF WriteTurn, Locked, Keep, pipeVars, Empty, Full
<1>5. ASSUME NEW p \in Proc, WriteSleep(p)
      PROVE  PipeInv'
  BY <1>5 DEF WriteSleep, Locked, ReadersAwake, pipeVars, Empty, Full
<1>6. ASSUME NEW p \in Proc, NEW v \in Byte, WriteByte(p, v)
      PROVE  PipeInv'
  BY <1>6, CounterWraps DEF WriteByte, Locked, Keep, Empty
<1>7. ASSUME NEW p \in Proc, WriteFault(p) \/ WriteDone(p)
      PROVE  PipeInv'
  <2>1. /\ pc[p] \in {"wbody", "write"} /\ lock \in {None, p}
        /\ lock' = None
        /\ pc' = [[q \in Proc |-> IF pc[q] = "rsleep" THEN "read" ELSE pc[q]]
                    EXCEPT ![p] = "idle"]
        /\ UNCHANGED <<nread, nwrite, readopen, writeopen, freed, rfd, wfd, killed>>
        /\ Return(p)
    BY <1>7 DEF WriteFault, WriteDone, DoneWrite, ReadersAwake, Locked, pipeVars
  <2> QED
    BY <2>1 DEF Return, Empty, Full
<1>8. ASSUME NEW p \in Proc, ReadKilled(p)
      PROVE  PipeInv'
  BY <1>8 DEF ReadKilled, Locked, Leave, Return, pipeVars, Empty, Full
<1>9. ASSUME NEW p \in Proc, ReadWait(p)
      PROVE  PipeInv'
  BY <1>9 DEF ReadWait, Locked, Keep, pipeVars, Empty, Full
<1>10. ASSUME NEW p \in Proc, ReadSleep(p)
       PROVE  PipeInv'
  BY <1>10 DEF ReadSleep, Locked, Leave, pipeVars, Empty, Full
<1>11. ASSUME NEW p \in Proc, ReadStart(p)
       PROVE  PipeInv'
  BY <1>11 DEF ReadStart, Locked, Keep, pipeVars, Empty, Full
<1>12. ASSUME NEW p \in Proc, ReadByte(p)
       PROVE  PipeInv'
  BY <1>12, CounterWraps DEF ReadByte, Locked, Empty
<1>13. ASSUME NEW p \in Proc, ReadFault(p) \/ ReadDone(p)
       PROVE  PipeInv'
  <2>1. /\ pc[p] = "rcopy" /\ lock \in {None, p}
        /\ lock' = None
        /\ pc' = [[q \in Proc |-> IF pc[q] = "wsleep" THEN "write" ELSE pc[q]]
                    EXCEPT ![p] = "idle"]
        /\ UNCHANGED <<nread, nwrite, readopen, writeopen, freed, rfd, wfd, killed>>
        /\ Return(p)
    BY <1>13 DEF ReadFault, ReadDone, WritersAwake, Locked, pipeVars
  <2> QED
    BY <2>1 DEF Return, Empty, Full
<1>14. ASSUME NEW p \in Proc, CloseRead(p) \/ CloseWrite(p)
       PROVE  PipeInv'
  BY <1>14 DEF CloseRead, CloseWrite, LastRef, pipeVars, Empty, Full
<1>15. ASSUME NEW p \in Proc, PipeCloseRead(p)
       PROVE  PipeInv'
  BY <1>15, ZenonT(60) DEF PipeCloseRead, WritersAwake, Empty, Full
<1>16. ASSUME NEW p \in Proc, PipeCloseWrite(p)
       PROVE  PipeInv'
  BY <1>16, ZenonT(60) DEF PipeCloseWrite, WakeOnClose, ReadersAwake, Empty, Full
<1>17. ASSUME UNCHANGED vars
       PROVE  PipeInv'
  BY <1>17 DEF vars, pipeVars, Empty, Full
<1> QED
  BY <1>1, <1>2, <1>3, <1>4, <1>5, <1>6, <1>7, <1>8, <1>9, <1>10, <1>11,
     <1>12, <1>13, <1>14, <1>15, <1>16, <1>17 DEF Next, Step

LEMMA Invariant == Spec => []PipeInv
BY InitPipeInv, NextPipeInv, PTL DEF Spec

\* kfree(pi) in pipeclose() comes after the last use of the pipe.
THEOREM FreedLast == Spec => []FreedIsUnused
<1>1. PipeInv => FreedIsUnused
  BY DEF PipeInv, Types, Labels, Reading, Writing, Referenced, FreedIsUnused
<1> QED
  BY <1>1, Invariant, PTL

\* No reader sleeps in piperead() through bytes of a writer that was not
\* killed, or through the close of the write end.
THEOREM DataWakesReaders == Spec => []NoLostData
<1>1. PipeInv => NoLostData
  BY PipeAssumption DEF PipeInv, ReaderWaits, NoLostData, SleepersWaitForData
<1> QED
  BY <1>1, Invariant, PTL

\* No writer sleeps in pipewrite() through room made for it, or through the
\* close of the read end.
THEOREM RoomWakesWriters == Spec => []NoLostRoom
<1>1. PipeInv => NoLostRoom
  BY PipeAssumption DEF PipeInv, WriterWaits, NoLostRoom
<1> QED
  BY <1>1, Invariant, PTL
-----------------------------------------------------------------------------
(* The ring buffer is a queue of bytes.  RingInv adds to PipeInv what the  *)
(* bytes and the loops of piperead() need.                                 *)

Queue == [k \in 1..Count |-> data[(nread + k - 1) % PIPESIZE]]

\* A call has something to transfer, and a reader that has copied nothing yet
\* goes on to find a byte or the end of the stream.
RingInv ==
    /\ data \in [0..(PIPESIZE - 1) -> Byte]
    /\ got \in [Proc -> Byte \union {None, Eof}]
    /\ Count <= PIPESIZE
    /\ \A p \in Proc : pc[p] = "rcopy" /\ i[p] = 0 => ~Empty \/ ~writeopen

LEMMA Ring ==
    RingOf(PIPESIZE, CTRMOD) /\ CTRMOD \in Nat \ {0} /\ PIPESIZE < CTRMOD
BY PipeAssumption DEF RingOf

\* Empty and Full are told apart by the difference of the counters.
LEMMA CountCases ==
    ASSUME Types
    PROVE  /\ Count \in 0..(CTRMOD - 1)
           /\ Empty <=> Count = 0
           /\ Full <=> Count = PIPESIZE
<1>1. /\ PIPESIZE \in Nat \ {0} /\ CTRMOD \in Nat \ {0} /\ PIPESIZE < CTRMOD
      /\ nread \in 0..(CTRMOD - 1) /\ nwrite \in 0..(CTRMOD - 1)
  BY PipeAssumption DEF Types
<1>2. Count = IF nread <= nwrite THEN nwrite - nread
                                 ELSE nwrite - nread + CTRMOD
  BY <1>1, CounterGap DEF Count
<1>3. (nread + PIPESIZE) % CTRMOD = IF nread + PIPESIZE < CTRMOD
                                    THEN nread + PIPESIZE
                                    ELSE nread + PIPESIZE - CTRMOD
  <2> DEFINE b == nread + PIPESIZE
  <2>1. CTRMOD \in Nat \ {0} /\ b \in (-CTRMOD)..(2 * CTRMOD - 1)
    BY <1>1
  <2> HIDE DEF b
  <2>2. b % CTRMOD = IF b < 0 THEN b + CTRMOD
                     ELSE IF b < CTRMOD THEN b ELSE b - CTRMOD
    BY <2>1, ModCases
  <2> QED
    BY <1>1, <2>2 DEF b
<1> QED
  BY <1>1, <1>2, <1>3 DEF Empty, Full

LEMMA QueueIsWindow ==
    /\ Queue = Window(data, nread, nwrite, PIPESIZE, CTRMOD)
    /\ Queue' = Window(data', nread', nwrite', PIPESIZE, CTRMOD)
BY DEF Queue, Count, Window

LEMMA QueueType ==
    ASSUME Types, RingInv
    PROVE  Queue \in Seq(Byte) /\ Len(Queue) = Count
<1>1. /\ IsRing(data, nread, nwrite, PIPESIZE, CTRMOD)
      /\ data \in [0..(PIPESIZE - 1) -> Byte]
  BY Ring DEF Types, RingInv, IsRing
<1> QED
  BY <1>1, QueueIsWindow, WindowType DEF Count

\* The byte that pipewrite() stores is the last of the queue.
LEMMA PutStep ==
    ASSUME Types, RingInv, ~Full, NEW v \in Byte,
           data' = [data EXCEPT ![nwrite % PIPESIZE] = v],
           nwrite' = (nwrite + 1) % CTRMOD, nread' = nread
    PROVE  /\ Count < PIPESIZE /\ Count' = Count + 1
           /\ Queue' = Append(Queue, v)
<1>1. Count \in Nat /\ Count < PIPESIZE /\ Count + 1 < CTRMOD
  BY CountCases, PipeAssumption DEF RingInv
<1>2. /\ (((nwrite + 1) % CTRMOD) - nread) % CTRMOD = Count + 1
      /\ Window(StoreAt(data, nwrite, v, PIPESIZE), nread,
                (nwrite + 1) % CTRMOD, PIPESIZE, CTRMOD) = Append(Queue, v)
  <2>1. /\ nread \in 0..(CTRMOD - 1) /\ nwrite \in 0..(CTRMOD - 1)
        /\ IsRing(data, nread, nwrite, PIPESIZE, CTRMOD)
        /\ Count = (nwrite - nread) % CTRMOD
    BY Ring DEF Types, RingInv, Count, IsRing
  <2>2. (nwrite - nread) % CTRMOD < PIPESIZE /\ ((nwrite - nread) % CTRMOD) + 1 < CTRMOD
    BY <1>1, <2>1
  <2>3. /\ (((nwrite + 1) % CTRMOD) - nread) % CTRMOD
               = ((nwrite - nread) % CTRMOD) + 1
        /\ Window(StoreAt(data, nwrite, v, PIPESIZE), nread,
                  (nwrite + 1) % CTRMOD, PIPESIZE, CTRMOD)
               = Append(Window(data, nread, nwrite, PIPESIZE, CTRMOD), v)
    BY <2>1, <2>2, WindowPut
  <2> QED
    BY <2>1, <2>3, QueueIsWindow
<1> QED
  BY <1>1, <1>2, QueueIsWindow DEF Count, StoreAt

\* The byte that piperead() copies is the first of the queue, and it is gone
\* once nread has advanced.
LEMMA TakeStep ==
    ASSUME Types, RingInv, ~Empty, data' = data, nwrite' = nwrite,
           nread' = (nread + 1) % CTRMOD
    PROVE  /\ Count' = Count - 1 /\ Count > 0
           /\ Queue # <<>> /\ Head(Queue) = data[nread % PIPESIZE]
           /\ Queue' = Tail(Queue)
<1>1. Count \in Nat /\ Count > 0 /\ Count <= PIPESIZE
  BY CountCases DEF RingInv
<1>2. /\ (nwrite - ((nread + 1) % CTRMOD)) % CTRMOD = Count - 1
      /\ Queue # <<>> /\ Head(Queue) = data[nread % PIPESIZE]
      /\ Window(data, (nread + 1) % CTRMOD, nwrite, PIPESIZE, CTRMOD) = Tail(Queue)
  <2>1. /\ nread \in 0..(CTRMOD - 1) /\ nwrite \in 0..(CTRMOD - 1)
        /\ IsRing(data, nread, nwrite, PIPESIZE, CTRMOD)
        /\ Count = (nwrite - nread) % CTRMOD
        /\ nread # nwrite
    BY Ring DEF Types, RingInv, Count, Empty, IsRing
  <2>2. (nwrite - nread) % CTRMOD <= PIPESIZE
    BY <1>1, <2>1
  <2> DEFINE Q == Window(data, nread, nwrite, PIPESIZE, CTRMOD)
  <2>3. /\ (nwrite - ((nread + 1) % CTRMOD)) % CTRMOD
               = ((nwrite - nread) % CTRMOD) - 1
        /\ Q # <<>> /\ Head(Q) = data[nread % PIPESIZE]
        /\ Window(data, (nread + 1) % CTRMOD, nwrite, PIPESIZE, CTRMOD) = Tail(Q)
    BY <2>1, <2>2, WindowTake
  <2> QED
    BY <2>1, <2>3, QueueIsWindow
<1> QED
  BY <1>1, <1>2, QueueIsWindow DEF Count
-----------------------------------------------------------------------------
\* Every step of the pipe is a step of the stream, or none, and keeps RingInv.
LEMMA InitStream ==
    ASSUME Init
    PROVE  RingInv /\ Stream!BSInit
<1>1. Count = 0
  BY PipeAssumption, CountCases, InitPipeInv DEF PipeInv, Init, Empty
<1>2. RingInv
  BY <1>1, PipeAssumption DEF Init, RingInv, Reading, Writing
<1>3. Queue = <<>>
  BY <1>1 DEF Queue
<1> QED
  BY <1>2, <1>3 DEF Init, Stream!BSInit, Queue

\* A step that leaves the bytes and the ends alone is none of the stream.
LEMMA QuietStep ==
    ASSUME UNCHANGED <<data, nread, nwrite, readopen, writeopen, got>>
    PROVE  UNCHANGED Stream!bsvars /\ Count' = Count
BY DEF Stream!bsvars, Count

LEMMA NextStream ==
    ASSUME PipeInv, RingInv, [Next]_vars
    PROVE  RingInv' /\ [Stream!BSNext]_Stream!bsvars
<1> USE PipeAssumption DEF PipeInv, Types, Labels, Reading, Writing
<1>0. /\ Count \in Nat /\ (Empty <=> Count = 0)
  BY CountCases
<1>1. ASSUME NEW p \in Proc, NEW k \in 0..MaxN, CallWrite(p, k) \/ CallRead(p, k)
      PROVE  RingInv' /\ UNCHANGED Stream!bsvars
  <2>1. UNCHANGED Stream!bsvars /\ Count' = Count
    BY <1>1, QuietStep DEF CallWrite, CallRead, Call, pipeVars
  <2>2. PICK l \in {"write", "read"} : Call(p, l, k)
    BY <1>1 DEF CallWrite, CallRead
  <2> QED
    BY <2>1, <2>2 DEF Call, pipeVars, RingInv, Empty
<1>2. ASSUME NEW p \in Proc, Kill(p)
      PROVE  RingInv' /\ UNCHANGED Stream!bsvars
  <2>1. UNCHANGED Stream!bsvars /\ Count' = Count
    BY <1>2, QuietStep DEF Kill, pipeVars
  <2> QED
    BY <1>2, <2>1 DEF Kill, pipeVars, RingInv, Empty
<1>3. ASSUME NEW p \in Proc,
             \/ WriteFails(p) \/ WriteTurn(p) \/ ReadKilled(p) \/ ReadWait(p)
             \/ ReadSleep(p) \/ ReadStart(p)
      PROVE  RingInv' /\ UNCHANGED Stream!bsvars
  <2>1. UNCHANGED Stream!bsvars /\ Count' = Count
    BY <1>3, QuietStep DEF WriteFails, WriteTurn, ReadKilled, ReadWait,
       ReadSleep, ReadStart, pipeVars
  <2>2. CASE WriteFails(p) \/ ReadKilled(p)
    <3>1. Leave(p, "idle") /\ Return(p) /\ UNCHANGED <<pipeVars, got>>
      BY <2>2 DEF WriteFails, ReadKilled
    <3> QED
      BY <2>1, <3>1 DEF Leave, Return, pipeVars, RingInv, Empty
  <2>3. CASE WriteTurn(p) \/ ReadWait(p) \/ ReadSleep(p) \/ ReadStart(p)
    BY <2>1, <2>3 DEF WriteTurn, ReadWait, ReadSleep, ReadStart, Locked, Keep,
       Leave, pipeVars, RingInv, Empty
  <2> QED
    BY <1>3, <2>2, <2>3
<1>4. ASSUME NEW p \in Proc, WriteSleep(p) \/ WriteFault(p) \/ WriteDone(p)
      PROVE  RingInv' /\ UNCHANGED Stream!bsvars
  <2>1. UNCHANGED Stream!bsvars /\ Count' = Count
    BY <1>4, QuietStep DEF WriteSleep, WriteFault, WriteDone, pipeVars
  <2>2. CASE WriteSleep(p)
    BY <2>1, <2>2 DEF WriteSleep, Locked, ReadersAwake, pipeVars, RingInv, Empty
  <2>3. CASE WriteFault(p) \/ WriteDone(p)
    <3>1. /\ pc' = [ReadersAwake EXCEPT ![p] = "idle"]
          /\ Return(p) /\ UNCHANGED <<pipeVars, got>>
      BY <2>3 DEF WriteFault, WriteDone, DoneWrite
    <3> QED
      BY <2>1, <3>1 DEF Return, ReadersAwake, pipeVars, RingInv, Empty
  <2> QED
    BY <1>4, <2>2, <2>3
<1>5. ASSUME NEW p \in Proc, NEW v \in Byte, WriteByte(p, v)
      PROVE  RingInv' /\ Stream!PutByte(v)
  <2>1. /\ Count < PIPESIZE /\ Count' = Count + 1
        /\ Queue' = Append(Queue, v) /\ Len(Queue) = Count
    BY <1>5, PutStep, QueueType DEF WriteByte
  <2>2. readopen /\ writeopen
    BY <1>5 DEF WriteByte, Locked, Tested, Referenced
  <2>3. Stream!PutByte(v)
    BY <1>5, <2>1, <2>2 DEF Stream!PutByte, Queue, WriteByte
  <2>4. nwrite % PIPESIZE \in 0..(PIPESIZE - 1)
    OBVIOUS
  <2>5. data' \in [0..(PIPESIZE - 1) -> Byte]
    BY <1>5, <2>4 DEF WriteByte, RingInv
  <2>6. \A q \in Proc : pc'[q] # "rcopy"
    BY <1>5 DEF WriteByte, Locked, Keep, LockHeld
  <2> QED
    BY <1>0, <1>5, <2>1, <2>3, <2>5, <2>6 DEF WriteByte, Locked, Keep, RingInv
<1>6. ASSUME NEW p \in Proc, ReadByte(p)
      PROVE  RingInv' /\ Stream!TakeByte(p)
  <2>1. /\ Count' = Count - 1 /\ Queue # <<>>
        /\ Head(Queue) = data[nread % PIPESIZE] /\ Queue' = Tail(Queue)
    BY <1>6, TakeStep DEF ReadByte
  <2>2. readopen
    BY <1>6 DEF ReadByte, Locked, Referenced
  <2>3. Stream!TakeByte(p)
    BY <1>6, <2>1, <2>2 DEF Stream!TakeByte, Queue, ReadByte
  <2>4. nread % PIPESIZE \in 0..(PIPESIZE - 1)
    OBVIOUS
  <2>5. got' \in [Proc -> Byte \union {None, Eof}]
    BY <1>6, <2>4 DEF ReadByte, RingInv
  <2>6. \A q \in Proc : pc[q] = "rcopy" => q = p
    BY <1>6 DEF ReadByte, Locked, LockHeld
  <2>7. i'[p] # 0
    BY <1>6 DEF ReadByte
  <2> QED
    BY <1>0, <1>6, <2>1, <2>3, <2>5, <2>6, <2>7 DEF ReadByte, RingInv
<1>7. ASSUME NEW p \in Proc, ReadFault(p)
      PROVE  RingInv' /\ UNCHANGED Stream!bsvars
  <2>1. UNCHANGED Stream!bsvars /\ Count' = Count
    BY <1>7, QuietStep DEF ReadFault, pipeVars
  <2> QED
    BY <1>7, <2>1 DEF ReadFault, Locked, Return, WritersAwake, pipeVars,
       RingInv, Empty
<1>8. ASSUME NEW p \in Proc, ReadDone(p)
      PROVE  RingInv' /\ [Stream!BSNext]_Stream!bsvars
  <2>1. UNCHANGED Queue /\ Count' = Count
    BY <1>8 DEF ReadDone, pipeVars, Queue, Count
  <2>2. got' \in [Proc -> Byte \union {None, Eof}]
    BY <1>8 DEF ReadDone, RingInv
  <2>3. RingInv'
    BY <1>8, <2>1, <2>2 DEF ReadDone, Locked, Return, WritersAwake, pipeVars,
       RingInv, Empty
  <2>4. CASE i[p] = 0 /\ n[p] # 0
    <3>1. Empty /\ ~writeopen
      BY <1>8, <2>4 DEF ReadDone, Locked, RingInv
    <3>2. Queue = <<>>
      BY <1>0, <3>1 DEF Queue
    <3>3. Stream!EndOfFile(p)
      BY <1>8, <2>1, <2>4, <3>1, <3>2 DEF ReadDone, Stream!EndOfFile, Queue,
         pipeVars
    <3> QED
      BY <2>3, <3>3 DEF Stream!BSNext
  <2>5. CASE ~(i[p] = 0 /\ n[p] # 0)
    <3>1. got' = got
      BY <1>8, <2>5 DEF ReadDone, RingInv
    <3> QED
      BY <1>8, <2>3, <3>1, QuietStep DEF ReadDone, pipeVars
  <2> QED
    BY <2>4, <2>5
<1>9. ASSUME NEW p \in Proc, CloseRead(p) \/ CloseWrite(p)
      PROVE  RingInv' /\ UNCHANGED Stream!bsvars
  <2>1. UNCHANGED Stream!bsvars /\ Count' = Count
    BY <1>9, QuietStep DEF CloseRead, CloseWrite, pipeVars
  <2> QED
    BY <1>9, <2>1 DEF CloseRead, CloseWrite, pipeVars, RingInv, Empty
<1>10. ASSUME NEW p \in Proc, PipeCloseRead(p) \/ PipeCloseWrite(p)
       PROVE  RingInv' /\ Stream!CloseEnd
  <2>1. UNCHANGED Queue /\ Count' = Count
    BY <1>10 DEF PipeCloseRead, PipeCloseWrite, Queue, Count
  <2>2. RingInv'
    BY <1>10, <2>1, ZenonT(60)
       DEF PipeCloseRead, PipeCloseWrite, WakeOnClose, WritersAwake, ReadersAwake,
           RingInv, Empty, LockHeld
  <2> QED
    BY <1>10, <2>1, <2>2 DEF PipeCloseRead, PipeCloseWrite, Stream!CloseEnd, Queue
<1>11. ASSUME UNCHANGED vars
       PROVE  RingInv' /\ UNCHANGED Stream!bsvars
  <2>1. UNCHANGED Stream!bsvars /\ Count' = Count
    BY <1>11, QuietStep DEF vars, pipeVars
  <2> QED
    BY <1>11, <2>1 DEF vars, pipeVars, RingInv, Empty
<1> QED
  BY <1>1, <1>2, <1>3, <1>4, <1>5, <1>6, <1>7, <1>8, <1>9, <1>10, <1>11
  DEF Next, Step, Stream!BSNext

\* pipewrite(), piperead() and pipeclose() implement a bounded queue of bytes:
\* nothing is lost, repeated or reordered, whichever copies fail and however
\* often the 32-bit counters wrap, and a read returns 0 only at the end.
THEOREM PipeIsStream == Spec => StreamIntact
<1>1. Spec => []RingInv
  BY Invariant, InitStream, NextStream, PTL DEF Spec
<1> QED
  BY Invariant, <1>1, InitStream, NextStream, PTL DEF Spec, StreamIntact,
     Stream!BSSpec
=============================================================================
