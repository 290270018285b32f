--------------------------- MODULE ConsoleProofs ---------------------------
(***************************************************************************)
(* For any number of processes, sizes of the buffers and bounds: no reader *)
(* sleeps through a line, no writer through an idle transmitter, a         *)
(* transmit FIFO of two places is enough, and the input buffer is a line   *)
(* that can be edited until it is finished, and then read once.            *)
(*                                                                         *)
(* The inductive invariant ConsoleInv ties each process's label to its     *)
(* p->chan and to tx_lock; InputInv orders the indexes r, w and e.         *)
(***************************************************************************)
EXTENDS Console, RingTheorems, TLAPS

Writing == {"tprep", "ttest", "tput", "tsleep", "tslept"}
Labels == {"idle", "write", "read", "rsleep", "rslept"} \union Writing

Types ==
    /\ pc \in [Proc -> Labels]
    /\ chan \in [Proc -> {"r", "tx", None}]
    /\ n \in [Proc -> Nat]
    /\ i \in [Proc -> Nat]
    /\ left \in [Proc -> Nat]
    /\ tx \in 0..TXFIFO
    /\ hpc \in {"off", "lsr", "getc", "echo", "put"}

\* The process in uartwrite() is the one that has tx_lock.
TxLockExclusive ==
    /\ \A p \in Proc : pc[p] \in Writing <=> left[p] > 0
    /\ \A p, q \in Proc : left[p] > 0 /\ left[q] > 0 => p = q

\* A process that sleeps is on the channel it sleeps on; one that is about to
\* sleep is, or has been woken; one that tests the uart is too.
OnChannel ==
    \A p \in Proc :
        /\ pc[p] = "rslept" => chan[p] = "r"
        /\ pc[p] = "tslept" => chan[p] = "tx"
        /\ pc[p] = "rsleep" => chan[p] \in {"r", None}
        /\ pc[p] \in {"ttest", "tsleep"} => chan[p] \in {"tx", None}

\* The interrupt that wakes up a writer is still to come.
TransmitComing ==
    \A p \in Proc : pc[p] \in {"tsleep", "tslept"} /\ chan[p] = "tx"
                       => tx > 0 \/ txirq \/ hpc = "lsr"

ConsoleInv ==
    /\ Types
    /\ TxLockExclusive
    /\ OnChannel
    /\ NoMissedLine
    /\ TransmitComing
-----------------------------------------------------------------------------
\* The size of a batch is positive.
LEMMA BatchSize ==
    ASSUME NEW a \in Nat, NEW b \in Nat, a > 0, b > 0
    PROVE  Min({a, b}) \in Nat /\ Min({a, b}) > 0
<1>1. \E x \in {a, b} : \A y \in {a, b} : x <= y
  <2>1. CASE a <= b
    BY <2>1
  <2>2. CASE ~(a <= b)
    BY <2>2
  <2> QED
    BY <2>1, <2>2
<1>2. Min({a, b}) \in {a, b}
  BY <1>1 DEF Min
<1> QED
  BY <1>2

\* A console with no call in progress.
LEMMA InitConsoleInv == Init => ConsoleInv
<1> SUFFICES ASSUME Init PROVE ConsoleInv
  OBVIOUS
<1> USE ConsoleAssumption DEF Init
<1>1. Types
  BY DEF Types, Labels, Writing
<1>2. TxLockExclusive
  BY DEF TxLockExclusive, Writing
<1>3. OnChannel /\ NoMissedLine /\ TransmitComing
  BY DEF OnChannel, NoMissedLine, TransmitComing
<1> QED
  BY <1>1, <1>2, <1>3 DEF ConsoleInv

\* What the handler and the devices do to a process is to wake it up.
LEMMA WakeupKeeps ==
    ASSUME ConsoleInv, NEW ch \in {"r", "tx"}, Wakeup(ch)
    PROVE  /\ pc' \in [Proc -> Labels]
           /\ chan' \in [Proc -> {"r", "tx", None}]
           /\ \A p \in Proc :
                 /\ pc'[p] \in Writing <=> pc[p] \in Writing
                 /\ pc'[p] \in {"rsleep", "rslept", "ttest", "tsleep", "tslept"}
                       => /\ pc'[p] = pc[p]
                          /\ chan'[p] = IF chan[p] = ch THEN None ELSE chan[p]
                 /\ pc'[p] \in {"rslept", "tslept"} => chan[p] # ch
<1> USE DEF ConsoleInv, Types, Wakeup, Awake, After, Labels, Writing
<1>1. pc' \in [Proc -> Labels] /\ chan' \in [Proc -> {"r", "tx", None}]
  OBVIOUS
<1> QED
  BY <1>1

\* One step per action.
LEMMA NextConsoleInv ==
    ASSUME ConsoleInv, [Next]_vars
    PROVE  ConsoleInv'
<1> USE ConsoleAssumption DEF ConsoleInv, Types, Labels, Writing,
        TxLockExclusive, OnChannel, NoMissedLine, TransmitComing
<1>1. ASSUME NEW p \in Proc, NEW k \in 1..MaxN,
             Call(p, "read", k) \/ Call(p, "write", k)
      PROVE  ConsoleInv'
  BY <1>1 DEF Call, Goes, cons, uart, handler
<1>2. ASSUME NEW p \in Proc, Kill(p)
      PROVE  ConsoleInv'
  BY <1>2 DEF Kill, Awake, After, cons, uart, handler, locals
<1>3. ASSUME NEW p \in Proc, Sleep(p)
      PROVE  ConsoleInv'
  BY <1>3 DEF Sleep, StillWaiting, After, Asleep, Goes, cons, uart, handler,
              locals
<1>4. ASSUME NEW p \in Proc, Batch(p)
      PROVE  ConsoleInv'
  <2>1. Min({BATCH, n[p] - i[p]}) \in Nat /\ Min({BATCH, n[p] - i[p]}) > 0
    BY <1>4, BatchSize DEF Batch
  <2> QED
    BY <1>4, <2>1 DEF Batch, TxLockFree, Goes, cons, uart, handler
<1>5. ASSUME NEW p \in Proc, TxPrepare(p)
      PROVE  ConsoleInv'
  BY <1>5 DEF TxPrepare, Goes, cons, uart, handler, locals
<1>6. ASSUME NEW p \in Proc, TxTest(p)
      PROVE  ConsoleInv'
  BY <1>6 DEF TxTest, TxIdle, Goes, cons, uart, handler, locals
<1>7. ASSUME NEW p \in Proc, TxPut(p)
      PROVE  ConsoleInv'
  BY <1>7 DEF TxPut, WriteTHR, Goes, cons, handler
<1>8. ASSUME NEW p \in Proc, WriteReturns(p)
      PROVE  ConsoleInv'
  BY <1>8 DEF WriteReturns, Return, Goes, cons, uart, handler
<1>9. ASSUME NEW p \in Proc, ReadKilled(p)
      PROVE  ConsoleInv'
  BY <1>9 DEF ReadKilled, Return, Goes, cons, uart, handler
<1>10. ASSUME NEW p \in Proc, ReadSleep(p)
       PROVE  ConsoleInv'
  BY <1>10 DEF ReadSleep, Goes, cons, uart, handler, locals
<1>11. ASSUME NEW p \in Proc, ReadEof(p) \/ ReadFault(p)
       PROVE  ConsoleInv'
  BY <1>11 DEF ReadEof, ReadFault, Return, Goes, uart, handler
<1>12. ASSUME NEW p \in Proc, ReadKey(p)
       PROVE  ConsoleInv'
  BY <1>12 DEF ReadKey, Return, Goes, uart, handler
<1>13. ASSUME NEW c \in Key, Press(c)
       PROVE  ConsoleInv'
  BY <1>13 DEF Press, cons, uart, handler, locals
<1>14. ASSUME Transmit
       PROVE  ConsoleInv'
  <2>1. tx = 1 => txirq'
    BY <1>14, Zenon DEF Transmit
  <2>2. tx' > 0 \/ txirq'
    BY <1>14, <2>1 DEF Transmit
  <2> QED
    BY <1>14, <2>2 DEF Transmit, cons, handler, locals
<1>15. ASSUME Interrupt
       PROVE  ConsoleInv'
  BY <1>15 DEF Interrupt, cons, locals
<1>16. ASSUME IntrTx
       PROVE  ConsoleInv'
  <2>1. CASE TxIdle
    BY <1>16, <2>1, WakeupKeeps DEF IntrTx, cons, uart, locals
  <2>2. CASE ~TxIdle
    BY <1>16, <2>2 DEF IntrTx, TxIdle, cons, uart, locals
  <2> QED
    BY <2>1, <2>2
<1>17. ASSUME IntrGetc
       PROVE  ConsoleInv'
  BY <1>17 DEF IntrGetc, cons, uart, locals
<1>18. ASSUME Echo
       PROVE  ConsoleInv'
  BY <1>18 DEF Echo, WriteTHR, cons, uart, locals
<1>19. ASSUME Store
       PROVE  ConsoleInv'
  <2>1. CASE Stores(hc) /\ Complete(AsRead(hc))
    BY <1>19, <2>1, WakeupKeeps DEF Store, Announced, uart, locals
  <2>2. CASE ~(Stores(hc) /\ Complete(AsRead(hc)))
    BY <1>19, <2>2 DEF Store, Announced, uart, locals
  <2> QED
    BY <2>1, <2>2
<1>20. ASSUME UNCHANGED vars
       PROVE  ConsoleInv'
  BY <1>20 DEF vars, cons, uart, handler, locals
<1> QED
  BY <1>1, <1>2, <1>3, <1>4, <1>5, <1>6, <1>7, <1>8, <1>9, <1>10, <1>11,
     <1>12, <1>13, <1>14, <1>15, <1>16, <1>17, <1>18, <1>19, <1>20
     DEF Next, Step, Handler
-----------------------------------------------------------------------------
\* The processes in consoleread() and uartwrite(), uartintr() and the uart keep
\* the inductive invariant.
THEOREM ConsoleInvHolds == Spec => []ConsoleInv
BY InitConsoleInv, NextConsoleInv, PTL DEF Spec

\* consoleread(): no process sleeps on &cons.r while a finished line, or the
\* rest of one, is in the buffer.
THEOREM NoLineMissed == Spec => []NoMissedLine
<1>1. ConsoleInv => NoMissedLine
  BY DEF ConsoleInv
<1> QED
  BY <1>1, ConsoleInvHolds, PTL

\* uartwrite(): a process that sleeps until the transmitter is idle is still
\* to be woken.
THEOREM NoTransmitLost == Spec => []NoLostTransmit
<1>1. ConsoleInv => NoLostTransmit
  BY DEF ConsoleInv, OnChannel, TransmitComing, NoLostTransmit
<1> QED
  BY <1>1, ConsoleInvHolds, PTL
-----------------------------------------------------------------------------
(* The writer that holds tx_lock and uartintr() may each have seen the     *)
(* transmitter idle before the other wrote to it.                          *)

RoomForBoth ==
    /\ \A p \in Proc : pc[p] = "tput" => tx <= 1 /\ (hpc = "put" => tx = 0)
    /\ hpc = "put" => tx <= 1

\* Only a test of LSR lets somebody write THR, and it finds tx = 0.
LEMMA NextRoomForBoth ==
    ASSUME TXFIFO >= 2, ConsoleInv, RoomForBoth, NoOverrun, [Next]_vars
    PROVE  RoomForBoth' /\ NoOverrun'
<1> USE ConsoleAssumption DEF ConsoleInv, Types, RoomForBoth, NoOverrun
<1>1. ASSUME NEW p \in Proc, TxPut(p)
      PROVE  RoomForBoth' /\ NoOverrun'
  <2>1. \A q \in Proc : pc[q] = "tput" => q = p
    BY <1>1 DEF TxPut, TxLockExclusive, Writing
  <2>2. RoomForBoth'
    BY <1>1, <2>1 DEF TxPut, WriteTHR, Goes, handler
  <2>3. ~(tx >= TXFIFO)
    BY <1>1 DEF TxPut
  <2>4. ~overrun'
    BY <1>1, <2>3, Zenon DEF TxPut, WriteTHR
  <2> QED
    BY <2>2, <2>4
<1>2. ASSUME Echo
      PROVE  RoomForBoth' /\ NoOverrun'
  <2>1. CASE hpc = "echo"
    BY <1>2, <2>1 DEF Echo, TxIdle, uart
  <2>2. CASE hpc = "put"
    <3>1. RoomForBoth'
      BY <1>2, <2>2 DEF Echo, WriteTHR
    <3>2. ~(tx >= TXFIFO)
      BY <2>2
    <3>3. WriteTHR
      BY <1>2, <2>2 DEF Echo
    <3>4. ~overrun'
      BY <3>2, <3>3, Zenon DEF WriteTHR
    <3> QED
      BY <3>1, <3>4
  <2> QED
    BY <1>2, <2>1, <2>2 DEF Echo
<1>3. ASSUME NEW p \in Proc, TxTest(p)
      PROVE  RoomForBoth' /\ NoOverrun'
  BY <1>3 DEF TxTest, TxIdle, Goes, uart, handler
<1>4. ASSUME Transmit
      PROVE  RoomForBoth' /\ NoOverrun'
  BY <1>4 DEF Transmit, handler
<1>5. ASSUME NEW ch \in {"r", "tx"}, Wakeup(ch)
      PROVE  \A p \in Proc : pc'[p] = "tput" => pc[p] = "tput"
  BY <1>5 DEF Wakeup, Awake, After
<1>6. ASSUME Interrupt \/ IntrTx \/ IntrGetc \/ Store
      PROVE  RoomForBoth' /\ NoOverrun'
  BY <1>5, <1>6 DEF Interrupt, IntrTx, IntrGetc, Store, uart
<1>7. ASSUME NEW p \in Proc,
             \/ Sleep(p) \/ Batch(p) \/ TxPrepare(p) \/ WriteReturns(p)
             \/ ReadKilled(p) \/ ReadSleep(p) \/ ReadEof(p) \/ ReadKey(p)
             \/ ReadFault(p) \/ Kill(p)
      PROVE  RoomForBoth' /\ NoOverrun'
  <2>1. \A q \in Proc : pc'[q] = "tput" => pc[q] = "tput"
    BY <1>7 DEF Sleep, Batch, TxPrepare, WriteReturns, ReadKilled, ReadSleep,
       ReadEof, ReadKey, ReadFault, Kill, Return, Goes, Awake, After, Asleep
  <2>2. UNCHANGED <<tx, overrun, hpc>>
    BY <1>7 DEF Sleep, Batch, TxPrepare, WriteReturns, ReadKilled, ReadSleep,
       ReadEof, ReadKey, ReadFault, Kill, uart, handler
  <2> QED
    BY <2>1, <2>2
<1>8. ASSUME NEW p \in Proc, NEW k \in 1..MaxN,
             Call(p, "read", k) \/ Call(p, "write", k)
      PROVE  RoomForBoth' /\ NoOverrun'
  BY <1>8 DEF Call, Goes, uart, handler
<1>9. ASSUME (\E c \in Key : Press(c)) \/ UNCHANGED vars
      PROVE  RoomForBoth' /\ NoOverrun'
  BY <1>9 DEF Press, vars, uart, handler
<1> QED
  BY <1>1, <1>2, <1>3, <1>4, <1>6, <1>7, <1>8, <1>9 DEF Next, Step, Handler

\* uartwrite() and uartputc_sync() test LSR and write THR in two steps, with
\* no lock in common: a FIFO of two places loses nothing all the same,
\* however many processes write.
THEOREM TwoPlacesSuffice == ASSUME TXFIFO >= 2 PROVE Spec => []NoOverrun
<1>1. Init => RoomForBoth /\ NoOverrun
  BY DEF Init, RoomForBoth, NoOverrun
<1>2. ConsoleInv /\ RoomForBoth /\ NoOverrun /\ [Next]_vars
         => (RoomForBoth /\ NoOverrun)'
  BY NextRoomForBoth
<1> QED
  BY <1>1, <1>2, ConsoleInvHolds, PTL DEF Spec
-----------------------------------------------------------------------------
(* The ring buffer is a line discipline.  InputInv says where its three    *)
(* indexes are: r, w and e in this order, less than the buffer apart, with *)
(* no newline in the line that is still edited.                            *)

Chars == {AsRead(c) : c \in Key} \union {"nl"}
Places == 0..(INPUT_BUF_SIZE - 1)
Counters == 0..(CTRMOD - 1)

Indexes ==
    /\ r \in Counters
    /\ w \in Counters
    /\ e \in Counters
    /\ Ahead(w, r) + Ahead(e, w) <= INPUT_BUF_SIZE

\* uartgetc() gives consoleintr() what was typed.
Typed ==
    /\ rx \in Seq(Key)
    /\ hpc \in {"echo", "put"} => hc \in Key

\* A newline ends a line at once, so that ^U finds none.
NoNewline == \A k \in 1..Ahead(e, w) : Keys(w, e)[k] # "nl"

InputInv ==
    /\ buf \in [Places -> Chars]
    /\ Indexes
    /\ Typed
    /\ NoNewline

LineIs == Window(buf, w, e, INPUT_BUF_SIZE, CTRMOD)
ReadyIs == Window(buf, r, w, INPUT_BUF_SIZE, CTRMOD)

LEMMA KeysAre ==
    /\ Keys(w, e) = LineIs /\ Keys(r, w) = ReadyIs
    /\ Keys(w, e)' = LineIs' /\ Keys(r, w)' = ReadyIs'
BY DEF Keys, LineIs, ReadyIs, Window, Ahead

LEMMA RingsAre ==
    ASSUME InputInv
    PROVE  /\ IsRing(buf, r, w, INPUT_BUF_SIZE, CTRMOD)
           /\ IsRing(buf, w, e, INPUT_BUF_SIZE, CTRMOD)
           /\ IsRing(buf, r, e, INPUT_BUF_SIZE, CTRMOD)
BY ConsoleAssumption DEF InputInv, Indexes, Counters, Places, IsRing, RingOf

\* How much is in the buffer.
LEMMA Amounts ==
    ASSUME InputInv
    PROVE  /\ Ahead(w, r) \in Nat /\ Ahead(e, w) \in Nat
           /\ Ahead(w, r) + Ahead(e, w) <= INPUT_BUF_SIZE
           /\ Ahead(e, r) = Ahead(w, r) + Ahead(e, w)
           /\ LineIs \in Seq(Chars) /\ Len(LineIs) = Ahead(e, w)
           /\ ReadyIs \in Seq(Chars) /\ Len(ReadyIs) = Ahead(w, r)
<1> USE ConsoleAssumption
<1>1. /\ INPUT_BUF_SIZE \in Nat \ {0} /\ CTRMOD \in Nat \ {0}
      /\ INPUT_BUF_SIZE < CTRMOD
      /\ r \in 0..(CTRMOD - 1) /\ w \in 0..(CTRMOD - 1) /\ e \in 0..(CTRMOD - 1)
      /\ buf \in [0..(INPUT_BUF_SIZE - 1) -> Chars]
      /\ Ahead(w, r) + Ahead(e, w) <= INPUT_BUF_SIZE
  BY DEF InputInv, Indexes, Counters, Places
<1>2. Ahead(w, r) \in Nat /\ Ahead(e, w) \in Nat
  BY <1>1, CounterGap DEF Ahead
<1>3. Ahead(w, r) + Ahead(e, w) < CTRMOD
  BY <1>1, <1>2
<1>4. Ahead(e, r) = Ahead(w, r) + Ahead(e, w)
  BY <1>1, <1>3, GapSum DEF Ahead
<1>5. /\ LineIs \in Seq(Chars) /\ Len(LineIs) = Ahead(e, w)
      /\ ReadyIs \in Seq(Chars) /\ Len(ReadyIs) = Ahead(w, r)
  BY <1>1, RingsAre, WindowType DEF LineIs, ReadyIs, Ahead
<1> QED
  BY <1>1, <1>2, <1>4, <1>5

LEMMA AmountsThen ==
    ASSUME InputInv'
    PROVE  LineIs' \in Seq(Chars) /\ Len(LineIs)' = Ahead(e, w)'
<1>1. /\ IsRing(buf', w', e', INPUT_BUF_SIZE, CTRMOD)
      /\ buf' \in [0..(INPUT_BUF_SIZE - 1) -> Chars]
  BY ConsoleAssumption
     DEF InputInv, Indexes, Counters, Places, IsRing, RingOf
<1> QED
  BY <1>1, WindowType DEF LineIs, Ahead

LEMMA InitInput ==
    ASSUME Init
    PROVE  InputInv /\ Lines!LDInit
<1> USE ConsoleAssumption DEF Init
<1>1. Ahead(w, r) = 0 /\ Ahead(e, w) = 0
  <2>1. Start \in 0..(CTRMOD - 1) /\ CTRMOD \in Nat \ {0} /\ r = Start /\ w = Start /\ e = Start
    OBVIOUS
  <2> QED
    BY <2>1, CounterGap DEF Ahead
<1>2. InputInv
  BY <1>1 DEF InputInv, Indexes, Counters, Places, Chars, Typed, NoNewline
<1>3. LineIs = <<>> /\ ReadyIs = <<>>
  BY <1>1, WindowEmpty DEF LineIs, ReadyIs, Ahead
<1> QED
  BY <1>2, <1>3, KeysAre DEF Lines!LDInit

LEMMA QuietInput ==
    ASSUME InputInv, UNCHANGED cons, Typed'
    PROVE  InputInv' /\ UNCHANGED Lines!ldvars
<1>1. buf' = buf /\ r' = r /\ w' = w /\ e' = e
  BY DEF cons
<1>2. Keys(w, e)' = Keys(w, e) /\ Keys(r, w)' = Keys(r, w)
  BY <1>1 DEF Keys, Ahead
<1>3. Indexes' /\ NoNewline'
  BY <1>1, <1>2 DEF InputInv, Indexes, NoNewline, Ahead
<1> QED
  BY <1>1, <1>2, <1>3 DEF InputInv, Lines!ldvars

\* A reader takes one key.
LEMMA TakeKey ==
    ASSUME InputInv, r # w, r' = Next1(r), UNCHANGED <<buf, w, e>>, Typed'
    PROVE  InputInv' /\ Lines!Take
<1> USE ConsoleAssumption
<1>1. /\ CTRMOD \in Nat \ {0} /\ r \in 0..(CTRMOD - 1)
      /\ IsRing(buf, r, w, INPUT_BUF_SIZE, CTRMOD)
      /\ (w - r) % CTRMOD <= INPUT_BUF_SIZE
  BY Amounts, RingsAre DEF InputInv, Indexes, Counters, Ahead
<1>2. /\ (w - ((r + 1) % CTRMOD)) % CTRMOD = ((w - r) % CTRMOD) - 1
      /\ ReadyIs # <<>>
      /\ Window(buf, (r + 1) % CTRMOD, w, INPUT_BUF_SIZE, CTRMOD) = Tail(ReadyIs)
  BY <1>1, WindowTake DEF ReadyIs
<1>3. Ahead(w, r)' = Ahead(w, r) - 1 /\ Ahead(e, w)' = Ahead(e, w)
  BY <1>2 DEF Ahead, Next1
<1>4. ReadyIs' = Tail(ReadyIs) /\ LineIs' = LineIs
  BY <1>2 DEF ReadyIs, LineIs, Next1
<1>5. r' \in Counters
  BY <1>1, CounterStep DEF Next1, Counters
<1>6. Indexes'
  BY <1>3, <1>5, Amounts DEF InputInv, Indexes
<1>7. NoNewline'
  BY <1>3, <1>4, KeysAre DEF InputInv, NoNewline
<1> QED
  BY <1>2, <1>4, <1>6, <1>7, KeysAre DEF InputInv, Lines!Take

\* Both have the same idea of when a line is complete.
LEMMA CompletesSame ==
    ASSUME InputInv, Room, NEW c
    PROVE  /\ Lines!Used < INPUT_BUF_SIZE
           /\ Complete(c) <=> Lines!Completes(c)
<1> USE ConsoleAssumption
<1>1. Lines!Used = Ahead(e, r) /\ Ahead(e, r) \in Nat
  BY Amounts, KeysAre DEF Lines!Used
<1>2. Ahead(e, r) < INPUT_BUF_SIZE
  BY DEF Room
<1>3. Ahead(e + 1, r) = Ahead(e, r) + 1
  <2>1. /\ CTRMOD \in Nat \ {0} /\ r \in 0..(CTRMOD - 1) /\ e \in 0..(CTRMOD - 1)
        /\ ((e - r) % CTRMOD) + 1 < CTRMOD
    BY <1>1, <1>2 DEF InputInv, Indexes, Counters, Ahead
  <2> QED
    BY <2>1, GapStep DEF Ahead
<1>4. Complete(c) <=> c \in {"nl", "eof"} \/ Lines!Used + 1 = INPUT_BUF_SIZE
  BY <1>1, <1>3 DEF Complete
<1> QED
  BY <1>1, <1>2, <1>4 DEF Lines!Completes

\* consoleintr() stores a key.
LEMMA StoreKey ==
    ASSUME InputInv, Room, NEW c \in Chars,
           buf' = [buf EXCEPT ![e % INPUT_BUF_SIZE] = c],
           e' = Next1(e), w' = IF Complete(c) THEN e' ELSE w, r' = r, Typed'
    PROVE  InputInv' /\ Lines!Type(c)
<1> USE ConsoleAssumption
<1> DEFINE x == Next1(e)
           P == INPUT_BUF_SIZE
           M == CTRMOD
<1>1. /\ M \in Nat \ {0} /\ P \in Nat \ {0} /\ P < M
      /\ r \in 0..(M - 1) /\ w \in 0..(M - 1) /\ e \in 0..(M - 1)
      /\ buf \in [0..(P - 1) -> Chars]
      /\ NoNewline
  BY DEF InputInv, Indexes, Counters, Places
<1>2. /\ Ahead(w, r) \in Nat /\ Ahead(e, w) \in Nat
      /\ Ahead(e, r) = Ahead(w, r) + Ahead(e, w)
      /\ Ahead(w, r) + Ahead(e, w) < P
      /\ LineIs \in Seq(Chars) /\ Len(LineIs) = Ahead(e, w)
      /\ ReadyIs \in Seq(Chars) /\ Len(ReadyIs) = Ahead(w, r)
  BY Amounts DEF Room
<1>r. /\ Ahead(e, w) < P /\ Ahead(e, w) + 1 < M
      /\ Ahead(e, r) < P /\ Ahead(e, r) + 1 < M
      /\ Ahead(w, r) + Ahead(e, w) < P /\ Ahead(w, r) + Ahead(e, w) < M
  <2> DEFINE a == Ahead(w, r)
             b == Ahead(e, w)
  <2>1. /\ a \in Nat /\ b \in Nat /\ Ahead(e, r) = a + b /\ a + b < P
    BY <1>2
  <2>2. P \in Nat /\ M \in Nat /\ P < M
    BY <1>1
  <2> HIDE DEF a, b, P, M
  <2>3. b < P /\ b + 1 < M /\ a + b < M /\ a + b + 1 < M
    BY <2>1, <2>2
  <2> QED
    BY <2>1, <2>3 DEF a, b
<1>3. buf' = StoreAt(buf, e, c, P)
  BY DEF StoreAt
<1>4. buf' \in [Places -> Chars]
  <2>1. e % P \in 0..(P - 1)
    BY <1>1
  <2> QED
    BY <1>1, <2>1 DEF Places
<1>5. x \in Counters /\ e' = x /\ r' \in Counters /\ w' \in Counters
  <2>1. x \in Counters
    BY <1>1, CounterStep DEF Next1, Counters
  <2> QED
    BY <1>1, <2>1 DEF Counters
<1>6. /\ (x - w) % M = ((e - w) % M) + 1
      /\ Window(StoreAt(buf, e, c, P), w, x, P, M) = Append(LineIs, c)
  <2>1. (e - w) % M < P /\ ((e - w) % M) + 1 < M
    BY <1>r DEF Ahead
  <2> QED
    BY <2>1, RingsAre, WindowPut DEF LineIs, Next1
<1>7. /\ (x - r) % M = ((e - r) % M) + 1
      /\ Window(StoreAt(buf, e, c, P), r, x, P, M)
             = Append(Window(buf, r, e, P, M), c)
  <2>1. (e - r) % M < P /\ ((e - r) % M) + 1 < M
    BY <1>r DEF Ahead
  <2> QED
    BY <2>1, RingsAre, WindowPut DEF Next1
<1>8. Window(StoreAt(buf, e, c, P), r, w, P, M) = ReadyIs
  <2>1. ((w - r) % M) + ((e - w) % M) < P
    BY <1>r DEF Ahead
  <2> QED
    BY <2>1, RingsAre, WindowElsewhere DEF ReadyIs
<1>9. Window(buf, r, e, P, M) = ReadyIs \o LineIs
  <2>1. ((w - r) % M) + ((e - w) % M) < M
    BY <1>r DEF Ahead
  <2>2. IsRing(buf, r, w, P, M) /\ IsRing(buf, w, e, P, M)
    BY RingsAre
  <2> HIDE ConsoleAssumption DEF P, M
  <2>3. Window(buf, r, e, P, M)
            = Joined(Window(buf, r, w, P, M), Window(buf, w, e, P, M))
    BY <2>1, <2>2, WindowJoin
  <2> QED
    BY <2>3 DEF ReadyIs, LineIs, P, M, Joined
<1>10. Append(ReadyIs \o LineIs, c) = ReadyIs \o Append(LineIs, c)
  <2>1. /\ Append(ReadyIs \o LineIs, c) = (ReadyIs \o LineIs) \o <<c>>
        /\ Append(LineIs, c) = LineIs \o <<c>>
    BY <1>2, ConcatProperties, AppendIsConcat
  <2>2. (ReadyIs \o LineIs) \o <<c>> = ReadyIs \o (LineIs \o <<c>>)
    BY <1>2, ConcatAssociative
  <2> QED
    BY <2>1, <2>2
<1>11. Lines!Used < P /\ (Complete(c) <=> Lines!Completes(c))
  BY CompletesSame
<1>12. CASE Complete(c)
  <2>1. w' = x
    BY <1>5, <1>12
  <2>2. (x - x) % M = 0
    BY <1>1, <1>5, CounterGap DEF Counters
  <2>3. LineIs' = <<>> /\ Ahead(e, w)' = 0
    <3>1. Ahead(e, w)' = 0
      BY <1>5, <2>1, <2>2 DEF Ahead
    <3>2. Window(buf', x, x, P, M) = <<>>
      BY <2>2, WindowEmpty
    <3> QED
      BY <1>5, <2>1, <3>1, <3>2 DEF LineIs
  <2>4. ReadyIs' = ReadyIs \o Append(LineIs, c)
    BY <1>3, <1>7, <1>9, <1>10, <2>1 DEF ReadyIs
  <2>5. Ahead(w, r)' = Ahead(e, r) + 1
    BY <1>7, <2>1 DEF Ahead
  <2>6. Indexes' /\ NoNewline'
    BY <1>1, <1>2, <1>5, <2>3, <2>5 DEF Indexes, NoNewline
  <2>7. Lines!Type(c)
    BY <1>11, <1>12, <2>3, <2>4, KeysAre DEF Lines!Type
  <2> QED
    BY <1>4, <2>6, <2>7 DEF InputInv
<1>13. CASE ~Complete(c)
  <2>1. w' = w
    BY <1>13
  <2>2. LineIs' = Append(LineIs, c) /\ ReadyIs' = ReadyIs
    BY <1>3, <1>5, <1>6, <1>8, <2>1 DEF LineIs, ReadyIs
  <2>3. Ahead(e, w)' = Ahead(e, w) + 1 /\ Ahead(w, r)' = Ahead(w, r)
    BY <1>5, <1>6, <2>1 DEF Ahead
  <2>4. Indexes'
    BY <1>1, <1>2, <1>5, <2>3 DEF Indexes
  <2>5. NoNewline'
    <3>1. c # "nl"
      BY <1>13 DEF Complete
    <3>2. \A k \in 1..Ahead(e, w) : LineIs[k] # "nl"
      BY <1>1, KeysAre DEF NoNewline
    <3>3. \A k \in 1..(Ahead(e, w) + 1) : Append(LineIs, c)[k] # "nl"
      BY <1>2, <3>1, <3>2, AppendProperties
    <3> QED
      BY <2>2, <2>3, <3>3, KeysAre DEF NoNewline
  <2>6. Lines!Type(c)
    BY <1>11, <1>13, <2>2, KeysAre DEF Lines!Type
  <2> QED
    BY <1>4, <2>4, <2>5, <2>6 DEF InputInv
<1> QED
  BY <1>12, <1>13

\* ^U takes back the whole line, ^H its last key if there is one.
LEMMA ErasedIs ==
    ASSUME InputInv, NEW c
    PROVE  /\ Erased(c) \in 0..Ahead(e, w)
           /\ Erased(c) \in {0, 1, Ahead(e, w)}
<1> DEFINE b == Ahead(e, w)
           At(k) == buf[(e - k) % INPUT_BUF_SIZE]
           T == {k \in 0..b : \A m \in 1..k : At(m) # "nl"}
<1>1. b \in Nat
  BY Amounts
<1>2. CASE c = "kill"
  <2>1. \A m \in 1..b : At(m) # "nl"
    <3>1. \A m \in 1..((e - w) % CTRMOD) :
              LineIs[((e - w) % CTRMOD) + 1 - m] = buf[(e - m) % INPUT_BUF_SIZE]
      <4>1. 0 \in 0..((e - w) % CTRMOD)
        BY <1>1 DEF Ahead
      <4> QED
        BY <4>1, RingsAre, WindowBack DEF LineIs
    <3>2. \A m \in 1..b : b + 1 - m \in 1..b /\ LineIs[b + 1 - m] = At(m)
      BY <1>1, <3>1 DEF Ahead
    <3>3. \A k \in 1..b : LineIs[k] # "nl"
      BY KeysAre DEF InputInv, NoNewline
    <3> QED
      BY <3>2, <3>3
  <2>2. T = 0..b
    <3> HIDE DEF At, b
    <3> QED
      BY <1>1, <2>1
  <2>3. Max(T) = b
    <3>1. \A x \in 0..b : (\A y \in 0..b : x >= y) <=> x = b
      <4> HIDE DEF b
      <4> QED
        BY <1>1
    <3>2. b \in 0..b
      BY <1>1
    <3> HIDE DEF b
    <3>3. Max(0..b) = b
      BY <3>1, <3>2 DEF Max
    <3> QED
      BY <2>2, <3>3
  <2>4. Erased(c) = Max(T)
    BY <1>2 DEF Erased
  <2> QED
    BY <1>1, <2>3, <2>4
<1>3. CASE c = "bs"
  <2>1. Erased(c) = Min({1, b})
    BY <1>3 DEF Erased
  <2>2. Min({1, b}) = IF b = 0 THEN 0 ELSE 1
    <3> HIDE DEF b
    <3>1. \A x \in {1, b} : (\A y \in {1, b} : x =< y)
                               <=> x = IF b = 0 THEN 0 ELSE 1
      BY <1>1
    <3>2. (IF b = 0 THEN 0 ELSE 1) \in {1, b}
      OBVIOUS
    <3> QED
      BY <3>1, <3>2 DEF Min
  <2> QED
    BY <1>1, <2>1, <2>2
<1>4. CASE c \notin {"kill", "bs"}
  <2>1. Erased(c) = 0
    BY <1>4 DEF Erased
  <2> QED
    BY <1>1, <2>1
<1> QED
  BY <1>2, <1>3, <1>4

\* consoleintr() takes keys back.
LEMMA EraseKeys ==
    ASSUME InputInv, NEW k \in 0..Ahead(e, w), k \in {0, 1, Ahead(e, w)},
           e' = (e - k) % CTRMOD, UNCHANGED <<buf, r, w>>, Typed'
    PROVE  InputInv' /\ (Lines!KillLine \/ Lines!Erase \/ UNCHANGED Lines!ldvars)
<1> DEFINE b == Ahead(e, w)
<1>1. /\ b \in Nat /\ Ahead(w, r) \in Nat /\ Ahead(w, r) + b <= INPUT_BUF_SIZE
      /\ LineIs \in Seq(Chars) /\ Len(LineIs) = b
  BY Amounts
<1>2. /\ e' \in Counters /\ Ahead(e, w)' = b - k
      /\ \A j \in 1..(b - k) : LineIs'[j] = LineIs[j]
  BY RingsAre, WindowBack DEF Ahead, LineIs, Counters
<1>3. ReadyIs' = ReadyIs /\ Ahead(w, r)' = Ahead(w, r)
  BY DEF ReadyIs, Ahead
<1>4. Indexes'
  <2>1. /\ r' \in Counters /\ w' \in Counters
    BY DEF InputInv, Indexes
  <2>2. Ahead(w, r)' + Ahead(e, w)' <= INPUT_BUF_SIZE
    <3>1. INPUT_BUF_SIZE \in Nat
      BY ConsoleAssumption
    <3> HIDE DEF b
    <3> QED
      BY <1>1, <1>2, <1>3, <3>1
  <2> QED
    BY <1>2, <2>1, <2>2 DEF Indexes
<1>5. NoNewline'
  <2>1. \A j \in 1..b : LineIs[j] # "nl"
    BY KeysAre DEF InputInv, NoNewline
  <2>2. \A j \in 1..(b - k) : j \in 1..b
    <3> HIDE DEF b
    <3> QED
      BY <1>1
  <2> QED
    BY <1>2, <2>1, <2>2, KeysAre DEF NoNewline
<1>6. InputInv'
  BY <1>4, <1>5 DEF InputInv
<1>7. /\ LineIs' \in Seq(Chars) /\ Len(LineIs') = b - k
  BY <1>2, <1>6, AmountsThen
<1>8. CASE k = b
  <2>1. Len(LineIs') = 0
    BY <1>1, <1>7, <1>8
  <2>2. LineIs' = <<>>
    BY <1>7, <2>1, EmptySeq
  <2>3. Lines!KillLine
    BY <1>3, <2>2, KeysAre DEF Lines!KillLine
  <2> QED
    BY <1>6, <2>3
<1>9. CASE k = 0
  <2>1. LineIs' = LineIs
    BY <1>1, <1>2, <1>7, <1>9, SeqEqual
  <2>2. UNCHANGED Lines!ldvars
    BY <1>3, <2>1, KeysAre DEF Lines!ldvars
  <2> QED
    BY <1>6, <2>2
<1>10. CASE k = 1
  <2>1. LineIs # <<>>
    BY <1>1, <1>10, EmptySeq
  <2>2. /\ SubSeq(LineIs, 1, b - 1) \in Seq(Chars)
        /\ Len(SubSeq(LineIs, 1, b - 1)) = b - 1
        /\ \A j \in 1..(b - 1) : SubSeq(LineIs, 1, b - 1)[j] = LineIs[j]
    <3>1. b - 1 \in Nat /\ 1 \in Int
      BY <1>1, <1>10
    <3>2. \A j \in 1..(b - 1) : LineIs[j] \in Chars
      BY <1>1, <3>1, ElementOfSeq
    <3> HIDE DEF b
    <3>3. /\ SubSeq(LineIs, 1, b - 1) \in Seq(Chars)
          /\ Len(SubSeq(LineIs, 1, b - 1))
                 = (IF 1 <= b - 1 THEN (b - 1) - 1 + 1 ELSE 0)
          /\ \A j \in 1..((b - 1) - 1 + 1) : SubSeq(LineIs, 1, b - 1)[j] = LineIs[1 + j - 1]
      BY <3>1, <3>2, SubSeqProperties
    <3>4. (b - 1) - 1 + 1 = b - 1 /\ \A j \in Int : 1 + j - 1 = j
      BY <3>1
    <3> QED
      BY <1>1, <3>1, <3>3, <3>4
  <2>3. LineIs' = SubSeq(LineIs, 1, b - 1)
    BY <1>2, <1>7, <1>10, <2>2, SeqEqual
  <2>4. Lines!Erase
    BY <1>1, <1>3, <2>1, <2>3, KeysAre DEF Lines!Erase, Lines!Front
  <2> QED
    BY <1>6, <2>4
<1> QED
  BY <1>8, <1>9, <1>10

LEMMA TypedKept ==
    ASSUME InputInv, [Next]_vars
    PROVE  Typed'
<1> USE DEF InputInv, Typed
<1>1. ASSUME NEW p \in Proc, NEW k \in 1..MaxN,
             Call(p, "read", k) \/ Call(p, "write", k)
      PROVE  Typed'
  BY <1>1 DEF Call, handler
<1>2. ASSUME NEW p \in Proc,
             \/ Kill(p) \/ Sleep(p) \/ Batch(p) \/ TxPrepare(p) \/ TxTest(p)
             \/ TxPut(p) \/ WriteReturns(p) \/ ReadKilled(p) \/ ReadSleep(p)
             \/ ReadEof(p) \/ ReadKey(p) \/ ReadFault(p)
      PROVE  Typed'
  <2>1. UNCHANGED <<rx, hpc, hc>>
    BY <1>2 DEF Kill, Sleep, Batch, TxPrepare, TxTest, TxPut, WriteReturns,
       ReadKilled, ReadSleep, ReadEof, ReadKey, ReadFault, handler
  <2> QED
    BY <2>1
<1>3. ASSUME NEW c \in Key, Press(c)
      PROVE  Typed'
  <2>1. Append(rx, c) \in Seq(Key)
    BY AppendProperties
  <2> QED
    BY <1>3, <2>1 DEF Press, handler
<1>4. ASSUME IntrGetc
      PROVE  Typed'
  <2>1. CASE rx = <<>>
    BY <1>4, <2>1 DEF IntrGetc
  <2>2. CASE rx # <<>>
    <3>1. Head(rx) \in Key /\ Tail(rx) \in Seq(Key)
      BY <2>2, HeadTailProperties
    <3> QED
      BY <1>4, <2>2, <3>1 DEF IntrGetc
  <2> QED
    BY <2>1, <2>2
<1>5. ASSUME Interrupt \/ IntrTx \/ Echo \/ Store \/ Transmit
      PROVE  Typed'
  BY <1>5 DEF Interrupt, IntrTx, Echo, Store, Transmit, handler
<1>6. ASSUME UNCHANGED vars
      PROVE  Typed'
  BY <1>6 DEF vars, handler
<1> QED
  BY <1>1, <1>2, <1>3, <1>4, <1>5, <1>6 DEF Next, Step, Handler

\* Every step is one of the line discipline, or none.
LEMMA NextInput ==
    ASSUME InputInv, [Next]_vars
    PROVE  InputInv' /\ [Lines!LDNext]_Lines!ldvars
<1>t. Typed'
  BY TypedKept
<1>1. CASE UNCHANGED cons
  BY <1>1, <1>t, QuietInput
<1>2. ASSUME NEW p \in Proc, ReadEof(p) \/ ReadKey(p) \/ ReadFault(p)
      PROVE  InputInv' /\ [Lines!LDNext]_Lines!ldvars
  <2>1. CASE r' = r
    BY <1>2, <1>t, <2>1, QuietInput DEF ReadEof, ReadKey, ReadFault, cons
  <2>2. CASE r' = Next1(r)
    <3>1. r # w /\ UNCHANGED <<buf, w, e>>
      BY <1>2 DEF ReadEof, ReadKey, ReadFault
    <3> QED
      BY <1>t, <2>2, <3>1, TakeKey DEF Lines!LDNext
  <2> QED
    BY <1>2, <2>1, <2>2 DEF ReadEof, ReadKey, ReadFault
<1>3. ASSUME Store
      PROVE  InputInv' /\ [Lines!LDNext]_Lines!ldvars
  <2>1. CASE Stores(hc)
    <3>1. hc \in Key /\ AsRead(hc) \in {AsRead(c) : c \in Key}
      BY <1>3 DEF Store, InputInv, Typed
    <3>2. AsRead(hc) \in Chars /\ Room
      BY <2>1, <3>1 DEF Chars, Stores
    <3>3. /\ buf' = [buf EXCEPT ![e % INPUT_BUF_SIZE] = AsRead(hc)]
          /\ e' = Next1(e) /\ r' = r
          /\ w' = IF Complete(AsRead(hc)) THEN e' ELSE w
      BY <1>3, <2>1 DEF Store
    <3>4. PICK c \in {AsRead(d) : d \in Key} : c = AsRead(hc)
      BY <3>1
    <3>5. InputInv' /\ Lines!Type(c)
      BY <1>t, <3>2, <3>3, <3>4, StoreKey
    <3> QED
      BY <3>5 DEF Lines!LDNext
  <2>2. CASE ~Stores(hc)
    <3>1. e' = (e - Erased(hc)) % CTRMOD /\ UNCHANGED <<buf, r, w>>
      BY <1>3, <2>2 DEF Store
    <3>2. PICK k \in 0..Ahead(e, w) : k = Erased(hc) /\ k \in {0, 1, Ahead(e, w)}
      BY ErasedIs
    <3>3. InputInv' /\ (Lines!KillLine \/ Lines!Erase \/ UNCHANGED Lines!ldvars)
      BY <1>t, <3>1, <3>2, EraseKeys
    <3> QED
      BY <3>3 DEF Lines!LDNext
  <2> QED
    BY <2>1, <2>2
<1>4. ASSUME NEW p \in Proc, NEW k \in 1..MaxN,
             Call(p, "read", k) \/ Call(p, "write", k)
      PROVE  UNCHANGED cons
  BY <1>4 DEF Call
<1>5. ASSUME NEW p \in Proc,
             \/ Kill(p) \/ Sleep(p) \/ Batch(p) \/ TxPrepare(p) \/ TxTest(p)
             \/ TxPut(p) \/ WriteReturns(p) \/ ReadKilled(p) \/ ReadSleep(p)
      PROVE  UNCHANGED cons
  BY <1>5 DEF Kill, Sleep, Batch, TxPrepare, TxTest, TxPut, WriteReturns,
     ReadKilled, ReadSleep
<1>6. ASSUME \/ \E c \in Key : Press(c)
             \/ Interrupt \/ IntrTx \/ IntrGetc \/ Echo \/ Transmit
             \/ UNCHANGED vars
      PROVE  UNCHANGED cons
  BY <1>6 DEF Press, Interrupt, IntrTx, IntrGetc, Echo, Transmit, vars
<1> QED
  BY <1>1, <1>2, <1>3, <1>4, <1>5, <1>6 DEF Next, Step, Handler

\* consoleintr() and consoleread() implement a line discipline: ^H and ^U edit
\* the unfinished line only, keys are read once and in order, and a full
\* buffer can be read, however often the 32-bit indexes wrap.
THEOREM ConsoleIsLines == Spec => InputIsLines
BY InitInput, NextInput, PTL DEF Spec, InputIsLines, Lines!LDSpec
=============================================================================
