------------------------------ MODULE Console ------------------------------
(***************************************************************************)
(* The console of the riscv64 port: kernel/console/riscv64/console.c and   *)
(* uart.c.  Processes in consoleread() and consolewrite() share it with    *)
(* uartintr(), which runs on one hart at a time (the PLIC sees to that),   *)
(* reads keys, echoes them and wakes sleepers.  What printk() prints goes  *)
(* the way of an echo and is left out.                                     *)
(*                                                                         *)
(* A step is an access to a register of the uart, or a turn of a loop;     *)
(* `lock' keeps cons.lock from one to the next.  Sleeping on a channel is  *)
(* as in module Sched, with a wakeup() as one step.  What is written does  *)
(* not matter, only how much, so the transmitter is a count.               *)
(***************************************************************************)
EXTENDS Integers, Sequences, FiniteSets, FiniteSetsExt

CONSTANTS
    Proc,
    INPUT_BUF_SIZE,
    CTRMOD,         \* r, w and e are modulo this: 2^32 in the code
    BATCH,          \* sizeof(buf) in consolewrite(): 32
    TXFIFO, RXFIFO, \* places of the transmit and receive FIFOs: 16 in a 16550
    Start,          \* r at the start: keys typed and read so far
    Key,            \* what is typed: "nl", "cr", "eof" (^D), "bs" (^H), "kill"
                    \* (^U), "ps" (^P), "nul" (0), or an ordinary key
    MaxN,           \* bound: the largest n of a call
    MaxKeys, MaxCalls, MaxKills,    \* bounds: keys typed, calls, kills
    None

ASSUME ConsoleAssumption ==
    /\ INPUT_BUF_SIZE \in Nat \ {0}
    /\ CTRMOD \in Nat /\ CTRMOD > INPUT_BUF_SIZE
    /\ CTRMOD % INPUT_BUF_SIZE = 0
    /\ BATCH \in Nat \ {0}
    /\ TXFIFO \in Nat \ {0} /\ RXFIFO \in Nat
    /\ Start \in 0..(CTRMOD - 1)
    /\ {MaxN, MaxKeys, MaxCalls, MaxKills} \subseteq Nat
    /\ None \notin Proc \union {"r", "tx", "intr"}

VARIABLES
    buf, r, w, e,   \* cons
    lock,           \* the holder of cons.lock: a process, "intr" or None
    tx,             \* characters in the transmit FIFO
    txirq,          \* the uart wants to tell that the FIFO became empty
    rx,             \* keys that wait in the receiver
    overrun,        \* a character was written to a full FIFO, and is lost
    hpc, hc, echo,  \* uartintr(): where it is, its c, what is left to echo
    pc, chan, killed,
    n, i, left,     \* locals of a call; left is of uartwrite()'s n
    keys, calls, kills

cons    == <<buf, r, w, e>>
uart    == <<tx, txirq, overrun>>
handler == <<hpc, hc, echo>>
locals  == <<n, i, left>>
bounds  == <<keys, calls, kills>>
vars == <<cons, lock, uart, rx, handler, pc, chan, killed, locals, bounds>>

\* A console that has been in use, and whose input has all been read.
Init ==
    /\ r = Start /\ w = Start /\ e = Start
    /\ buf = [k \in 0..(INPUT_BUF_SIZE - 1) |-> "nl"]
    /\ lock = None
    /\ tx = 0 /\ txirq = FALSE /\ rx = <<>> /\ overrun = FALSE
    /\ hpc = "off" /\ hc = None /\ echo = 0
    /\ pc = [p \in Proc |-> "idle"]
    /\ chan = [p \in Proc |-> None]
    /\ killed = [p \in Proc |-> FALSE]
    /\ n = [p \in Proc |-> 0] /\ i = n /\ left = n
    /\ keys = 0 /\ calls = 0 /\ kills = 0

Goes(p, l) == pc' = [pc EXCEPT ![p] = l]

Locked(a) == lock \in {None, a}
-----------------------------------------------------------------------------
(* The uart.                                                               *)

TxIdle == tx = 0

WriteTHR ==
    /\ tx' = IF tx < TXFIFO THEN tx + 1 ELSE tx
    /\ overrun' = (overrun \/ tx >= TXFIFO)
    /\ txirq' = FALSE

\* A character leaves the FIFO; the last one raises an interrupt.
Transmit ==
    /\ tx > 0
    /\ tx' = tx - 1
    /\ txirq' = (tx = 1)
    /\ UNCHANGED <<cons, lock, rx, overrun, handler, pc, chan, killed,
                   locals, bounds>>

Press(c) ==
    /\ keys < MaxKeys
    /\ Len(rx) < RXFIFO
    /\ keys' = keys + 1
    /\ rx' = Append(rx, c)
    /\ UNCHANGED <<cons, lock, uart, handler, pc, chan, killed, locals, calls,
                   kills>>
-----------------------------------------------------------------------------
(* sleep() and wakeup().                                                   *)

\* sleep() goes to sleep only if there was no wakeup since sleep_prepare().
StillWaiting_Unchecked(p) == TRUE
StillWaiting(p) == chan[p] # None

\* Where a process continues that sleep() returns to, by label.
After(l) == IF l \in {"rsleep", "rslept"} THEN "read" ELSE "tprep"

Asleep(l) == IF l = "rsleep" THEN "rslept" ELSE "tslept"

Sleep(p) ==
    /\ pc[p] \in {"rsleep", "tsleep"}
    /\ Goes(p, IF StillWaiting(p) THEN Asleep(pc[p]) ELSE After(pc[p]))
    /\ UNCHANGED <<cons, lock, uart, rx, handler, chan, killed, locals, bounds>>

Awake(S) ==
    [q \in Proc |-> IF q \in S /\ pc[q] \in {"rslept", "tslept"}
                      THEN After(pc[q]) ELSE pc[q]]

Wakeup(ch) ==
    LET S == {q \in Proc : chan[q] = ch}
    IN  /\ pc' = Awake(S)
        /\ chan' = [q \in Proc |-> IF q \in S THEN None ELSE chan[q]]

\* Nothing more is to be seen of a process that is killed elsewhere.
Kill(p) ==
    /\ ~killed[p]
    /\ pc[p] # "idle"
    /\ kills < MaxKills
    /\ kills' = kills + 1
    /\ killed' = [killed EXCEPT ![p] = TRUE]
    /\ pc' = Awake({p})
    /\ UNCHANGED <<cons, lock, uart, rx, handler, chan, locals, keys, calls>>
-----------------------------------------------------------------------------
(* consolewrite() and uartwrite().                                         *)

Call(p, l, k) ==
    /\ pc[p] = "idle"
    /\ ~killed[p]
    /\ calls < MaxCalls
    /\ calls' = calls + 1
    /\ Goes(p, l)
    /\ n' = [n EXCEPT ![p] = k]
    /\ UNCHANGED <<cons, lock, uart, rx, handler, chan, killed, i, left, keys,
                   kills>>

\* The locals of a call that returns are gone.
Return(p) ==
    /\ Goes(p, "idle")
    /\ n' = [n EXCEPT ![p] = 0]
    /\ i' = [i EXCEPT ![p] = 0]

\* The end of consolewrite()'s loop, or a failing either_copyin().
WriteReturns(p) ==
    /\ pc[p] = "write"
    /\ Return(p)
    /\ UNCHANGED <<cons, lock, uart, rx, handler, chan, killed, left, bounds>>

\* Nobody else has tx_lock.
TxLockFree_Always == TRUE
TxLockFree == \A q \in Proc : left[q] = 0

\* The next batch goes to uartwrite(), which takes tx_lock.
Batch(p) ==
    /\ pc[p] = "write"
    /\ i[p] < n[p]
    /\ TxLockFree
    /\ left' = [left EXCEPT ![p] = Min({BATCH, n[p] - i[p]})]
    /\ Goes(p, "tprep")
    /\ UNCHANGED <<cons, lock, uart, rx, handler, chan, killed, n, i, bounds>>

TxPrepare(p) ==
    /\ pc[p] = "tprep"
    /\ chan' = [chan EXCEPT ![p] = "tx"]
    /\ Goes(p, "ttest")
    /\ UNCHANGED <<cons, lock, uart, rx, handler, killed, locals,
                   bounds>>

TxTest(p) ==
    /\ pc[p] = "ttest"
    /\ Goes(p, IF TxIdle THEN "tput" ELSE "tsleep")
    /\ UNCHANGED <<cons, lock, uart, rx, handler, chan, killed, locals, bounds>>

\* Write the character; the last one of the batch gives up tx_lock.
TxPut(p) ==
    /\ pc[p] = "tput"
    /\ WriteTHR
    /\ i' = [i EXCEPT ![p] = @ + 1]
    /\ left' = [left EXCEPT ![p] = @ - 1]
    /\ Goes(p, IF left[p] = 1 THEN "write" ELSE "tprep")
    /\ UNCHANGED <<cons, lock, rx, handler, chan, killed, n, bounds>>
-----------------------------------------------------------------------------
(* consoleread().                                                          *)

ReadKilled(p) ==
    /\ pc[p] = "read" /\ Locked(p)
    /\ i[p] < n[p] /\ r = w
    /\ killed[p]
    /\ lock' = None
    /\ Return(p)
    /\ UNCHANGED <<cons, uart, rx, handler, chan, killed, left,
                   bounds>>

\* sleep_prepare() runs with cons.lock held.
ReadSleep(p) ==
    /\ pc[p] = "read" /\ Locked(p)
    /\ i[p] < n[p] /\ r = w
    /\ ~killed[p]
    /\ chan' = [chan EXCEPT ![p] = "r"]
    /\ lock' = None
    /\ Goes(p, "rsleep")
    /\ UNCHANGED <<cons, uart, rx, handler, killed, locals, bounds>>

Next1(x) == (x + 1) % CTRMOD

\* A turn of the loop, up to the copy.  ^D ends the read; it stays for the
\* next read when this one has something to return.
ReadEof(p) ==
    /\ pc[p] = "read" /\ Locked(p)
    /\ i[p] < n[p] /\ r # w
    /\ buf[r % INPUT_BUF_SIZE] = "eof"
    /\ r' = IF i[p] > 0 THEN r ELSE Next1(r)
    /\ lock' = None
    /\ Return(p)
    /\ UNCHANGED <<buf, w, e, uart, rx, handler, chan, killed, left,
                   bounds>>

ReadKey(p) ==
    LET c == buf[r % INPUT_BUF_SIZE]
    IN  /\ pc[p] = "read" /\ Locked(p)
        /\ i[p] < n[p] /\ r # w
        /\ c # "eof"
        /\ r' = Next1(r)
        /\ \/ /\ c = "nl" \/ i[p] + 1 = n[p]
              /\ lock' = None
              /\ Return(p)
           \/ /\ c # "nl" /\ i[p] + 1 < n[p]
              /\ lock' = p
              /\ i' = [i EXCEPT ![p] = @ + 1]
              /\ UNCHANGED <<pc, n>>
        /\ UNCHANGED <<buf, w, e, uart, rx, handler, chan, killed, left,
                       bounds>>

\* either_copyout() fails: the key is gone.
ReadFault(p) ==
    /\ pc[p] = "read" /\ Locked(p)
    /\ i[p] < n[p] /\ r # w
    /\ buf[r % INPUT_BUF_SIZE] # "eof"
    /\ r' = Next1(r)
    /\ lock' = None
    /\ Return(p)
    /\ UNCHANGED <<buf, w, e, uart, rx, handler, chan, killed, left,
                   bounds>>
-----------------------------------------------------------------------------
(* consoleintr(c).                                                         *)

Ahead(x, y) == (x - y) % CTRMOD

Room_OffByOne == Ahead(e, r) <= INPUT_BUF_SIZE
Room == Ahead(e, r) < INPUT_BUF_SIZE

Stores(c) == c \notin {"kill", "bs", "ps", "nul"} /\ Room

AsRead(c) == IF c = "cr" THEN "nl" ELSE c

\* The keys that ^U and ^H take back.
Erased(c) ==
    LET edited == Ahead(e, w)
        At(k) == buf[(e - k) % INPUT_BUF_SIZE]
    IN  CASE c = "kill" -> Max({k \in 0..edited :
                                   \A m \in 1..k : At(m) # "nl"})
          [] c = "bs"   -> Min({1, edited})
          [] OTHER      -> 0

\* consputc()s, with the three characters of a BACKSPACE taken together;
\* procdump() prints something.
Echoed(c) ==
    CASE Stores(c) \/ c = "ps" -> 1
      [] OTHER                 -> Erased(c)

Complete(c) == c \in {"nl", "eof"} \/ Ahead(e + 1, r) = INPUT_BUF_SIZE

Announced_Newline(c) == c = "nl"
Announced(c) == Complete(c)

\* The end of consoleintr(), once the echo is out.
Store ==
    LET c == AsRead(hc)
        e1 == IF Stores(hc) THEN Next1(e) ELSE (e - Erased(hc)) % CTRMOD
    IN  /\ hpc = "echo" /\ echo = 0
        /\ e' = e1
        /\ \/ /\ Stores(hc)
              /\ buf' = [buf EXCEPT ![e % INPUT_BUF_SIZE] = c]
              /\ w' = IF Complete(c) THEN e1 ELSE w
              /\ IF Announced(c) THEN Wakeup("r") ELSE UNCHANGED <<pc, chan>>
           \/ /\ ~Stores(hc)
              /\ UNCHANGED <<buf, w, pc, chan>>
        /\ lock' = None
        /\ hpc' = "getc" /\ hc' = None
        /\ UNCHANGED <<r, uart, rx, echo, killed, locals, bounds>>

\* uartputc_sync(): wait for the uart, then write the character.
Echo ==
    /\ \/ /\ hpc = "echo" /\ echo > 0 /\ TxIdle
          /\ hpc' = "put"
          /\ UNCHANGED <<echo, uart>>
       \/ /\ hpc = "put"
          /\ WriteTHR
          /\ echo' = echo - 1
          /\ hpc' = "echo"
    /\ UNCHANGED <<cons, lock, rx, hc, pc, chan, killed, locals,
                   bounds>>
-----------------------------------------------------------------------------
(* uartintr().                                                             *)

\* Reading ISR acknowledges the transmit interrupt; a key that waits keeps
\* the line up.
Interrupt ==
    /\ hpc = "off"
    /\ txirq \/ rx # <<>>
    /\ hpc' = "lsr"
    /\ txirq' = FALSE
    /\ UNCHANGED <<cons, lock, tx, overrun, rx, hc, echo, pc, chan,
                   killed, locals, bounds>>

IntrTx ==
    /\ hpc = "lsr"
    /\ hpc' = "getc"
    /\ IF TxIdle THEN Wakeup("tx") ELSE UNCHANGED <<pc, chan>>
    /\ UNCHANGED <<cons, lock, uart, rx, hc, echo, killed, locals,
                   bounds>>

\* A turn of uartintr()'s loop: uartgetc(), and the beginning of consoleintr().
IntrGetc ==
    /\ hpc = "getc"
    /\ \/ /\ rx = <<>>
          /\ hpc' = "off"
          /\ UNCHANGED <<rx, hc, echo, lock>>
       \/ /\ rx # <<>>
          /\ lock = None
          /\ lock' = "intr"
          /\ rx' = Tail(rx)
          /\ hpc' = "echo" /\ hc' = Head(rx) /\ echo' = Echoed(Head(rx))
    /\ UNCHANGED <<cons, uart, pc, chan, killed, locals, bounds>>
-----------------------------------------------------------------------------
Handler == Interrupt \/ IntrTx \/ IntrGetc \/ Echo \/ Store

Step(p) ==
    \/ Sleep(p)
    \/ Batch(p) \/ TxPrepare(p) \/ TxTest(p) \/ TxPut(p)
    \/ WriteReturns(p)
    \/ ReadKilled(p) \/ ReadSleep(p)
    \/ ReadEof(p) \/ ReadKey(p) \/ ReadFault(p)

Next ==
    \/ \E p \in Proc :
          \/ \E k \in 1..MaxN : Call(p, "read", k) \/ Call(p, "write", k)
          \/ Kill(p)
          \/ Step(p)
    \/ \E c \in Key : Press(c)
    \/ Handler
    \/ Transmit

Spec == Init /\ [][Next]_vars
-----------------------------------------------------------------------------
(* Properties.                                                             *)

Keys(from, to) ==
    [k \in 1..Ahead(to, from) |-> buf[(from + k - 1) % INPUT_BUF_SIZE]]

Lines == INSTANCE LineDiscipline WITH
    Char <- {AsRead(c) : c \in Key},
    Ends <- {"nl", "eof"},
    Capacity <- INPUT_BUF_SIZE,
    line <- Keys(w, e),
    ready <- Keys(r, w)

\* The ring buffer with its three wrapping indexes is a line discipline: ^H
\* and ^U edit the unfinished line and nothing that a reader may have, keys
\* come out in order and once, and a full buffer is always readable.
InputIsLines == Lines!LDSpec

\* No reader sleeps while there is input for it: also when several sleep, and
\* one of them leaves a line half read or pushes a ^D back.
NoMissedLine ==
    \A p \in Proc : pc[p] = "rslept" \/ (pc[p] = "rsleep" /\ chan[p] = "r")
                       => r = w

\* A writer that sleeps until the uart is idle is still to be woken: the uart
\* has something to transmit, or an interrupt is on its way to uartintr()'s
\* test of LSR.  Echoes use the uart in between, without tx_lock.
NoLostTransmit ==
    \A p \in Proc : pc[p] = "tslept" => tx > 0 \/ txirq \/ hpc = "lsr"

\* Two harts may both see the transmitter idle and then both write THR.  With
\* tx_lock, and one uartintr() at a time, they are two, and a FIFO of two
\* places is enough: no character of a write() or an echo is lost.
NoOverrun == ~overrun
=============================================================================
