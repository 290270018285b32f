------------------------------- MODULE Sched -------------------------------
(***************************************************************************)
(* Context switching and sleep/wakeup of the riscv64 port                  *)
(* (forks/riscv64/kernel/proc.c): scheduler(), sched(), yield(),           *)
(* sleep_prepare(), sleep(), wakeup() and kkill(), with the hand-over of   *)
(* p->lock between a process's kernel thread and the scheduler thread of   *)
(* the CPU it runs on.                                                     *)
(*                                                                         *)
(* A critical section of p->lock that ends in release() is one action,     *)
(* enabled when the lock is free.  Only a section that goes through swtch()*)
(* spans several actions; `locked' holds the processes whose lock is held  *)
(* that way.  A module that EXTENDS this one supplies the kernel code that *)
(* the processes run, as labels of pc; label "wakeup" is a pass of         *)
(* wakeup() over the process table.                                        *)
(***************************************************************************)
EXTENDS Integers, FiniteSets

CONSTANTS
    NPROC,      \* slots of the process table
    CPU,        \* the harts
    None        \* no process

ASSUME SchedAssumption ==
    /\ NPROC \in Nat \ {0}
    /\ None \notin 1..NPROC

Slot == 1..NPROC

VARIABLES
    state,      \* p->state
    chan,       \* p->chan, 0 when not registered for a wakeup
    killed,     \* p->killed
    locked,     \* slots whose p->lock is held across a context switch
    cpu,        \* the process whose kernel thread is on each hart
    pc,         \* what each kernel thread does next
    ret,        \* where it continues after swtch() brings it back
    wk          \* wakeup() in progress: channel, next slot, continuation

schedVars == <<state, chan, killed, locked, cpu, pc, ret, wk>>

NoWakeup == [ch |-> 0, i |-> 0, next |-> "user"]

Running(p) == \E c \in CPU : cpu[c] = p

\* Process p's kernel thread is at label l and may take its step.
At(p, l) == pc[p] = l /\ Running(p)

Jump(p, l) == pc' = [pc EXCEPT ![p] = l]
-----------------------------------------------------------------------------
(* Context switches.                                                       *)

\* scheduler() finds p RUNNABLE, marks it RUNNING and switches to it.
Schedule(c, p) ==
    /\ cpu[c] = None
    /\ state[p] = "RUNNABLE"
    /\ p \notin locked
    /\ locked' = locked \union {p}
    /\ state' = [state EXCEPT ![p] = "RUNNING"]
    /\ cpu' = [cpu EXCEPT ![c] = p]
    /\ UNCHANGED <<chan, killed, pc, ret, wk>>

\* Back from swtch(), or at the start of forkret(): release(&p->lock).
Resume(p) ==
    /\ At(p, "resume")
    /\ locked' = locked \ {p}
    /\ Jump(p, ret[p])
    /\ UNCHANGED <<state, chan, killed, cpu, ret, wk>>

\* The section that sched() ends keeps p->lock until the scheduler thread
\* has left p's kernel stack.
KeepLock_Early(p) == locked
KeepLock(p) == locked \union {p}

\* p gives up its CPU in state s, to continue at label l.
SwitchAway(p, s, l) ==
    /\ p \notin locked
    /\ locked' = KeepLock(p)
    /\ state' = [state EXCEPT ![p] = s]
    /\ ret' = [ret EXCEPT ![p] = l]
    /\ Jump(p, "swtch")

\* swtch() back in scheduler(): c->proc = 0; release(&p->lock).
SwitchOut(c) ==
    LET p == cpu[c]
    IN  /\ p # None
        /\ pc[p] = "swtch"
        /\ cpu' = [cpu EXCEPT ![c] = None]
        /\ locked' = locked \ {p}
        /\ Jump(p, "resume")
        /\ UNCHANGED <<state, chan, killed, ret, wk>>

\* A timer interrupt taken while p holds no spinlock.
Yield(p) ==
    /\ Running(p)
    /\ pc[p] \notin {"resume", "swtch"}
    /\ SwitchAway(p, "RUNNABLE", pc[p])
    /\ UNCHANGED <<chan, killed, cpu, wk>>
-----------------------------------------------------------------------------
(* Sleep and wakeup.                                                       *)

SleepPrepare(p, ch) ==
    /\ p \notin locked
    /\ chan' = [chan EXCEPT ![p] = ch]

\* sleep() tests p->chan again: a wakeup since sleep_prepare() cleared it.
StillWaiting_Unchecked(p) == TRUE
StillWaiting(p) == chan[p] # 0

Sleep(p, from, next) ==
    /\ At(p, from)
    /\ p \notin locked
    /\ \/ /\ StillWaiting(p)
          /\ SwitchAway(p, "SLEEPING", next)
       \/ /\ ~StillWaiting(p)
          /\ Jump(p, next)
          /\ UNCHANGED <<state, locked, ret>>
    /\ UNCHANGED <<chan, killed, cpu, wk>>

\* wakeup(ch) begins; p continues at label next when the table is done.
StartWakeup(p, ch, next) ==
    /\ wk' = [wk EXCEPT ![p] = [ch |-> ch, i |-> 1, next |-> next]]
    /\ Jump(p, "wakeup")

Awake(q) ==
    IF state[q] = "SLEEPING" THEN [state EXCEPT ![q] = "RUNNABLE"] ELSE state

\* wakeup() at one slot of the table.
WakeupSlot(p) ==
    LET q == wk[p].i
        hit == chan[q] = wk[p].ch
    IN  /\ At(p, "wakeup")
        /\ q \in Slot
        /\ q \notin locked
        /\ chan' = IF hit THEN [chan EXCEPT ![q] = 0] ELSE chan
        /\ state' = IF hit THEN Awake(q) ELSE state
        /\ wk' = [wk EXCEPT ![p].i = q + 1]
        /\ UNCHANGED <<killed, locked, cpu, pc, ret>>

WakeupDone(p) ==
    /\ At(p, "wakeup")
    /\ wk[p].i > NPROC
    /\ Jump(p, wk[p].next)
    /\ wk' = [wk EXCEPT ![p] = NoWakeup]
    /\ UNCHANGED <<state, chan, killed, locked, cpu, ret>>

\* kkill() takes its victim out of sleep().
Roused_Always(q) == [state EXCEPT ![q] = "RUNNABLE"]
Roused(q) == Awake(q)

\* kkill() at the slot that has the pid; the victim stays registered on its
\* channel.
KillSlot(q) ==
    /\ q \notin locked
    /\ killed' = [killed EXCEPT ![q] = TRUE]
    /\ state' = Roused(q)
-----------------------------------------------------------------------------
(* Properties that hold whatever kernel code the processes run.            *)

\* A kernel stack is never in use by two harts, and never scheduled before
\* the hart that ran it last has left it: p->lock covers the whole switch.
OneHartPerStack ==
    \A c, d \in CPU : cpu[c] = cpu[d] /\ cpu[c] # None => c = d

\* p->state tells the truth to whoever reads it under p->lock.
StateIsAccurate ==
    \A p \in Slot \ locked : state[p] = "RUNNING" <=> Running(p)
=============================================================================
