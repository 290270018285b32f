----------------------------- MODULE ProcTable -----------------------------
(***************************************************************************)
(* The life cycle of processes in the riscv64 port                         *)
(* (forks/riscv64/kernel/proc.c and trap.c): kfork(), kexit(), kwait(),    *)
(* kkill() and the killed checks of usertrap(), running on the scheduler   *)
(* of module Sched and synchronised by wait_lock.                          *)
(*                                                                         *)
(* Slot 1 is init.  A pid names one life of a slot, so kill(pid) is given  *)
(* the slot, or 0 for the pid 0 that every UNUSED slot carries.  Memory,   *)
(* files and exit statuses are left out.                                   *)
(***************************************************************************)
EXTENDS Sched

CONSTANTS
    Targets,    \* arguments of kill() in this workload: slots, and 0
    MaxCalls    \* bound: system calls made by processes other than init

ASSUME ProcTableAssumption ==
    /\ NPROC >= 2
    /\ Targets \subseteq 0..NPROC \ {1}  \* kill(1) makes the kernel panic
    /\ MaxCalls \in Nat

Initproc == 1

VARIABLES
    parent,     \* p->parent, None when cleared
    wlock,      \* the holder of wait_lock, or None
    child,      \* kfork()'s np
    scan,       \* kwait()'s pp
    kids,       \* kwait()'s havekids
    calls,      \* system calls made so far
    named       \* history: kill() was called with the pid of this life

lifeVars == <<parent, wlock, child, scan, kids, calls, named>>
vars == <<schedVars, lifeVars>>

Init ==
    /\ state = [p \in Slot |-> IF p = Initproc THEN "RUNNABLE" ELSE "UNUSED"]
    /\ chan = [p \in Slot |-> 0]
    /\ killed = [p \in Slot |-> FALSE]
    /\ locked = {}
    /\ cpu = [c \in CPU |-> None]
    /\ pc = [p \in Slot |-> "resume"]
    /\ ret = [p \in Slot |-> "user"]
    /\ wk = [p \in Slot |-> NoWakeup]
    /\ parent = [p \in Slot |-> None]
    /\ wlock = None
    /\ child = [p \in Slot |-> None]
    /\ scan = [p \in Slot |-> 1]
    /\ kids = [p \in Slot |-> FALSE]
    /\ calls = 0
    /\ named = [p \in Slot |-> FALSE]

Children(p) == {q \in Slot : parent[q] = p}

\* acquire(&wait_lock), on the way to label l.
AcquireWaitLock(p, from, l) ==
    /\ At(p, from)
    /\ wlock = None
    /\ wlock' = p
    /\ Jump(p, l)
-----------------------------------------------------------------------------
(* Traps from user space.                                                  *)

\* A process in user space traps; usertrap() lets it into a system call
\* only if it has not been killed.
Trap(p) ==
    /\ At(p, "user")
    /\ ~killed[p]
    /\ p # Initproc => calls < MaxCalls
    /\ calls' = IF p = Initproc THEN calls ELSE calls + 1
    /\ Jump(p, "call")
    /\ UNCHANGED <<state, chan, killed, locked, cpu, ret, wk, parent, wlock,
                   child, scan, kids, named>>

\* syscall(): whatever has happened since the test, a kill too, the call runs.
Call(p, l) ==
    /\ At(p, "call")
    /\ Jump(p, l)
    /\ UNCHANGED calls

\* usertrap()'s killed checks, on entry to and exit from the kernel.
TrapKilled(p) ==
    /\ At(p, "user")
    /\ killed[p]
    /\ p # Initproc
    /\ Jump(p, "exit")
    /\ UNCHANGED <<state, chan, killed, locked, cpu, ret, wk, lifeVars>>

Preempt(p) ==
    /\ wlock # p
    /\ Yield(p)
    /\ UNCHANGED lifeVars
\* freeproc(): what it resets, of the fields modelled here.
Freed(q) ==
    /\ state' = [state EXCEPT ![q] = "UNUSED"]
    /\ chan' = [chan EXCEPT ![q] = 0]
    /\ killed' = [killed EXCEPT ![q] = FALSE]
-----------------------------------------------------------------------------
(* kfork().                                                                *)

\* allocproc() finds a slot and the copying under np->lock succeeds.
Fork(p, q) ==
    /\ Call(p, "fork_parent")
    /\ state[q] = "UNUSED"
    /\ q \notin locked
    /\ state' = [state EXCEPT ![q] = "USED"]
    /\ ret' = [ret EXCEPT ![q] = "user"]
    /\ child' = [child EXCEPT ![p] = q]
    /\ named' = [named EXCEPT ![q] = FALSE]
    /\ UNCHANGED <<chan, killed, locked, cpu, wk, parent, wlock, scan, kids>>

\* allocproc() finds no slot.
ForkNoSlot(p) ==
    /\ Call(p, "user")
    /\ UNCHANGED <<state, chan, killed, locked, cpu, ret, wk, parent, wlock,
                   child, scan, kids, named>>

\* Memory runs out after allocproc() has taken slot q: freeproc(q).
ForkNoMemory(p, q) ==
    /\ Call(p, "user")
    /\ state[q] = "UNUSED"
    /\ q \notin locked
    /\ Freed(q)
    /\ UNCHANGED <<locked, cpu, ret, wk, parent, wlock, child, scan, kids,
                   named>>

\* np->parent = p, a critical section of wait_lock.
ForkParent(p) ==
    /\ At(p, "fork_parent")
    /\ wlock = None
    /\ parent' = [parent EXCEPT ![child[p]] = p]
    /\ Jump(p, "fork_run")
    /\ UNCHANGED <<state, chan, killed, locked, cpu, ret, wk, wlock, child,
                   scan, kids, calls, named>>

ForkRun(p) ==
    /\ At(p, "fork_run")
    /\ child[p] \notin locked
    /\ state' = [state EXCEPT ![child[p]] = "RUNNABLE"]
    /\ child' = [child EXCEPT ![p] = None]
    /\ Jump(p, "user")
    /\ UNCHANGED <<chan, killed, locked, cpu, ret, wk, parent, wlock, scan,
                   kids, calls, named>>
-----------------------------------------------------------------------------
(* kexit().                                                                *)

\* exit(), or a fault: usertrap() calls setkilled() and kexit() itself.
CallExit(p) ==
    /\ p # Initproc
    /\ Call(p, "exit")
    /\ UNCHANGED <<state, chan, killed, locked, cpu, ret, wk, parent, wlock,
                   child, scan, kids, named>>

ExitLock(p) ==
    /\ AcquireWaitLock(p, "exit", "exit_reparent")
    /\ UNCHANGED <<state, chan, killed, locked, cpu, ret, wk, parent, child,
                   scan, kids, calls, named>>

\* reparent(): every slot's parent once p's children belong to init.
Reparented_Missing(p) == parent
Reparented(p) ==
    [q \in Slot |-> IF parent[q] = p THEN Initproc ELSE parent[q]]

\* reparent() hands the children over and wakes init if there are any.
Reparent(p) ==
    /\ At(p, "exit_reparent")
    /\ parent' = Reparented(p)
    /\ IF Children(p) # {}
         THEN StartWakeup(p, Initproc, "exit_wakeup")
         ELSE Jump(p, "exit_wakeup") /\ UNCHANGED wk
    /\ UNCHANGED <<state, chan, killed, locked, cpu, ret, wlock, child, scan,
                   kids, calls, named>>

\* wakeup(p->parent).
ExitWakeup(p) ==
    /\ At(p, "exit_wakeup")
    /\ StartWakeup(p, parent[p], "exit_zombie")
    /\ UNCHANGED <<state, chan, killed, locked, cpu, ret, lifeVars>>

\* p->state = ZOMBIE under p->lock, release(&wait_lock), sched().
ExitZombie(p) ==
    /\ At(p, "exit_zombie")
    /\ SwitchAway(p, "ZOMBIE", "user")
    /\ wlock' = None
    /\ UNCHANGED <<chan, killed, cpu, wk, parent, child, scan, kids, calls,
                   named>>
-----------------------------------------------------------------------------
(* kwait().                                                                *)

CallWait(p) ==
    /\ p = Initproc => Children(p) # {}
    /\ Call(p, "wait")
    /\ UNCHANGED <<state, chan, killed, locked, cpu, ret, wk, parent, wlock,
                   child, scan, kids, named>>

WaitLock(p) ==
    /\ AcquireWaitLock(p, "wait", "wait_scan")
    /\ scan' = [scan EXCEPT ![p] = 1]
    /\ kids' = [kids EXCEPT ![p] = FALSE]
    /\ UNCHANGED <<state, chan, killed, locked, cpu, ret, wk, parent, child,
                   calls, named>>

\* kwait() takes pp->lock before it looks at pp->state.
ChildQuiet_Unlocked(q) == TRUE
ChildQuiet(q) == q \notin locked

\* One slot of the scan that is not a zombie child.
WaitSlot(p) ==
    LET q == scan[p]
    IN  /\ At(p, "wait_scan")
        /\ q \in Slot
        /\ parent[q] = p => ChildQuiet(q) /\ state[q] # "ZOMBIE"
        /\ kids' = [kids EXCEPT ![p] = @ \/ parent[q] = p]
        /\ scan' = [scan EXCEPT ![p] = q + 1]
        /\ UNCHANGED <<schedVars, parent, wlock, child, calls, named>>

ZombieFound(p) ==
    /\ At(p, "wait_scan")
    /\ scan[p] \in Slot
    /\ parent[scan[p]] = p
    /\ ChildQuiet(scan[p])
    /\ state[scan[p]] = "ZOMBIE"

Reap(p) ==
    /\ ZombieFound(p)
    /\ Freed(scan[p])
    /\ parent' = [parent EXCEPT ![scan[p]] = None]
    /\ wlock' = None
    /\ Jump(p, "user")
    /\ UNCHANGED <<locked, cpu, ret, wk, child, scan, kids, calls, named>>

\* copyout() of the exit status fails; init passes no address.
ReapFails(p) ==
    /\ p # Initproc
    /\ ZombieFound(p)
    /\ wlock' = None
    /\ Jump(p, "user")
    /\ UNCHANGED <<state, chan, killed, locked, cpu, ret, wk, parent, child,
                   scan, kids, calls, named>>

WaitNoKids(p) ==
    /\ At(p, "wait_scan")
    /\ scan[p] > NPROC
    /\ ~kids[p] \/ killed[p]
    /\ wlock' = None
    /\ Jump(p, "user")
    /\ UNCHANGED <<state, chan, killed, locked, cpu, ret, wk, parent, child,
                   scan, kids, calls, named>>

\* sleep_prepare(p), still under wait_lock.
WaitPrepare(p) ==
    /\ At(p, "wait_scan")
    /\ scan[p] > NPROC
    /\ kids[p] /\ ~killed[p]
    /\ SleepPrepare(p, p)
    /\ Jump(p, "wait_release")
    /\ UNCHANGED <<state, killed, locked, cpu, ret, wk, lifeVars>>

WaitRelease(p) ==
    /\ At(p, "wait_release")
    /\ wlock' = None
    /\ Jump(p, "wait_sleep")
    /\ UNCHANGED <<state, chan, killed, locked, cpu, ret, wk, parent, child,
                   scan, kids, calls, named>>

WaitSleep(p) ==
    /\ Sleep(p, "wait_sleep", "wait")
    /\ UNCHANGED lifeVars
-----------------------------------------------------------------------------
(* kkill(): the scan stops at the first slot whose pid matches.  Every     *)
(* UNUSED slot has pid 0.                                                  *)

Victim(t) ==
    IF t # 0
      THEN {q \in {t} : state[q] # "UNUSED"}
      ELSE {q \in Slot : /\ state[q] = "UNUSED"
                         /\ \A r \in 1..(q - 1) : state[r] # "UNUSED"}

Kill(p, t) ==
    /\ Call(p, "user")
    /\ \E q \in Victim(t) :
          /\ KillSlot(q)
          /\ named' = [named EXCEPT ![q] = (t = q)]
    /\ UNCHANGED <<chan, locked, cpu, ret, wk, parent, wlock, child, scan, kids>>
-----------------------------------------------------------------------------
\* Steps a process takes on its own once it is in the kernel.
KernelStep(p) ==
    \/ WakeupSlot(p) /\ UNCHANGED lifeVars
    \/ WakeupDone(p) /\ UNCHANGED lifeVars
    \/ TrapKilled(p)
    \/ ForkParent(p)
    \/ ForkRun(p)
    \/ ExitLock(p)
    \/ Reparent(p)
    \/ ExitWakeup(p)
    \/ ExitZombie(p)
    \/ WaitLock(p)
    \/ WaitSlot(p)
    \/ Reap(p)
    \/ ReapFails(p)
    \/ WaitNoKids(p)
    \/ WaitPrepare(p)
    \/ WaitRelease(p)
    \/ WaitSleep(p)

UserCall(p) ==
    \/ Trap(p)
    \/ \E q \in Slot : Fork(p, q) \/ ForkNoMemory(p, q)
    \/ ForkNoSlot(p)
    \/ CallExit(p)
    \/ CallWait(p)
    \/ \E t \in Targets : Kill(p, t)

Return(p) == Resume(p) /\ UNCHANGED lifeVars
Leave(c)  == SwitchOut(c) /\ UNCHANGED lifeVars
Enter(c, p) == Schedule(c, p) /\ UNCHANGED lifeVars

Next ==
    \/ \E p \in Slot : KernelStep(p) \/ UserCall(p) \/ Return(p) \/ Preempt(p)
    \/ \E c \in CPU : Leave(c) \/ \E p \in Slot : Enter(c, p)

Spec == Init /\ [][Next]_vars

\* Each hart's scheduler() loops over the whole table, so a process that is
\* RUNNABLE again and again is run; a process that is run again and again
\* executes, the timer being slower than the processor; init keeps trapping
\* to wait for its children.
Fairness ==
    /\ \A c \in CPU : WF_vars(Leave(c))
    /\ \A p \in Slot :
          /\ SF_vars(\E c \in CPU : Enter(c, p))
          /\ WF_vars(Return(p))
          /\ SF_vars(KernelStep(p) \/ (p = Initproc /\ Trap(p)))
          /\ WF_vars(Preempt(p))
    /\ SF_vars(CallWait(Initproc))

FairSpec == Spec /\ Fairness
-----------------------------------------------------------------------------
(* Properties.                                                             *)

\* kwait() frees a child only when no hart is still on the child's kernel
\* stack or about to run it: "make sure the child isn't still in exit() or
\* swtch()".
FreedIsQuiet == \A p \in Slot : state[p] \in {"UNUSED", "USED"} => ~Running(p)

\* Whoever holds wait_lock next finds every living process with a parent
\* that can still wait for it: no child of an exited process is forgotten.
ParentsAlive ==
    wlock = None =>
        \A p \in Slot \ {Initproc} :
            /\ state[p] \in {"SLEEPING", "RUNNABLE", "RUNNING", "ZOMBIE"} =>
                  /\ parent[p] # None
                  /\ state[parent[p]] \notin {"UNUSED", "USED", "ZOMBIE"}
            /\ state[p] = "UNUSED" => parent[p] = None

\* A process that is marked killed was the target of a kill() that gave its
\* own pid: "Kill the process with the given pid."
KilledByPid == \A p \in Slot : killed[p] /\ state[p] # "UNUSED" => named[p]

\* No wakeup between kexit(), reparent() and kwait() is lost: a process that
\* exits, or has exited, as a child of init is reaped.
ExitIsReaped ==
    \A p \in Slot :
        (pc[p] = "exit" \/ state[p] = "ZOMBIE") /\ parent[p] = Initproc
            ~> state[p] = "UNUSED"
=============================================================================
