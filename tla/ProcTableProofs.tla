-------------------------- MODULE ProcTableProofs --------------------------
(***************************************************************************)
(* For any number of slots and harts: no kernel stack is in use by two     *)
(* harts, p->state is accurate whenever p->lock is free, and a slot is     *)
(* freed only when no hart is on its stack.                                *)
(*                                                                         *)
(* None of the three is inductive alone.  The invariant HandOver says what *)
(* p->lock protects across swtch(): the lock is held exactly while the     *)
(* process is on a hart but on its way in ("resume") or out ("swtch"), and *)
(* what p->state may be at those two points.                               *)
(*                                                                         *)
(* LifeInv does the same for wait_lock and p->parent: a parent is alive,   *)
(* and has no child left once its kexit() is past reparent().              *)
(***************************************************************************)
EXTENDS ProcTable, TLAPS

States == {"UNUSED", "USED", "SLEEPING", "RUNNABLE", "RUNNING", "ZOMBIE"}
Parked == {"resume", "swtch"}
Work == {"user", "call", "wakeup", "fork_parent", "fork_run", "exit", "exit_reparent",
         "exit_wakeup", "exit_zombie", "wait", "wait_scan", "wait_release",
         "wait_sleep"}

Types ==
    /\ state \in [Slot -> States]
    /\ locked \subseteq Slot
    /\ cpu \in [CPU -> Slot \union {None}]
    /\ pc \in [Slot -> Work \union Parked]
    /\ ret \in [Slot -> Work]
    /\ wk \in [Slot -> [ch : Slot \union {0, None}, i : Nat, next : Work]]
    /\ parent \in [Slot -> Slot \union {None}]
    /\ child \in [Slot -> Slot \union {None}]

\* p->lock is held exactly across the switches.
LockSpansSwitch == \A p \in Slot : p \in locked <=> Running(p) /\ pc[p] \in Parked

\* Only a process that waits in swtch() to be resumed is off the harts.
OffIsParked == \A p \in Slot : pc[p] # "resume" => Running(p)

\* p->state on the way in and on the way out.
StateInSwitch ==
    \A p \in locked :
        /\ pc[p] = "resume" => state[p] = "RUNNING"
        /\ pc[p] = "swtch" => state[p] \in {"RUNNABLE", "SLEEPING", "ZOMBIE"}

\* The slot that kfork() has allocated and not yet made RUNNABLE is its own.
ForkOwnsSlot ==
    /\ \A p \in Slot : child[p] # None => state[child[p]] = "USED"
    /\ \A p, q \in Slot : child[p] = child[q] /\ child[p] # None => p = q

HandOver ==
    /\ Types
    /\ OneHartPerStack
    /\ StateIsAccurate
    /\ LockSpansSwitch
    /\ OffIsParked
    /\ StateInSwitch
    /\ ForkOwnsSlot

WakeupRecord == [ch : Slot \union {0, None}, i : Nat, next : Work]
-----------------------------------------------------------------------------
LEMMA InitHandOver == Init => HandOver
<1> SUFFICES ASSUME Init PROVE HandOver
  OBVIOUS
<1> USE SchedAssumption, ProcTableAssumption DEF Init, Slot
<1>1. Types
  BY DEF Types, States, Parked, Work, NoWakeup, Initproc
<1>2. \A p \in Slot : ~Running(p)
  BY DEF Running
<1>3. OneHartPerStack /\ StateIsAccurate
  BY <1>2 DEF OneHartPerStack, StateIsAccurate, Initproc
<1>4. LockSpansSwitch /\ OffIsParked /\ StateInSwitch /\ ForkOwnsSlot
  BY <1>2 DEF LockSpansSwitch, OffIsParked, StateInSwitch, ForkOwnsSlot
<1> QED
  BY <1>1, <1>3, <1>4 DEF HandOver

\* A process moves on in its own kernel code.
LEMMA LocalMove ==
    ASSUME HandOver, NEW p \in Slot, NEW l \in Work,
           Running(p), pc[p] \in Work,
           pc' = [pc EXCEPT ![p] = l],
           UNCHANGED <<state, locked, cpu, ret, child>>,
           wk' \in [Slot -> WakeupRecord],
           parent' \in [Slot -> Slot \union {None}]
    PROVE  HandOver'
<1> USE DEF HandOver
<1>1. Types'
  BY DEF Types, WakeupRecord
<1>2. \A q \in Slot : Running(q)' <=> Running(q)
  BY DEF Running
<1>3. OneHartPerStack' /\ StateIsAccurate'
  BY <1>2 DEF OneHartPerStack, StateIsAccurate
<1>4. l \notin Parked /\ pc[p] \notin Parked
  BY DEF Work, Parked
<1>5. LockSpansSwitch' /\ OffIsParked' /\ StateInSwitch'
  BY <1>2, <1>4 DEF LockSpansSwitch, OffIsParked, StateInSwitch, Types, Parked
<1>6. ForkOwnsSlot'
  BY DEF ForkOwnsSlot
<1> QED
  BY <1>1, <1>3, <1>5, <1>6

\* A process changes the state of another slot, whose lock it can take, and
\* neither the old nor the new state is RUNNING.
LEMMA StateMove ==
    ASSUME HandOver, NEW p \in Slot, NEW l \in Work, NEW q \in Slot, NEW s \in States,
           Running(p), pc[p] \in Work,
           q \notin locked, state[q] # "RUNNING", s # "RUNNING",
           state' = [state EXCEPT ![q] = s],
           pc' = [pc EXCEPT ![p] = l],
           UNCHANGED <<locked, cpu>>,
           ret' \in [Slot -> Work],
           wk' \in [Slot -> WakeupRecord],
           parent' \in [Slot -> Slot \union {None}],
           child' \in [Slot -> Slot \union {None}],
           ForkOwnsSlot'
    PROVE  HandOver'
<1> USE DEF HandOver
<1>1. Types'
  BY DEF Types, WakeupRecord
<1>2. \A r \in Slot : Running(r)' <=> Running(r)
  BY DEF Running
<1>3. OneHartPerStack'
  BY DEF OneHartPerStack
<1>4. StateIsAccurate'
  BY <1>2 DEF StateIsAccurate, Types
<1>5. l \notin Parked /\ pc[p] \notin Parked
  BY DEF Work, Parked
<1>6. LockSpansSwitch' /\ OffIsParked' /\ StateInSwitch'
  BY <1>2, <1>5 DEF LockSpansSwitch, OffIsParked, StateInSwitch, Types, Parked
<1> QED
  BY <1>1, <1>3, <1>4, <1>6

\* A process enters sched().
LEMMA SwitchAwayMove ==
    ASSUME HandOver, NEW p \in Slot, NEW l \in Work,
           NEW s \in {"RUNNABLE", "SLEEPING", "ZOMBIE"},
           Running(p), pc[p] \in Work, SwitchAway(p, s, l),
           UNCHANGED <<cpu, wk, parent, child>>
    PROVE  HandOver'
<1> USE DEF HandOver, SwitchAway, KeepLock, Jump
<1>1. Types'
  BY DEF Types, States, Parked
<1>2. \A r \in Slot : Running(r)' <=> Running(r)
  BY DEF Running
<1>3. OneHartPerStack'
  BY DEF OneHartPerStack
<1>4. StateIsAccurate'
  BY <1>2 DEF StateIsAccurate, Types
<1>5. LockSpansSwitch' /\ OffIsParked'
  BY <1>2 DEF LockSpansSwitch, OffIsParked, Types, Parked
<1>6. StateInSwitch'
  BY DEF StateInSwitch, Types
<1>7. ForkOwnsSlot'
  <2>1. state[p] = "RUNNING"
    BY DEF StateIsAccurate
  <2> QED
    BY <2>1 DEF ForkOwnsSlot, Types
<1> QED
  BY <1>1, <1>3, <1>4, <1>5, <1>6, <1>7
-----------------------------------------------------------------------------
LEMMA ScheduleHandOver ==
    ASSUME HandOver, NEW c \in CPU, NEW p \in Slot, Enter(c, p) PROVE HandOver'
<1> USE SchedAssumption DEF HandOver, Enter, Schedule, lifeVars
<1>1. Types'
  BY DEF Types, States
<1>2. ~Running(p)
  BY DEF StateIsAccurate
<1>3. \A r \in Slot : Running(r)' <=> Running(r) \/ r = p
  <2>1. p # None
    BY DEF Slot
  <2> QED
    BY <2>1 DEF Running, Types, Slot
<1>4. OneHartPerStack'
  BY <1>2 DEF OneHartPerStack, Running, Types
<1>5. pc[p] = "resume"
  BY <1>2 DEF OffIsParked
<1>6. StateIsAccurate' /\ LockSpansSwitch' /\ OffIsParked' /\ StateInSwitch'
  BY <1>2, <1>3, <1>5
     DEF StateIsAccurate, LockSpansSwitch, OffIsParked, StateInSwitch, Types, Parked
<1>7. ForkOwnsSlot'
  BY DEF ForkOwnsSlot, Types
<1> QED
  BY <1>1, <1>4, <1>6, <1>7

LEMMA ResumeHandOver ==
    ASSUME HandOver, NEW p \in Slot, Return(p) PROVE HandOver'
<1> USE DEF HandOver, Return, Resume, At, Jump, lifeVars
<1>1. Types'
  BY DEF Types
<1>2. \A r \in Slot : Running(r)' <=> Running(r)
  BY DEF Running
<1>3. p \in locked /\ state[p] = "RUNNING"
  BY DEF LockSpansSwitch, StateInSwitch, Parked
<1>4. ret[p] \notin Parked
  BY DEF Types, Work, Parked
<1>5. OneHartPerStack' /\ ForkOwnsSlot'
  BY DEF OneHartPerStack, ForkOwnsSlot
<1>6. StateIsAccurate' /\ LockSpansSwitch' /\ OffIsParked' /\ StateInSwitch'
  BY <1>2, <1>3, <1>4
     DEF StateIsAccurate, LockSpansSwitch, OffIsParked, StateInSwitch, Types, Parked
<1> QED
  BY <1>1, <1>5, <1>6

LEMMA SwitchOutHandOver ==
    ASSUME HandOver, NEW c \in CPU, Leave(c) PROVE HandOver'
<1> USE SchedAssumption DEF HandOver, Leave, SwitchOut, Jump, lifeVars
<1> DEFINE p == cpu[c]
<1>1. p \in Slot /\ Running(p) /\ pc[p] = "swtch"
  BY DEF Types, Running
<1>2. p \in locked /\ state[p] \in {"RUNNABLE", "SLEEPING", "ZOMBIE"}
  BY <1>1 DEF LockSpansSwitch, StateInSwitch, Parked
<1>3. Types'
  BY <1>1 DEF Types, Parked
<1>4. \A r \in Slot : Running(r)' <=> Running(r) /\ r # p
  <2>1. None \notin Slot
    BY DEF Slot
  <2> QED
    BY <1>1, <2>1 DEF Running, Types, OneHartPerStack
<1>5. OneHartPerStack'
  BY DEF OneHartPerStack, Types
<1>6. StateIsAccurate' /\ LockSpansSwitch' /\ OffIsParked' /\ StateInSwitch'
  BY <1>1, <1>2, <1>4
     DEF StateIsAccurate, LockSpansSwitch, OffIsParked, StateInSwitch, Types, Parked
<1>7. ForkOwnsSlot'
  BY DEF ForkOwnsSlot
<1> QED
  BY <1>3, <1>5, <1>6, <1>7
-----------------------------------------------------------------------------
\* kkill() and wakeup() turn a sleeping slot RUNNABLE and leave others alone.
LEMMA AwakeMove ==
    ASSUME HandOver, NEW p \in Slot, NEW l \in Work, NEW q \in Slot,
           Running(p), pc[p] \in Work,
           q \notin locked,
           state' = Awake(q) \/ state' = state,
           pc' = [pc EXCEPT ![p] = l],
           UNCHANGED <<locked, cpu, ret, parent, child>>,
           wk' \in [Slot -> WakeupRecord]
    PROVE  HandOver'
<1>1. CASE state' = state
  BY <1>1, LocalMove DEF HandOver, Types
<1>2. CASE state' = Awake(q) /\ state[q] # "SLEEPING"
  BY <1>2, LocalMove DEF HandOver, Types, Awake
<1>3. CASE state' = Awake(q) /\ state[q] = "SLEEPING"
  <2>1. state' = [state EXCEPT ![q] = "RUNNABLE"]
    BY <1>3 DEF Awake
  <2>2. ForkOwnsSlot'
    BY <1>3, <2>1 DEF HandOver, ForkOwnsSlot, Types
  <2>3. "RUNNABLE" \in States
    BY DEF States
  <2> QED
    BY <1>3, <2>1, <2>2, <2>3, StateMove DEF HandOver, Types
<1> QED
  BY <1>1, <1>2, <1>3

LEMMA KernelStepHandOver ==
    ASSUME HandOver, NEW p \in Slot, KernelStep(p) PROVE HandOver'
<1> USE SchedAssumption, ProcTableAssumption DEF At, Jump
<1>t. Types
  BY DEF HandOver
<1>w. Initproc \in Slot /\ NoWakeup \in WakeupRecord
  BY DEF Initproc, Slot, NoWakeup, WakeupRecord, Work
<1>1. CASE WakeupSlot(p) /\ UNCHANGED lifeVars
  <2> DEFINE q == wk[p].i
  <2>1. q \in Slot /\ q \notin locked /\ (state' = Awake(q) \/ state' = state)
    BY <1>1 DEF WakeupSlot
  <2>2. wk' \in [Slot -> WakeupRecord]
    <3>1. wk \in [Slot -> WakeupRecord]
      BY <1>t DEF Types, WakeupRecord
    <3>2. q + 1 \in Nat
      BY <2>1 DEF Slot
    <3>3. [wk[p] EXCEPT !.i = q + 1] \in WakeupRecord
      BY <3>1, <3>2 DEF WakeupRecord
    <3>4. wk' = [wk EXCEPT ![p] = [wk[p] EXCEPT !.i = q + 1]]
      BY <1>1, <3>1 DEF WakeupSlot
    <3> QED
      BY <3>1, <3>3, <3>4
  <2>3. pc' = [pc EXCEPT ![p] = "wakeup"] /\ pc[p] = "wakeup"
    BY <1>1, <1>t DEF WakeupSlot, Types
  <2>4. Running(p) /\ UNCHANGED <<locked, cpu, ret, parent, child>>
    BY <1>1 DEF WakeupSlot, lifeVars
  <2>5. "wakeup" \in Work
    BY DEF Work
  <2> QED
    BY <2>1, <2>2, <2>3, <2>4, <2>5, AwakeMove
<1>2. CASE WakeupDone(p) /\ UNCHANGED lifeVars
  <2>1. wk[p].next \in Work /\ pc[p] \in Work
    BY <1>2, <1>t DEF WakeupDone, Types, Work
  <2>2. wk' \in [Slot -> WakeupRecord] /\ parent' \in [Slot -> Slot \union {None}]
    BY <1>2, <1>t, <1>w DEF WakeupDone, Types, WakeupRecord, lifeVars
  <2> QED
    BY <1>2, <2>1, <2>2, LocalMove DEF WakeupDone, lifeVars
<1>3. CASE TrapKilled(p)
  BY <1>3, <1>t, LocalMove DEF TrapKilled, Types, WakeupRecord, Work, lifeVars
<1>4. CASE ForkParent(p)
  <2>1. parent' \in [Slot -> Slot \union {None}]
    BY <1>4, <1>t DEF ForkParent, Types
  <2> QED
    BY <1>4, <1>t, <2>1, LocalMove DEF ForkParent, Types, WakeupRecord, Work
<1>5. CASE ForkRun(p)
  <2> DEFINE q == child[p]
  <2>0. "user" \in Work /\ "fork_run" \in Work /\ "RUNNABLE" \in States
    BY DEF Work, States
  <2>1. child' \in [Slot -> Slot \union {None}]
    BY <1>5, <1>t DEF ForkRun, Types
  <2>2. ASSUME q = None PROVE HandOver'
    <3>1. state' = state
      BY <1>5, <2>2, <1>t DEF ForkRun, Types, Slot
    <3>2. child' = child
      BY <1>5, <2>2, <1>t DEF ForkRun, Types
    <3> QED
      BY <1>5, <1>t, <3>1, <3>2, <2>0, LocalMove, ZenonT(60)
         DEF ForkRun, Types, WakeupRecord
  <2>3. ASSUME q # None PROVE HandOver'
    <3>1. q \in Slot /\ state[q] = "USED"
      BY <2>3, <1>t DEF HandOver, ForkOwnsSlot, Types
    <3>2. ForkOwnsSlot'
      BY <1>5, <1>t, <2>3, <3>1 DEF ForkRun, HandOver, ForkOwnsSlot, Types
    <3>3. /\ ret' \in [Slot -> Work]
          /\ wk' \in [Slot -> WakeupRecord]
          /\ parent' \in [Slot -> Slot \union {None}]
      BY <1>5, <1>t DEF ForkRun, Types, WakeupRecord
    <3>4. /\ state' = [state EXCEPT ![q] = "RUNNABLE"]
          /\ pc' = [pc EXCEPT ![p] = "user"]
          /\ pc[p] = "fork_run" /\ Running(p) /\ q \notin locked
          /\ UNCHANGED <<locked, cpu>>
      BY <1>5 DEF ForkRun
    <3> HIDE DEF q
    <3> QED
      BY <2>0, <2>1, <3>1, <3>2, <3>3, <3>4, StateMove
  <2> QED
    BY <2>2, <2>3
<1>6. CASE ExitLock(p)
  BY <1>6, <1>t, LocalMove DEF ExitLock, AcquireWaitLock, Types, WakeupRecord, Work
<1>7. CASE Reparent(p)
  <2>1. parent' \in [Slot -> Slot \union {None}]
    BY <1>7, <1>t, <1>w DEF Reparent, Reparented, Types
  <2>2. wk' \in [Slot -> WakeupRecord]
    BY <1>7, <1>t, <1>w DEF Reparent, StartWakeup, Types, WakeupRecord, Work
  <2>3. \E l \in Work : pc' = [pc EXCEPT ![p] = l]
    BY <1>7 DEF Reparent, StartWakeup, Work
  <2> QED
    BY <1>7, <2>1, <2>2, <2>3, LocalMove DEF Reparent, Work
<1>8. CASE ExitWakeup(p)
  <2>1. wk' \in [Slot -> WakeupRecord]
    BY <1>8, <1>t DEF ExitWakeup, StartWakeup, Types, WakeupRecord, Work
  <2>2. parent' \in [Slot -> Slot \union {None}]
    BY <1>8, <1>t DEF ExitWakeup, lifeVars, Types
  <2> QED
    BY <1>8, <2>1, <2>2, LocalMove DEF ExitWakeup, StartWakeup, lifeVars, Work
<1>9. CASE ExitZombie(p)
  BY <1>9, SwitchAwayMove DEF ExitZombie, Work
<1>10. CASE WaitLock(p)
  BY <1>10, <1>t, LocalMove DEF WaitLock, AcquireWaitLock, Types, WakeupRecord, Work
<1>11. CASE WaitSlot(p)
  <2>1. pc' = [pc EXCEPT ![p] = "wait_scan"] /\ pc[p] = "wait_scan"
    BY <1>11, <1>t DEF WaitSlot, schedVars, Types
  <2> QED
    BY <1>11, <2>1, <1>t, LocalMove DEF WaitSlot, schedVars, Types, WakeupRecord, Work
<1>12. CASE Reap(p)
  <2> DEFINE q == scan[p]
  <2>1. q \in Slot /\ state[q] = "ZOMBIE" /\ q \notin locked
    BY <1>12 DEF Reap, ZombieFound, ChildQuiet
  <2>2. "user" \in Work /\ "wait_scan" \in Work /\ "UNUSED" \in States
    BY DEF Work, States
  <2>3. /\ state' = [state EXCEPT ![q] = "UNUSED"]
        /\ pc' = [pc EXCEPT ![p] = "user"]
        /\ pc[p] = "wait_scan" /\ Running(p)
        /\ UNCHANGED <<locked, cpu, ret, wk, child>>
    BY <1>12 DEF Reap, ZombieFound, Freed
  <2>4. ForkOwnsSlot'
    BY <2>1, <2>3, <1>t DEF HandOver, ForkOwnsSlot, Types
  <2>5. /\ parent' \in [Slot -> Slot \union {None}]
        /\ ret' \in [Slot -> Work]
        /\ wk' \in [Slot -> WakeupRecord]
        /\ child' \in [Slot -> Slot \union {None}]
    BY <1>12, <1>t DEF Reap, Types, WakeupRecord
  <2> HIDE DEF q
  <2> QED
    BY <2>1, <2>2, <2>3, <2>4, <2>5, StateMove
<1>13. CASE ReapFails(p)
  BY <1>13, <1>t, LocalMove DEF ReapFails, ZombieFound, Types, WakeupRecord, Work
<1>14. CASE WaitNoKids(p)
  BY <1>14, <1>t, LocalMove DEF WaitNoKids, Types, WakeupRecord, Work
<1>15. CASE WaitPrepare(p)
  BY <1>15, <1>t, LocalMove DEF WaitPrepare, Types, WakeupRecord, Work, lifeVars
<1>16. CASE WaitRelease(p)
  BY <1>16, <1>t, LocalMove DEF WaitRelease, Types, WakeupRecord, Work
<1>17. CASE WaitSleep(p)
  <2>1. CASE SwitchAway(p, "SLEEPING", "wait")
    BY <1>17, <2>1, SwitchAwayMove DEF WaitSleep, Sleep, lifeVars, Work
  <2>2. CASE pc' = [pc EXCEPT ![p] = "wait"] /\ UNCHANGED <<state, locked, ret>>
    BY <1>17, <2>2, <1>t, LocalMove
       DEF WaitSleep, Sleep, lifeVars, Types, WakeupRecord, Work
  <2> QED
    BY <1>17, <2>1, <2>2 DEF WaitSleep, Sleep
<1> QED
  BY <1>1, <1>2, <1>3, <1>4, <1>5, <1>6, <1>7, <1>8, <1>9, <1>10, <1>11, <1>12,
     <1>13, <1>14, <1>15, <1>16, <1>17 DEF KernelStep

LEMMA UserCallHandOver ==
    ASSUME HandOver, NEW p \in Slot, UserCall(p) PROVE HandOver'
<1> USE SchedAssumption, ProcTableAssumption DEF At, Jump
<1>t. Types
  BY DEF HandOver
<1>u. "user" \in Work /\ "call" \in Work /\ "fork_parent" \in Work /\ {"USED", "UNUSED"} \subseteq States
  BY DEF Work, States
<1>1. ASSUME NEW q \in Slot, Fork(p, q) PROVE HandOver'
  <2>1. /\ state' = [state EXCEPT ![q] = "USED"]
        /\ state[q] = "UNUSED" /\ q \notin locked
        /\ pc' = [pc EXCEPT ![p] = "fork_parent"]
        /\ pc[p] = "call" /\ Running(p)
        /\ UNCHANGED <<locked, cpu>>
    BY <1>1 DEF Fork, Call
  <2>2. /\ ret' \in [Slot -> Work]
        /\ wk' \in [Slot -> WakeupRecord]
        /\ parent' \in [Slot -> Slot \union {None}]
        /\ child' \in [Slot -> Slot \union {None}]
    BY <1>1, <1>t, <1>u DEF Fork, Types, WakeupRecord
  <2>3. ForkOwnsSlot'
    BY <1>1, <1>t DEF Fork, HandOver, ForkOwnsSlot, Types
  <2> QED
    BY <1>u, <2>1, <2>2, <2>3, StateMove
<1>2. ASSUME NEW q \in Slot, ForkNoMemory(p, q) PROVE HandOver'
  <2>1. state' = state
    BY <1>2, <1>t DEF ForkNoMemory, Freed, Types
  <2> QED
    BY <1>2, <2>1, <1>t, <1>u, LocalMove DEF ForkNoMemory, Call, Types, WakeupRecord
<1>3. CASE ForkNoSlot(p)
  BY <1>3, <1>t, <1>u, LocalMove DEF ForkNoSlot, Call, Types, WakeupRecord
<1>4. CASE CallExit(p)
  BY <1>4, <1>t, LocalMove DEF CallExit, Call, Types, WakeupRecord, Work
<1>5. CASE CallWait(p)
  BY <1>5, <1>t, LocalMove DEF CallWait, Call, Types, WakeupRecord, Work
<1>6. ASSUME NEW t \in Targets, Kill(p, t) PROVE HandOver'
  <2>1. PICK q \in Victim(t) : KillSlot(q)
    BY <1>6 DEF Kill
  <2>2. q \in Slot
    BY <2>1 DEF Victim, Slot
  <2>3. q \notin locked /\ state' = Awake(q)
    BY <2>1 DEF KillSlot, Roused
  <2>4. /\ pc' = [pc EXCEPT ![p] = "user"] /\ pc[p] = "call" /\ Running(p)
        /\ UNCHANGED <<locked, cpu, ret, parent, child>>
        /\ wk' \in [Slot -> WakeupRecord]
    BY <1>6, <1>t DEF Kill, Call, Types, WakeupRecord
  <2> QED
    BY <1>u, <2>2, <2>3, <2>4, AwakeMove
<1>7. CASE Trap(p)
  BY <1>7, <1>t, <1>u, LocalMove DEF Trap, Types, WakeupRecord
<1> QED
  BY <1>1, <1>2, <1>3, <1>4, <1>5, <1>6, <1>7 DEF UserCall

LEMMA PreemptHandOver ==
    ASSUME HandOver, NEW p \in Slot, Preempt(p) PROVE HandOver'
<1>1. pc[p] \in Work
  BY DEF Preempt, Yield, HandOver, Types, Parked
<1> QED
  BY <1>1, SwitchAwayMove DEF Preempt, Yield, lifeVars

LEMMA NextHandOver == HandOver /\ [Next]_vars => HandOver'
<1> SUFFICES ASSUME HandOver, [Next]_vars PROVE HandOver'
  OBVIOUS
<1>1. CASE UNCHANGED vars
  BY <1>1 DEF vars, schedVars, lifeVars, HandOver, Types, OneHartPerStack,
     StateIsAccurate, LockSpansSwitch, OffIsParked, StateInSwitch, ForkOwnsSlot,
     Running
<1>2. CASE Next
  BY <1>2, KernelStepHandOver, UserCallHandOver, ResumeHandOver,
     PreemptHandOver, SwitchOutHandOver, ScheduleHandOver DEF Next
<1> QED
  BY <1>1, <1>2

LEMMA HandOverInvariant == Spec => []HandOver
BY InitHandOver, NextHandOver, PTL DEF Spec
-----------------------------------------------------------------------------
\* However many harts run scheduler(), no two of them are on the kernel stack
\* of the same process.
THEOREM StackExclusive == Spec => []OneHartPerStack
<1>1. HandOver => OneHartPerStack
  BY DEF HandOver
<1> QED
  BY <1>1, HandOverInvariant, PTL

\* Whoever acquires p->lock reads a p->state that agrees with whether p is on
\* a hart.
THEOREM StateAccurate == Spec => []StateIsAccurate
<1>1. HandOver => StateIsAccurate
  BY DEF HandOver
<1> QED
  BY <1>1, HandOverInvariant, PTL

\* kwait() and the failure paths of kfork() free a slot only when no hart is
\* on its stack.
THEOREM FreedQuiet == Spec => []FreedIsQuiet
<1>1. HandOver => FreedIsQuiet
  <2> SUFFICES ASSUME HandOver, NEW p \in Slot, Running(p),
                      state[p] \in {"UNUSED", "USED"}
               PROVE  FALSE
    BY DEF FreedIsQuiet
  <2>1. p \in locked
    BY DEF HandOver, StateIsAccurate
  <2>2. pc[p] \in Parked
    BY <2>1 DEF HandOver, LockSpansSwitch
  <2> QED
    BY <2>1, <2>2 DEF HandOver, StateInSwitch, Parked
<1> QED
  BY <1>1, HandOverInvariant, PTL
-----------------------------------------------------------------------------
(* ParentsAlive.  It is stated for a free wait_lock; LifeInv says what     *)
(* holds while a process is between its critical sections.                 *)

Living == {"SLEEPING", "RUNNABLE", "RUNNING"}

\* Labels under wait_lock; of kexit(), all but the first; of kexit().
Exited == {"wakeup", "exit_wakeup", "exit_zombie"}
Exiting == {"exit", "exit_reparent"} \union Exited
Holding == {"exit_reparent", "wait_scan", "wait_release"} \union Exited

\* Where the kernel code of p is, a context switch set aside.
Where(p) == IF pc[p] \in Parked THEN ret[p] ELSE pc[p]

\* wait_lock is not held across a switch.
WaitLockHeld ==
    \A p \in Slot : Where(p) \in Holding => wlock = p /\ pc[p] \notin Parked

\* wakeup() is called from kexit(), after reparent() has begun.
WakeupInExit ==
    \A p \in Slot : pc[p] = "wakeup" => wk[p].next \in {"exit_wakeup", "exit_zombie"}

InitLives == state[Initproc] \in Living /\ Where(Initproc) \notin Exiting

\* The child that kfork() has allocated, before and after np->parent = p.
ForkHasChild ==
    \A p \in Slot :
        /\ Where(p) \in {"fork_parent", "fork_run"} => child[p] # None
        /\ Where(p) = "fork_run" => parent[child[p]] = p

ParentLives ==
    \A q \in Slot : parent[q] # None => state[parent[q]] \in Living

HasParent ==
    \A q \in Slot : /\ q # Initproc /\ state[q] \in Living \union {"ZOMBIE"}
                          => parent[q] # None
                    /\ state[q] = "UNUSED" => parent[q] = None

ReparentDone == \A p, q \in Slot : Where(p) \in Exited => parent[q] # p

LifeInv ==
    /\ WaitLockHeld
    /\ WakeupInExit
    /\ InitLives
    /\ ForkHasChild
    /\ ParentLives
    /\ HasParent
    /\ ReparentDone

LEMMA InitLifeInv == Init => LifeInv
<1> SUFFICES ASSUME Init PROVE LifeInv
  OBVIOUS
<1> USE SchedAssumption, ProcTableAssumption DEF Init, Initproc, Slot
<1>1. \A p \in Slot : Where(p) = "user" /\ pc[p] = "resume"
  BY DEF Where, Parked
<1>2. WaitLockHeld /\ WakeupInExit /\ ForkHasChild /\ ReparentDone
  BY <1>1 DEF WaitLockHeld, WakeupInExit, ForkHasChild, ReparentDone, Holding,
     Exited
<1>3. InitLives /\ ParentLives /\ HasParent
  BY <1>1 DEF InitLives, ParentLives, HasParent, Living, Exiting, Exited
<1> QED
  BY <1>2, <1>3 DEF LifeInv

\* A step that neither creates nor ends a process, nor touches p->parent.
LEMMA CalmMove ==
    ASSUME LifeInv, HandOver,
           UNCHANGED <<parent, child>>,
           \A q \in Slot : \/ state'[q] = state[q]
                           \/ state[q] \in Living /\ state'[q] \in Living,
           InitLives', WaitLockHeld', WakeupInExit',
           \A q \in Slot : \/ Where(q)' = Where(q)
                           \/ Where(q)' \notin Exited \union {"fork_parent", "fork_run"}
                           \/ Where(q) \in Exited /\ Where(q)' \in Exited
    PROVE  LifeInv'
<1>1. ForkHasChild' /\ ReparentDone'
  BY DEF LifeInv, ForkHasChild, ReparentDone, Exited
<1>2. ParentLives' /\ HasParent'
  BY DEF LifeInv, HandOver, Types, ParentLives, HasParent, Living, Slot
<1> QED
  BY <1>1, <1>2 DEF LifeInv

\* A process that is about to take a step in the kernel is RUNNING.
LEMMA AtIsRunning ==
    ASSUME HandOver, NEW p \in Slot, NEW l \in Work, At(p, l)
    PROVE  p \notin locked /\ state[p] = "RUNNING" /\ Where(p) = l
<1>1. l \notin Parked
  BY DEF Work, Parked
<1> QED
  BY <1>1 DEF HandOver, LockSpansSwitch, StateIsAccurate, At, Where

LEMMA SwitchLife ==
    ASSUME LifeInv, HandOver, NEW p \in Slot,
           \/ Return(p) \/ Preempt(p)
           \/ \E c \in CPU : Enter(c, p) \/ (Leave(c) /\ cpu[c] = p)
    PROVE  LifeInv'
<1> USE SchedAssumption DEF HandOver, Types
<1>1. UNCHANGED <<parent, child, wlock, wk>>
  BY DEF Return, Resume, Preempt, Yield, Enter, Schedule, Leave, SwitchOut, lifeVars
<1>2. \A q \in Slot : Where(q)' = Where(q)
  BY DEF Return, Resume, Preempt, Yield, Enter, Schedule, Leave, SwitchOut, At,
     SwitchAway, Jump, Where, Parked, Work, lifeVars
<1>3. \A q \in Slot : state'[q] = state[q] \/ (state[q] \in Living /\ state'[q] \in Living)
  <2>1. CASE Preempt(p)
    <3>1. state[p] = "RUNNING"
      BY <2>1, AtIsRunning DEF Preempt, Yield, At, Parked, Work
    <3> QED
      BY <2>1, <3>1 DEF Preempt, Yield, SwitchAway, Living
  <2>2. CASE Return(p) \/ \E c \in CPU : Enter(c, p) \/ (Leave(c) /\ cpu[c] = p)
    BY <2>2 DEF Return, Resume, Enter, Schedule, Leave, SwitchOut, Living
  <2> QED
    BY <2>1, <2>2
<1>4. WakeupInExit'
  BY <1>1, <1>2 DEF LifeInv, WaitLockHeld, WakeupInExit, Where, Holding, Exited,
     Return, Resume, Preempt, Yield, Enter, Schedule, Leave, SwitchOut, SwitchAway, Jump, Parked
<1>5. WaitLockHeld'
  BY <1>1, <1>2 DEF LifeInv, WaitLockHeld, Where, Holding, Exited, Work,
     Return, Resume, Preempt, Yield, Enter, Schedule, Leave, SwitchOut, SwitchAway, Jump, Parked, At
<1>6. InitLives'
  <2>1. Initproc \in Slot
    BY SchedAssumption, ProcTableAssumption DEF Initproc, Slot
  <2> QED
    BY <1>2, <1>3, <2>1 DEF LifeInv, InitLives, Living
<1> QED
  BY <1>1, <1>2, <1>3, <1>4, <1>5, <1>6, CalmMove

\* What a step of p has in common that only moves p from label k to label l.
Moves(p, k, l) ==
    /\ At(p, k)
    /\ Where(p)' = l
    /\ l \in Holding => wlock' = p /\ pc'[p] \notin Parked
    /\ \A q \in Slot \ {p} : /\ pc'[q] = pc[q] /\ ret'[q] = ret[q]
                             /\ wlock = q => wlock' = q
    /\ p = Initproc => l \notin Exiting

LEMMA MovesLabels ==
    ASSUME LifeInv, HandOver, NEW p \in Slot, NEW k \in Work, NEW l \in Work,
           Moves(p, k, l)
    PROVE  /\ WaitLockHeld'
           /\ \A q \in Slot \ {p} : Where(q)' = Where(q)
           /\ Where(p) = k
           /\ Where(Initproc)' \notin Exiting
<1>1. \A q \in Slot \ {p} : Where(q)' = Where(q)
  BY DEF Moves, Where
<1>2. WaitLockHeld'
  BY <1>1 DEF Moves, LifeInv, WaitLockHeld
<1>3. Where(p) = k
  BY AtIsRunning DEF Moves
<1>4. Initproc \in Slot
  BY SchedAssumption, ProcTableAssumption DEF Initproc, Slot
<1>5. Where(Initproc)' \notin Exiting
  BY <1>1, <1>4 DEF Moves, LifeInv, InitLives
<1> QED
  BY <1>1, <1>2, <1>3, <1>5

LEMMA CalmStep ==
    ASSUME LifeInv, HandOver, NEW p \in Slot, NEW k \in Work, NEW l \in Work,
           Moves(p, k, l),
           UNCHANGED <<parent, child>>,
           \A q \in Slot : \/ state'[q] = state[q]
                           \/ state[q] \in Living /\ state'[q] \in Living,
           WakeupInExit',
           l \notin {"fork_parent", "fork_run"},
           l \in Exited => k \in Exited
    PROVE  LifeInv'
<1>1. InitLives'
  <2>1. Initproc \in Slot
    BY SchedAssumption, ProcTableAssumption DEF Initproc, Slot
  <2> QED
    BY <2>1, MovesLabels DEF LifeInv, InitLives
<1>2. WaitLockHeld' /\ Where(p)' = l
  BY MovesLabels DEF Moves
<1>3. \A q \in Slot : \/ Where(q)' = Where(q)
                      \/ Where(q)' \notin Exited \union {"fork_parent", "fork_run"}
                      \/ Where(q) \in Exited /\ Where(q)' \in Exited
  BY <1>2, MovesLabels
<1> QED
  BY <1>1, <1>2, <1>3, CalmMove

LEMMA CalmKernelStep ==
    ASSUME LifeInv, HandOver, NEW p \in Slot,
           \/ WakeupSlot(p) /\ UNCHANGED lifeVars
           \/ WakeupDone(p) /\ UNCHANGED lifeVars
           \/ TrapKilled(p) \/ ExitLock(p) \/ ExitWakeup(p)
           \/ WaitLock(p) \/ WaitSlot(p) \/ ReapFails(p) \/ WaitNoKids(p)
           \/ WaitPrepare(p) \/ WaitRelease(p) \/ WaitSleep(p)
    PROVE  LifeInv'
<1> USE DEF Jump, Work, Parked, Holding, Exiting, Exited, At, Moves, Where
<1>t. Types
  BY DEF HandOver
<1>c. ASSUME NEW q \in Slot
      PROVE  \A r \in Slot : \/ Awake(q)[r] = state[r]
                             \/ state[r] \in Living /\ Awake(q)[r] \in Living
  BY <1>t DEF Awake, Living, Types
<1>1. CASE WakeupSlot(p) /\ UNCHANGED lifeVars
  <2>1. Moves(p, "wakeup", "wakeup")
    BY <1>1 DEF WakeupSlot, lifeVars, LifeInv, WaitLockHeld, InitLives
  <2>2. WakeupInExit'
    BY <1>1, <1>t DEF WakeupSlot, LifeInv, WakeupInExit, Types
  <2>3. state' = Awake(wk[p].i) \/ state' = state
    BY <1>1 DEF WakeupSlot
  <2>4. wk[p].i \in Slot /\ UNCHANGED <<parent, child>>
    BY <1>1 DEF WakeupSlot, lifeVars
  <2> QED
    BY <2>1, <2>2, <2>3, <2>4, <1>c, CalmStep
<1>2. CASE WakeupDone(p) /\ UNCHANGED lifeVars
  <2>1. wk[p].next \in {"exit_wakeup", "exit_zombie"}
    BY <1>2 DEF WakeupDone, LifeInv, WakeupInExit
  <2>2. Moves(p, "wakeup", wk[p].next)
    BY <1>2, <2>1, <1>t DEF WakeupDone, lifeVars, LifeInv, WaitLockHeld, InitLives, Types
  <2>3. WakeupInExit'
    BY <1>2, <1>t, <2>1 DEF WakeupDone, LifeInv, WakeupInExit, Types
  <2> QED
    BY <1>2, <2>1, <2>2, <2>3, CalmStep DEF WakeupDone, lifeVars
<1>3. CASE TrapKilled(p)
  <2>1. Moves(p, "user", "exit") /\ WakeupInExit'
    BY <1>3, <1>t DEF TrapKilled, lifeVars, LifeInv, WakeupInExit, Types
  <2> QED
    BY <1>3, <2>1, CalmStep DEF TrapKilled, lifeVars
<1>4. CASE ExitLock(p)
  <2>1. Moves(p, "exit", "exit_reparent") /\ WakeupInExit'
    BY <1>4, <1>t, SchedAssumption
       DEF ExitLock, AcquireWaitLock, LifeInv, WakeupInExit, InitLives, Types, Slot
  <2> QED
    BY <1>4, <2>1, CalmStep DEF ExitLock
<1>5. CASE ExitWakeup(p)
  <2>1. Moves(p, "exit_wakeup", "wakeup") /\ WakeupInExit'
    BY <1>5, <1>t DEF ExitWakeup, StartWakeup, lifeVars, LifeInv, WaitLockHeld,
       WakeupInExit, InitLives, Types
  <2> QED
    BY <1>5, <2>1, CalmStep DEF ExitWakeup, lifeVars
<1>6. CASE WaitLock(p)
  <2>1. Moves(p, "wait", "wait_scan") /\ WakeupInExit'
    BY <1>6, <1>t, SchedAssumption
       DEF WaitLock, AcquireWaitLock, LifeInv, WakeupInExit, Types, Slot
  <2> QED
    BY <1>6, <2>1, CalmStep DEF WaitLock
<1>7. CASE WaitSlot(p)
  <2>1. Moves(p, "wait_scan", "wait_scan") /\ WakeupInExit'
    BY <1>7, <1>t DEF WaitSlot, schedVars, LifeInv, WaitLockHeld, WakeupInExit, Types
  <2> QED
    BY <1>7, <2>1, CalmStep DEF WaitSlot, schedVars
<1>8. CASE ReapFails(p) \/ WaitNoKids(p)
  <2>1. wlock = p
    BY <1>8 DEF ReapFails, WaitNoKids, ZombieFound, LifeInv, WaitLockHeld
  <2>2. Moves(p, "wait_scan", "user") /\ WakeupInExit'
    BY <1>8, <1>t, <2>1 DEF ReapFails, WaitNoKids, ZombieFound, LifeInv, WakeupInExit, Types
  <2> QED
    BY <1>8, <2>2, CalmStep DEF ReapFails, WaitNoKids
<1>9. CASE WaitPrepare(p)
  <2>1. Moves(p, "wait_scan", "wait_release") /\ WakeupInExit'
    BY <1>9, <1>t DEF WaitPrepare, lifeVars, LifeInv, WaitLockHeld, WakeupInExit, Types
  <2> QED
    BY <1>9, <2>1, CalmStep DEF WaitPrepare, lifeVars
<1>10. CASE WaitRelease(p)
  <2>1. wlock = p
    BY <1>10 DEF WaitRelease, LifeInv, WaitLockHeld
  <2>2. Moves(p, "wait_release", "wait_sleep") /\ WakeupInExit'
    BY <1>10, <1>t, <2>1 DEF WaitRelease, LifeInv, WakeupInExit, Types
  <2> QED
    BY <1>10, <2>2, CalmStep DEF WaitRelease
<1>11. CASE WaitSleep(p)
  <2>1. state[p] = "RUNNING"
    BY <1>11, AtIsRunning DEF WaitSleep, Sleep
  <2>2. Moves(p, "wait_sleep", "wait") /\ WakeupInExit'
    BY <1>11, <1>t DEF WaitSleep, Sleep, SwitchAway, lifeVars, LifeInv, WakeupInExit, Types
  <2>3. \A q \in Slot : \/ state'[q] = state[q]
                        \/ state[q] \in Living /\ state'[q] \in Living
    BY <1>11, <1>t, <2>1 DEF WaitSleep, Sleep, SwitchAway, Living, Types
  <2> QED
    BY <1>11, <2>2, <2>3, CalmStep DEF WaitSleep, lifeVars
<1> QED
  BY <1>1, <1>2, <1>3, <1>4, <1>5, <1>6, <1>7, <1>8, <1>9, <1>10, <1>11

\* The steps of kfork(), kexit() and kwait() that make, hand over and end
\* processes.
LEMMA ForkParentLife ==
    ASSUME LifeInv, HandOver, NEW p \in Slot, ForkParent(p)
    PROVE  LifeInv'
<1> USE DEF Jump, LifeInv
<1>t. Types
  BY DEF HandOver
<1>1. At(p, "fork_parent") /\ "fork_parent" \in Work /\ "fork_run" \in Work
  BY DEF ForkParent, Work
<1>2. Moves(p, "fork_parent", "fork_run")
  BY <1>1, <1>t DEF ForkParent, Moves, Where, Parked, Holding, Exiting, Exited, Types
<1>3. /\ WaitLockHeld'
      /\ \A q \in Slot \ {p} : Where(q)' = Where(q)
      /\ Where(p) = "fork_parent" /\ Where(p)' = "fork_run"
      /\ Where(Initproc)' \notin Exiting
  BY <1>1, <1>2, MovesLabels DEF Moves
<1>4. state[p] = "RUNNING"
  BY <1>1, AtIsRunning
<1>5. child[p] \in Slot /\ state[child[p]] = "USED"
  BY <1>3, <1>t DEF ForkHasChild, HandOver, ForkOwnsSlot, Types
<1>6. parent' = [parent EXCEPT ![child[p]] = p] /\ UNCHANGED <<state, child, wk>>
  BY DEF ForkParent
<1>7. WakeupInExit'
  BY <1>1, <1>6, <1>t DEF ForkParent, WakeupInExit, Types
<1>8. InitLives' /\ ParentLives' /\ HasParent'
  BY <1>3, <1>4, <1>5, <1>6, <1>t, SchedAssumption
     DEF InitLives, ParentLives, HasParent, Living, Types, Slot
<1>9. ForkHasChild'
  <2>1. \A q \in Slot \ {p} : child[q] # None => child[q] # child[p]
    BY <1>5 DEF HandOver, ForkOwnsSlot
  <2> QED
    BY <1>3, <1>5, <1>6, <1>t, <2>1, SchedAssumption DEF ForkHasChild, Types, Slot
<1>10. ReparentDone'
  <2>1. \A q \in Slot : Where(q)' \notin Exited
    BY <1>3, SchedAssumption DEF ForkParent, WaitLockHeld, Holding, Exited, Slot
  <2> QED
    BY <2>1 DEF ReparentDone
<1> QED
  BY <1>3, <1>7, <1>8, <1>9, <1>10

LEMMA ForkRunLife ==
    ASSUME LifeInv, HandOver, NEW p \in Slot, ForkRun(p)
    PROVE  LifeInv'
<1> USE DEF Jump, LifeInv
<1>t. Types
  BY DEF HandOver
<1>1. At(p, "fork_run") /\ "fork_run" \in Work /\ "user" \in Work
  BY DEF ForkRun, Work
<1>2. Moves(p, "fork_run", "user")
  BY <1>1, <1>t DEF ForkRun, Moves, Where, Parked, Holding, Exiting, Exited, Types
<1>3. /\ WaitLockHeld'
      /\ \A q \in Slot \ {p} : Where(q)' = Where(q)
      /\ Where(p) = "fork_run" /\ Where(p)' = "user"
      /\ Where(Initproc)' \notin Exiting
  BY <1>1, <1>2, MovesLabels DEF Moves
<1>4. child[p] \in Slot /\ state[child[p]] = "USED" /\ parent[child[p]] = p
  BY <1>3, <1>t DEF ForkHasChild, HandOver, ForkOwnsSlot, Types
<1>5. /\ state' = [state EXCEPT ![child[p]] = "RUNNABLE"]
      /\ child' = [child EXCEPT ![p] = None]
      /\ UNCHANGED <<parent, wk>>
  BY DEF ForkRun
<1>6. WakeupInExit'
  BY <1>1, <1>5, <1>t DEF ForkRun, WakeupInExit, Types
<1>7. InitLives' /\ ParentLives' /\ HasParent'
  BY <1>3, <1>4, <1>5, <1>t, SchedAssumption
     DEF InitLives, ParentLives, HasParent, Living, Types, Slot
<1>8. ForkHasChild' /\ ReparentDone'
  BY <1>3, <1>5, <1>t DEF ForkHasChild, ReparentDone, Exited, Types
<1> QED
  BY <1>3, <1>6, <1>7, <1>8

LEMMA ReparentLife ==
    ASSUME LifeInv, HandOver, NEW p \in Slot, Reparent(p)
    PROVE  LifeInv'
<1> USE DEF Jump, LifeInv
<1>t. Types
  BY DEF HandOver
<1>i. Initproc \in Slot
  BY SchedAssumption, ProcTableAssumption DEF Initproc, Slot
<1>1. /\ At(p, "exit_reparent") /\ "exit_reparent" \in Work
      /\ "wakeup" \in Work /\ "exit_wakeup" \in Work
  BY DEF Reparent, Work
<1>2. Where(p) = "exit_reparent"
  BY <1>1, AtIsRunning
<1>3. p # Initproc /\ wlock = p
  BY <1>2 DEF InitLives, Exiting, WaitLockHeld, Holding
<1>4. PICK l \in {"wakeup", "exit_wakeup"} : pc' = [pc EXCEPT ![p] = l]
  BY DEF Reparent, StartWakeup
<1>5. Moves(p, "exit_reparent", l)
  BY <1>1, <1>3, <1>4, <1>t DEF Reparent, Moves, Where, Parked, Types
<1>6. /\ WaitLockHeld'
      /\ \A q \in Slot \ {p} : Where(q)' = Where(q)
      /\ Where(p)' = l
      /\ Where(Initproc)' \notin Exiting
  BY <1>1, <1>5, MovesLabels DEF Moves
<1>7. parent' = Reparented(p) /\ UNCHANGED <<state, child>>
  BY DEF Reparent
<1>8. WakeupInExit'
  BY <1>1, <1>t DEF Reparent, StartWakeup, WakeupInExit, Types
<1>9. InitLives' /\ ParentLives' /\ HasParent'
  BY <1>6, <1>7, <1>i, <1>t, SchedAssumption
     DEF InitLives, ParentLives, HasParent, Reparented, Living, Types, Slot
<1>10. ForkHasChild'
  <2>1. \A q \in Slot : child[q] # None => child[q] \in Slot
    BY <1>t DEF Types
  <2>2. \A q \in Slot : Where(q)' \in {"fork_parent", "fork_run"}
                           => q # p /\ Where(q) = Where(q)'
    BY <1>6
  <2> QED
    BY <1>7, <2>1, <2>2 DEF ForkHasChild, Reparented
<1>11. ReparentDone'
  <2>1. \A q \in Slot \ {p} : Where(q)' \notin Exited
    BY <1>3, <1>6 DEF WaitLockHeld, Holding
  <2> QED
    BY <1>3, <1>7, <2>1 DEF ReparentDone, Reparented
<1> QED
  BY <1>6, <1>8, <1>9, <1>10, <1>11

LEMMA ExitZombieLife ==
    ASSUME LifeInv, HandOver, NEW p \in Slot, ExitZombie(p)
    PROVE  LifeInv'
<1> USE DEF Jump, LifeInv
<1>t. Types
  BY DEF HandOver
<1>1. At(p, "exit_zombie") /\ "exit_zombie" \in Work /\ "user" \in Work
  BY DEF ExitZombie, Work
<1>2. state[p] = "RUNNING" /\ Where(p) = "exit_zombie"
  BY <1>1, AtIsRunning
<1>3. p # Initproc /\ wlock = p /\ \A q \in Slot : parent[q] # p
  BY <1>2 DEF InitLives, Exiting, Exited, WaitLockHeld, Holding, ReparentDone
<1>4. Moves(p, "exit_zombie", "user")
  BY <1>1, <1>3, <1>t DEF ExitZombie, SwitchAway, Moves, Where, Parked, Holding,
     Exited, Types
<1>5. /\ WaitLockHeld'
      /\ \A q \in Slot \ {p} : Where(q)' = Where(q)
      /\ Where(p)' = "user"
      /\ Where(Initproc)' \notin Exiting
  BY <1>1, <1>4, MovesLabels DEF Moves
<1>6. state' = [state EXCEPT ![p] = "ZOMBIE"] /\ UNCHANGED <<parent, child, wk>>
  BY DEF ExitZombie, SwitchAway
<1>7. WakeupInExit'
  BY <1>6, <1>t DEF ExitZombie, SwitchAway, WakeupInExit, Types
<1>8. InitLives' /\ ParentLives' /\ HasParent'
  BY <1>2, <1>3, <1>5, <1>6, <1>t, SchedAssumption
     DEF InitLives, ParentLives, HasParent, Living, Types, Slot
<1>9. ForkHasChild' /\ ReparentDone'
  BY <1>5, <1>6, <1>t DEF ForkHasChild, ReparentDone, Exited, Types
<1> QED
  BY <1>5, <1>7, <1>8, <1>9

LEMMA ReapLife ==
    ASSUME LifeInv, HandOver, NEW p \in Slot, Reap(p)
    PROVE  LifeInv'
<1> USE DEF Jump, LifeInv
<1>t. Types
  BY DEF HandOver
<1>i. Initproc \in Slot
  BY SchedAssumption, ProcTableAssumption DEF Initproc, Slot
<1>1. At(p, "wait_scan") /\ "wait_scan" \in Work /\ "user" \in Work
  BY DEF Reap, ZombieFound, Work
<1>2. wlock = p /\ Where(p) = "wait_scan"
  BY <1>1, AtIsRunning DEF WaitLockHeld, Holding
<1>3. Moves(p, "wait_scan", "user")
  BY <1>1, <1>2, <1>t DEF Reap, Moves, Where, Parked, Holding, Exiting, Exited, Types
<1>4. /\ WaitLockHeld'
      /\ \A q \in Slot \ {p} : Where(q)' = Where(q)
      /\ Where(p)' = "user"
      /\ Where(Initproc)' \notin Exiting
  BY <1>1, <1>3, MovesLabels DEF Moves
<1> DEFINE z == scan[p]
<1>5. z \in Slot /\ state[z] = "ZOMBIE"
  BY DEF Reap, ZombieFound
<1>6. /\ state' = [state EXCEPT ![z] = "UNUSED"]
      /\ parent' = [parent EXCEPT ![z] = None]
      /\ UNCHANGED <<child, wk>>
  BY DEF Reap, Freed
<1> HIDE DEF z
<1>7. WakeupInExit'
  BY <1>6, <1>t DEF Reap, WakeupInExit, Types
<1>8. InitLives' /\ ParentLives' /\ HasParent'
  BY <1>4, <1>5, <1>6, <1>i, <1>t, SchedAssumption
     DEF InitLives, ParentLives, HasParent, Living, Types, Slot
<1>9. ForkHasChild'
  <2>1. \A q \in Slot : child[q] # None => child[q] \in Slot /\ child[q] # z
    BY <1>5, <1>t DEF HandOver, ForkOwnsSlot, Types
  <2> QED
    BY <1>4, <1>6, <2>1, <1>t DEF ForkHasChild, Types
<1>10. ReparentDone'
  BY <1>4, <1>6, <1>t, SchedAssumption DEF ReparentDone, Exited, Types, Slot
<1> QED
  BY <1>4, <1>7, <1>8, <1>9, <1>10

LEMMA ForkLife ==
    ASSUME LifeInv, HandOver, NEW p \in Slot, NEW q \in Slot, Fork(p, q)
    PROVE  LifeInv'
<1> USE DEF Jump, LifeInv
<1>t. Types
  BY DEF HandOver
<1>i. Initproc \in Slot
  BY SchedAssumption, ProcTableAssumption DEF Initproc, Slot
<1>1. At(p, "call") /\ {"call", "user", "fork_parent"} \subseteq Work
  BY DEF Fork, Call, Work
<1>2. state[p] = "RUNNING" /\ Where(p) = "call"
  BY <1>1, AtIsRunning
<1>3. state[q] = "UNUSED" /\ q # p /\ ~Running(q)
  BY <1>2 DEF Fork, HandOver, StateIsAccurate
<1>4. pc[q] = "resume"
  BY <1>3 DEF HandOver, OffIsParked
<1>5. /\ pc' = [pc EXCEPT ![p] = "fork_parent"]
      /\ ret' = [ret EXCEPT ![q] = "user"]
      /\ state' = [state EXCEPT ![q] = "USED"]
      /\ child' = [child EXCEPT ![p] = q]
      /\ UNCHANGED <<parent, wlock, wk>>
  BY DEF Fork, Call
<1>6. /\ Where(p)' = "fork_parent" /\ Where(q)' = "user"
      /\ \A r \in Slot \ {p, q} : Where(r)' = Where(r)
  BY <1>3, <1>4, <1>5, <1>t DEF Where, Parked, Types
<1>7. WaitLockHeld' /\ WakeupInExit'
  BY <1>5, <1>6, <1>t DEF WaitLockHeld, WakeupInExit, Holding, Exited, Parked, Types
<1>8. InitLives' /\ ParentLives' /\ HasParent'
  BY <1>3, <1>5, <1>6, <1>i, <1>t, SchedAssumption
     DEF InitLives, ParentLives, HasParent, Living, Exiting, Exited, Types, Slot
<1>9. ForkHasChild' /\ ReparentDone'
  BY <1>5, <1>6, <1>t, SchedAssumption
     DEF ForkHasChild, ReparentDone, Exited, Types, Slot
<1> QED
  BY <1>7, <1>8, <1>9

LEMMA UserCallLife ==
    ASSUME LifeInv, HandOver, NEW p \in Slot, UserCall(p)
    PROVE  LifeInv'
<1> USE DEF Jump
<1>t. Types
  BY DEF HandOver
<1>m. ASSUME NEW k \in {"user", "call"}, NEW l \in {"user", "call", "exit", "wait"},
             At(p, k), Jump(p, l),
             l = "exit" => p # Initproc,
             UNCHANGED <<ret, wk, parent, wlock, child>>,
             \A q \in Slot : \/ state'[q] = state[q]
                             \/ state[q] \in Living /\ state'[q] \in Living
      PROVE  LifeInv'
  <2>1. Moves(p, k, l) /\ WakeupInExit'
    BY <1>m, <1>t DEF Moves, At, Where, Parked, Holding, Exiting, Exited,
       Types, LifeInv, WakeupInExit
  <2>2. k \in Work /\ l \in Work
    BY DEF Work
  <2> QED
    BY <1>m, <2>1, <2>2, CalmStep DEF Exited
<1>1. ASSUME NEW q \in Slot, Fork(p, q) PROVE LifeInv'
  BY <1>1, ForkLife
<1>2. ASSUME NEW q \in Slot, ForkNoMemory(p, q) PROVE LifeInv'
  <2>1. state' = state
    BY <1>2, <1>t DEF ForkNoMemory, Freed, Types
  <2> QED
    BY <1>2, <1>m, <2>1 DEF ForkNoMemory, Call
<1>3. CASE ForkNoSlot(p)
  BY <1>3, <1>m DEF ForkNoSlot, Call
<1>4. CASE CallExit(p)
  BY <1>4, <1>m DEF CallExit, Call
<1>5. CASE CallWait(p)
  BY <1>5, <1>m DEF CallWait, Call
<1>6. ASSUME NEW t \in Targets, Kill(p, t) PROVE LifeInv'
  <2>0. PICK q \in Victim(t) : KillSlot(q)
    BY <1>6 DEF Kill
  <2>1. q \in Slot /\ state' = Awake(q)
    BY <2>0, SchedAssumption, ProcTableAssumption DEF Victim, Slot, KillSlot, Roused
  <2>2. \A r \in Slot : \/ state'[r] = state[r]
                        \/ state[r] \in Living /\ state'[r] \in Living
    BY <2>1, <1>t DEF Awake, Living, Types
  <2> QED
    BY <1>6, <1>m, <2>2 DEF Kill, Call
<1>7. CASE Trap(p)
  BY <1>7, <1>m DEF Trap
<1> QED
  BY <1>1, <1>2, <1>3, <1>4, <1>5, <1>6, <1>7 DEF UserCall

LEMMA NextLifeInv == HandOver /\ LifeInv /\ [Next]_vars => LifeInv'
<1> SUFFICES ASSUME HandOver, LifeInv, [Next]_vars PROVE LifeInv'
  OBVIOUS
<1>1. CASE UNCHANGED vars
  BY <1>1 DEF vars, schedVars, lifeVars, LifeInv, WaitLockHeld, WakeupInExit,
     InitLives, ForkHasChild, ParentLives, HasParent, ReparentDone, Where
<1>2. ASSUME NEW p \in Slot, KernelStep(p) PROVE LifeInv'
  BY <1>2, CalmKernelStep, ForkParentLife, ForkRunLife, ReparentLife,
     ExitZombieLife, ReapLife DEF KernelStep
<1>3. ASSUME NEW c \in CPU, Leave(c) PROVE LifeInv'
  <2>1. cpu[c] \in Slot
    BY <1>3 DEF Leave, SwitchOut, HandOver, Types
  <2> QED
    BY <1>3, <2>1, SwitchLife
<1>4. CASE Next
  BY <1>2, <1>3, <1>4, UserCallLife, SwitchLife DEF Next
<1> QED
  BY <1>1, <1>4

\* kexit() hands its children to init before it becomes a ZOMBIE, and kfork()
\* names the parent before the child can run: for any number of processes,
\* whoever gets wait_lock finds each process with a parent that can reap it.
THEOREM ChildrenKept == Spec => []ParentsAlive
<1>1. HandOver /\ LifeInv => ParentsAlive
  <2> SUFFICES ASSUME HandOver, LifeInv PROVE ParentsAlive
    OBVIOUS
  <2> QED
    BY DEF HandOver, LifeInv, ParentLives, HasParent, ParentsAlive, Living
<1>2. Spec => []LifeInv
  BY InitLifeInv, NextLifeInv, HandOverInvariant, PTL DEF Spec
<1> QED
  BY <1>1, <1>2, HandOverInvariant, PTL
=============================================================================
