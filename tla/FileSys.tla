------------------------------ MODULE FileSys ------------------------------
(***************************************************************************)
(* The system calls on files, sysfile.c and file.c, on top of the inode    *)
(* layer of module Inode and of a log that makes groups of whole calls     *)
(* durable (module AtomicDisk, which module Log implements).               *)
(*                                                                         *)
(* A step is a section between taking and releasing the sleep lock of one  *)
(* inode; where a call takes a second lock, or calls iput(), with one held *)
(* it is in several steps.  iput() is up to three steps of its own: its    *)
(* truncation, its decrement of ref, and its ifree().                      *)
(***************************************************************************)
EXTENDS Inode, Sequences

CONSTANTS
    Proc,       \* process slots
    InitProc,   \* the first process, which runs recovery and never exits
    NFILE,      \* entries of the file table
    NOFILE,     \* descriptors of a process
    NLINK_MAX,  \* limit of nlink
    Calls,      \* system calls with a path that processes make
    Image,      \* a disk as mkfs writes it
    MaxCalls    \* bound: calls made between two crashes

\* "open" is for reading; "trunc" and "creat" are for writing too, with
\* O_TRUNC and O_CREATE.
Ops == {"open", "trunc", "creat", "mkdir", "mknod", "link", "unlink", "chdir",
        "exec"}

ASSUME FileSysAssumption ==
    /\ IsFiniteSet(Proc) /\ InitProc \in Proc
    /\ NoProc \notin Proc
    /\ NFILE \in Nat /\ NOFILE \in Nat /\ NLINK_MAX \in Nat
    /\ MaxCalls \in Nat
    /\ \A c \in Calls : c.op \in Ops

File == 1..NFILE
Fd   == 1..NOFILE

VARIABLES
    itab,       \* itable.inode[]
    mem,        \* the disk as the running kernel sees it
    durable,    \* the disk as a crash would leave it
    panicked,
    scan,       \* ireclaim()'s inum; beyond NINODES the system is up
    active,     \* processes between begin_op() and end_op()
    loc,        \* where each process is, and its local variables
    ftable,     \* ftable.file[]; ip is 0 for FD_NONE
    ofile,      \* p->ofile[]: file or 0
    cwd,        \* p->cwd: slot of the inode table
    calls       \* calls made since the machine was switched on

vars == <<itab, mem, durable, panicked, scan, active, loc, ftable, ofile, cwd,
          calls>>
fileVars == <<ftable, ofile, cwd>>

(***************************************************************************)
(* Local variables.  dp, ip and old are slots to which the process has a   *)
(* reference, or 0; puts are slots it is about to iput(), after which it   *)
(* goes on at label then; inum is iput()'s copy of ip->inum; rest is what  *)
(* namex() has not resolved yet.                                           *)
(***************************************************************************)
NoCall == [op |-> "none"]

At(l) == [pc |-> l, call |-> NoCall, rest |-> <<>>, dp |-> 0, ip |-> 0,
          old |-> 0, puts |-> <<>>, then |-> "", inum |-> 0]

\* The machine after power-on: the first process has its cwd, and runs
\* recover_from_log() and ireclaim() before anything else.
BootInodes ==
    [s \in Slot |-> IF s = 1 THEN Recycle([NoInode EXCEPT !.ref = 1], ROOTINO)
                             ELSE NoInode]

NoFile == [ref |-> 0, ip |-> 0, writable |-> FALSE]

Boot(d) ==
    /\ itab' = BootInodes
    /\ mem' = d
    /\ panicked' = FALSE
    /\ scan' = 1
    /\ active' = {}
    /\ loc' = [p \in Proc |-> At(IF p = InitProc THEN "idle" ELSE "unused")]
    /\ ftable' = [f \in File |-> NoFile]
    /\ ofile' = [p \in Proc |-> [fd \in Fd |-> 0]]
    /\ cwd' = [p \in Proc |-> IF p = InitProc THEN 1 ELSE 0]
    /\ calls' = 0

Init ==
    /\ durable = Image
    /\ itab = BootInodes
    /\ mem = Image
    /\ panicked = FALSE
    /\ scan = 1
    /\ active = {}
    /\ loc = [p \in Proc |-> At(IF p = InitProc THEN "idle" ELSE "unused")]
    /\ ftable = [f \in File |-> NoFile]
    /\ ofile = [p \in Proc |-> [fd \in Fd |-> 0]]
    /\ cwd = [p \in Proc |-> IF p = InitProc THEN 1 ELSE 0]
    /\ calls = 0

Crash == Boot(durable) /\ UNCHANGED durable
-----------------------------------------------------------------------------
(* Steps.                                                                  *)

Here == [t |-> itab, d |-> mem, bad |-> FALSE]

\* The inode layer is as w has it.
Becomes(w) ==
    /\ itab' = w.t
    /\ mem' = w.d
    /\ panicked' = w.bad

Is(p, l) == ~panicked /\ loc[p].pc = l

Free(s) == itab[s].lock = NoProc

Goes(p, r) == loc' = [loc EXCEPT ![p] = r]

\* Process p, with locals r, calls iput() for the slots of q, then goes to l.
Puts(p, r, q, l) ==
    Goes(p, [r EXCEPT !.pc = "iput", !.puts = q, !.then = l])

\* Where a call goes that fails: sys_link() undoes its nlink++ first.
Bail(p) == IF loc[p].old # 0 THEN "bad" ELSE "end"

Running == scan > NINODES

\* Nothing but the inode layer and the locals changes.
Quiet == UNCHANGED <<durable, scan, active, fileVars, calls>>
-----------------------------------------------------------------------------
(* iput(), for the head of puts.                                           *)

IputDrop(p) ==
    LET s == Head(loc[p].puts)
    IN  /\ Is(p, "iput")
        /\ ~IsLast(Here, s)
        /\ Becomes(Unref(Here, s))
        /\ Goes(p, [loc[p] EXCEPT !.puts = Tail(@),
                       !.pc = IF Tail(loc[p].puts) = <<>> THEN loc[p].then
                                                        ELSE "iput"])
        /\ Quiet

\* acquiresleep() is called with itable.lock held and must not sleep.
IputTruncate(p) ==
    LET s == Head(loc[p].puts)
    IN  /\ Is(p, "iput")
        /\ IsLast(Here, s)
        /\ Becomes(IF Free(s) THEN IputLast(Here, s)
                              ELSE [Here EXCEPT !.bad = TRUE])
        /\ Goes(p, [loc[p] EXCEPT !.pc = "unref", !.inum = itab[s].inum])
        /\ Quiet

IputUnref(p) ==
    /\ Is(p, "unref")
    /\ Becomes(Unref(Here, Head(loc[p].puts)))
    /\ Goes(p, [loc[p] EXCEPT !.pc = "ifree", !.puts = Tail(@)])
    /\ Quiet

IputFree(p) ==
    /\ Is(p, "ifree")
    /\ Becomes(Ifree(Here, loc[p].inum))
    /\ Goes(p, [loc[p] EXCEPT !.inum = 0,
                   !.pc = IF loc[p].puts = <<>> THEN loc[p].then ELSE "iput"])
    /\ Quiet
-----------------------------------------------------------------------------
(* namex().                                                                *)

Parent(p) ==
    \/ loc[p].call.op \in {"creat", "mkdir", "mknod", "unlink"}
    \/ loc[p].old # 0

\* Where the call goes on with what namei() or nameiparent() returned.
Resolved(op, linking) ==
    CASE op \in {"creat", "mkdir", "mknod"} -> "create"
      [] op = "trunc"                       -> "open"
      [] op = "link" /\ linking             -> "link2"
      [] OTHER                              -> op

\* The slot where the walk of path starts, and the layer after its iget()
\* or idup().
Start(p, w, path) ==
    IF path # <<>> /\ Head(path) = "/" THEN SlotOf(w, ROOTINO) ELSE cwd[p]
Started(p, w, path) ==
    IF path # <<>> /\ Head(path) = "/" THEN Iget(w, ROOTINO) ELSE Dup(w, cwd[p])
Elements(path) ==
    IF path # <<>> /\ Head(path) = "/" THEN Tail(path) ELSE path

\* begin_op() and the first step of namex(): a file-system call with a path.
Call(p, c) ==
    LET es == Elements(c.path)
    IN  /\ Is(p, "idle")
        /\ Running
        /\ calls < MaxCalls
        /\ calls' = calls + 1
        /\ active' = active \union {p}
        /\ Becomes(Started(p, Here, c.path))
        /\ Goes(p, [At("walk") EXCEPT !.call = c, !.rest = es,
                       !.ip = Start(p, Here, c.path)])
        /\ UNCHANGED <<durable, scan, fileVars>>

\* The end of the path, for namei(); nameiparent() has no parent to return.
WalkEnd(p) ==
    /\ Is(p, "walk")
    /\ loc[p].rest = <<>>
    /\ IF Parent(p)
         THEN Puts(p, [loc[p] EXCEPT !.ip = 0], <<loc[p].ip>>, Bail(p))
         ELSE Goes(p, [loc[p] EXCEPT !.pc = Resolved(loc[p].call.op, FALSE)])
    /\ Becomes(Here)
    /\ Quiet

\* A turn of the loop: ilock(), the tests, dirlookup(), iunlock().
Walk(p) ==
    LET s  == loc[p].ip
        w  == Ilock(Here, s, p)
        u  == Iunlock(w, s)
        di == w.t[s].din
        n  == Head(loc[p].rest)
        i  == Dirlookup(w, s, n)
        up == [loc[p] EXCEPT !.ip = 0]
    IN  /\ Is(p, "walk")
        /\ loc[p].rest # <<>>
        /\ Free(s)
        /\ \/ /\ di.type # "dir" \/ di.nlink = 0
              /\ Becomes(u)
              /\ Puts(p, up, <<s>>, Bail(p))
           \/ /\ di.type = "dir" /\ di.nlink # 0
              /\ Parent(p) /\ Len(loc[p].rest) = 1
              /\ Becomes(u)
              /\ Goes(p, [up EXCEPT !.dp = s,
                             !.pc = Resolved(loc[p].call.op, TRUE)])
           \/ /\ di.type = "dir" /\ di.nlink # 0
              /\ ~(Parent(p) /\ Len(loc[p].rest) = 1)
              /\ i = 0
              /\ Becomes(u)
              /\ Puts(p, up, <<s>>, Bail(p))
           \/ /\ di.type = "dir" /\ di.nlink # 0
              /\ ~(Parent(p) /\ Len(loc[p].rest) = 1)
              /\ i # 0
              /\ Becomes(Iget(u, i))
              /\ Puts(p, [loc[p] EXCEPT !.ip = SlotOf(u, i), !.rest = Tail(@)],
                      <<s>>, "walk")
        /\ Quiet
-----------------------------------------------------------------------------
(* create(), with the parent dp from nameiparent().                        *)

NewType(p) ==
    CASE loc[p].call.op = "mkdir" -> "dir"
      [] loc[p].call.op = "mknod" -> "dev"
      [] OTHER                    -> "file"

\* Lock dp and look for the name.  ialloc() may return any free inode: one
\* before it may have become free behind the back of its loop.
Create(p) ==
    LET s  == loc[p].dp
        w  == Ilock(Here, s, p)
        u  == Iunlock(w, s)
        di == w.t[s].din
        e  == Dirlookup(w, s, Head(loc[p].rest))
        no == \/ di.nlink = 0
              \/ NewType(p) = "dir" /\ di.nlink >= NLINK_MAX
        up == [loc[p] EXCEPT !.dp = 0]
    IN  /\ Is(p, "create")
        /\ Free(s)
        /\ \/ /\ no \/ (e = 0 /\ FreeInodes(w) = {})
              /\ Becomes(u)
              /\ Puts(p, up, <<s>>, "end")
           \/ /\ ~no /\ e # 0
              /\ Becomes(Iget(u, e))
              /\ Puts(p, [up EXCEPT !.ip = SlotOf(u, e)], <<s>>, "found")
           \/ /\ ~no /\ e = 0
              /\ \E i \in FreeInodes(w) :
                    /\ Becomes(Ialloc(w, i, NewType(p)))
                    /\ Goes(p, [loc[p] EXCEPT !.pc = "newinode",
                                   !.ip = SlotOf(Ialloc(w, i, NewType(p)), i)])
        /\ Quiet

\* Fill in the new inode, and enter it into dp last.
NewInode(p) ==
    LET s   == loc[p].ip
        d   == loc[p].dp
        dir == NewType(p) = "dir"
        w1  == AddLinks(Ilock(Here, s, p), s, 1)
        w2  == IF dir /\ CanLink(w1, s)
                 THEN Dirlink(w1, s, "..", w1.t[d].inum)
                 ELSE w1
        ok  == (dir => CanLink(w1, s)) /\ CanLink(w2, d)
        w3  == Dirlink(w2, d, Head(loc[p].rest), w2.t[s].inum)
        w4  == IF dir THEN AddLinks(w3, d, 1) ELSE w3
        w5  == AddLinks(w2, s, -1)
    IN  /\ Is(p, "newinode")
        /\ Free(s)
        /\ \/ /\ ok
              /\ Becomes(Iunlock(w4, d))
              /\ Puts(p, [loc[p] EXCEPT !.dp = 0], <<d>>,
                      IF NewType(p) = "file" THEN "opened" ELSE "made")
           \/ /\ ~ok
              /\ Becomes(Iunlock(w5, s))
              /\ Puts(p, [loc[p] EXCEPT !.ip = 0], <<s>>, "undp")
        /\ Quiet

\* iunlockput(dp) on a failing path.
UnlockDir(p) ==
    /\ Is(p, "undp")
    /\ Becomes(Iunlock(Here, loc[p].dp))
    /\ Puts(p, [loc[p] EXCEPT !.dp = 0], <<loc[p].dp>>, Bail(p))
    /\ Quiet

\* The end of sys_mkdir() and sys_mknod().
Made(p) ==
    /\ Is(p, "made")
    /\ Becomes(Iunlock(Here, loc[p].ip))
    /\ Puts(p, [loc[p] EXCEPT !.ip = 0], <<loc[p].ip>>, "end")
    /\ Quiet
-----------------------------------------------------------------------------
(* sys_open().                                                             *)

FreeFiles == {f \in File : ftable[f].ref = 0}
FreeFds(p) == {fd \in Fd : ofile[p][fd] = 0}

\* ip comes locked from create(), or is locked here.  create() returns what
\* was there already only to open(), and no directory; a directory is opened
\* for reading only.  (What sys_open() tests of a device is left out: failing
\* there is failing here.)
MayOpen(p, type) ==
    /\ loc[p].call.op \in {"open", "trunc", "creat"}
    /\ type = "dir" => loc[p].call.op = "open"

Open(p) ==
    LET s  == loc[p].ip
        w  == IF loc[p].pc = "opened" THEN Here ELSE Ilock(Here, s, p)
        di == w.t[s].din
        u  == IF loc[p].call.op = "trunc" /\ di.type = "file"
                THEN Truncate(w, s) ELSE w
        f  == [ref |-> 1, ip |-> s, writable |-> loc[p].call.op # "open"]
        ok == /\ MayOpen(p, di.type)
              /\ FreeFiles # {} /\ FreeFds(p) # {}
        up == [loc[p] EXCEPT !.ip = 0]
    IN  /\ \/ Is(p, "opened")
           \/ loc[p].pc \in {"open", "found"} /\ ~panicked /\ Free(s)
        /\ \/ /\ ok
              /\ ftable' = [ftable EXCEPT ![Min(FreeFiles)] = f]
              /\ ofile' = [ofile EXCEPT ![p][Min(FreeFds(p))] = Min(FreeFiles)]
              /\ Becomes(Iunlock(u, s))
              /\ Goes(p, [up EXCEPT !.pc = "end"])
           \/ /\ ~ok
              /\ Becomes(Iunlock(w, s))
              /\ Puts(p, up, <<s>>, "end")
              /\ UNCHANGED <<ftable, ofile>>
        /\ UNCHANGED <<durable, scan, active, cwd, calls>>
-----------------------------------------------------------------------------
(* sys_link().                                                             *)

LinkUp_None(w, s) == w
LinkUp(w, s) == AddLinks(w, s, 1)

\* One more link for old, and the walk to the new name's parent.
Link1(p) ==
    LET s  == loc[p].ip
        w  == Ilock(Here, s, p)
        di == w.t[s].din
        u  == Iunlock(LinkUp(w, s), s)
        new == loc[p].call.new
    IN  /\ Is(p, "link")
        /\ Free(s)
        /\ \/ /\ di.type = "dir" \/ di.nlink >= NLINK_MAX
              /\ Becomes(Iunlock(w, s))
              /\ Puts(p, [loc[p] EXCEPT !.ip = 0], <<s>>, "end")
           \/ /\ di.type # "dir" /\ di.nlink < NLINK_MAX
              /\ Becomes(Started(p, u, new))
              /\ Goes(p, [loc[p] EXCEPT !.pc = "walk", !.old = s,
                             !.rest = Elements(new), !.ip = Start(p, u, new)])
        /\ Quiet

\* dp may have been unlinked since nameiparent() looked at it.
Gone_Never(w, s) == FALSE
Gone(w, s) == w.t[s].din.nlink = 0

Link2(p) ==
    LET s == loc[p].dp
        w == Ilock(Here, s, p)
        n == Head(loc[p].rest)
        e == Dirlookup(w, s, n)
        up == [loc[p] EXCEPT !.dp = 0]
    IN  /\ Is(p, "link2")
        /\ Free(s)
        /\ \/ /\ Gone(w, s) \/ (e = 0 /\ ~CanLink(w, s))
              /\ Becomes(Iunlock(w, s))
              /\ Puts(p, up, <<s>>, "bad")
           \/ /\ ~Gone(w, s) /\ e # 0
              /\ Becomes(Iget(w, e))
              /\ Puts(p, loc[p], <<SlotOf(w, e)>>, "undp")
           \/ /\ ~Gone(w, s) /\ e = 0 /\ CanLink(w, s)
              /\ Becomes(Iunlock(Dirlink(w, s, n, w.t[loc[p].old].inum), s))
              /\ Puts(p, [up EXCEPT !.old = 0], <<s, loc[p].old>>, "end")
        /\ Quiet

LinkBad(p) ==
    LET s == loc[p].old
    IN  /\ Is(p, "bad")
        /\ Free(s)
        /\ Becomes(Iunlock(AddLinks(Ilock(Here, s, p), s, -1), s))
        /\ Puts(p, [loc[p] EXCEPT !.old = 0], <<s>>, "end")
        /\ Quiet
-----------------------------------------------------------------------------
(* sys_unlink().                                                           *)

Unlinkable_All(n) == TRUE
Unlinkable(n) == n # ".."

Unlink(p) ==
    LET s == loc[p].dp
        w == Ilock(Here, s, p)
        n == Head(loc[p].rest)
        e == Dirlookup(w, s, n)
    IN  /\ Is(p, "unlink")
        /\ Free(s)
        /\ \/ /\ ~Unlinkable(n) \/ e = 0
              /\ Becomes(Iunlock(w, s))
              /\ Puts(p, [loc[p] EXCEPT !.dp = 0], <<s>>, "end")
           \/ /\ Unlinkable(n) /\ e # 0
              /\ Becomes(Iget(w, e))
              /\ Goes(p, [loc[p] EXCEPT !.pc = "unlink2",
                             !.ip = SlotOf(w, e)])
        /\ Quiet

\* With dp and ip locked: erase the entry, and iunlockput(dp).
Unlink2(p) ==
    LET s  == loc[p].ip
        d  == loc[p].dp
        v  == Ilock(Here, s, p)
        di == v.t[s].din
        w  == [v EXCEPT !.bad = @ \/ di.nlink < 1]
        w1 == SetEntry(w, d, Head(loc[p].rest), 0)
        w2 == IF di.type = "dir" THEN AddLinks(w1, d, -1) ELSE w1
        full == di.type = "dir" /\ ~IsDirEmpty(w, s)
    IN  /\ Is(p, "unlink2")
        /\ Free(s)
        /\ \/ /\ full
              /\ Becomes(Iunlock(w, s))
              /\ Puts(p, [loc[p] EXCEPT !.ip = 0], <<s>>, "undp")
           \/ /\ ~full
              /\ Becomes(Iunlock(w2, d))
              /\ Puts(p, [loc[p] EXCEPT !.dp = 0], <<d>>, "unlink3")
        /\ Quiet

Unlink3(p) ==
    LET s == loc[p].ip
    IN  /\ Is(p, "unlink3")
        /\ Becomes(Iunlock(AddLinks(Here, s, -1), s))
        /\ Puts(p, [loc[p] EXCEPT !.ip = 0], <<s>>, "end")
        /\ Quiet
-----------------------------------------------------------------------------
(* sys_chdir() and the part of kexec() that reads the file.                *)

\* What chdir() puts: the old working directory.  (p->cwd, which only p
\* looks at, gets its new value at once.)
OldCwd_Kept(p) == <<loc[p].ip>>
OldCwd(p) == <<cwd[p]>>

Chdir(p) ==
    LET s == loc[p].ip
        w == Ilock(Here, s, p)
        up == [loc[p] EXCEPT !.ip = 0]
    IN  /\ Is(p, "chdir")
        /\ Free(s)
        /\ Becomes(Iunlock(w, s))
        /\ \/ /\ w.t[s].din.type # "dir"
              /\ Puts(p, up, <<s>>, "end")
              /\ UNCHANGED cwd
           \/ /\ w.t[s].din.type = "dir"
              /\ Puts(p, up, OldCwd(p), "end")
              /\ cwd' = [cwd EXCEPT ![p] = s]
        /\ UNCHANGED <<durable, scan, active, ftable, ofile, calls>>

Exec(p) ==
    LET s == loc[p].ip
    IN  /\ Is(p, "exec")
        /\ Free(s)
        /\ Becomes(Iunlock(Ilock(Here, s, p), s))
        /\ Puts(p, [loc[p] EXCEPT !.ip = 0], <<s>>, "end")
        /\ Quiet
-----------------------------------------------------------------------------
(* Calls on descriptors.                                                   *)

\* filewrite(): a turn of its loop is a transaction of its own.
CallWrite(p, fd) ==
    /\ Is(p, "idle")
    /\ calls < MaxCalls
    /\ ofile[p][fd] # 0
    /\ ftable[ofile[p][fd]].writable
    /\ calls' = calls + 1
    /\ active' = active \union {p}
    /\ Goes(p, [At("write") EXCEPT !.call = [op |-> "write", fd |-> fd]])
    /\ UNCHANGED <<itab, mem, panicked, durable, scan, fileVars>>

\* writei() of a block: the file may be at its limit, or the disk full.
Write(p) ==
    LET s  == ftable[ofile[p][loc[p].call.fd]].ip
        w  == Ilock(Here, s, p)
        di == w.t[s].din
        can == di.type = "file" /\ CanGrow(w, s)
    IN  /\ Is(p, "write")
        /\ Free(s)
        /\ Becomes(Iunlock(IF can THEN Grow(w, s) ELSE w, s))
        /\ Goes(p, [loc[p] EXCEPT !.pc = "end"])
        /\ Quiet

\* fileclose() of descriptor fd, entered at label pc.
FileClose(p, fd) ==
    LET f == ofile[p][fd]
        last == ftable[f].ref = 1
    IN  /\ f # 0
        /\ ofile' = [ofile EXCEPT ![p][fd] = 0]
        /\ \/ /\ ~last
              /\ ftable' = [ftable EXCEPT ![f].ref = @ - 1]
              /\ UNCHANGED <<active, loc>>
           \/ /\ last
              /\ ftable' = [ftable EXCEPT ![f] = NoFile]
              /\ active' = active \union {p}
              /\ Puts(p, loc[p], <<ftable[f].ip>>, "end")
        /\ UNCHANGED <<itab, mem, panicked, durable, scan, cwd>>

\* sys_dup().
DupFd(p, fd) ==
    /\ Is(p, "idle")
    /\ calls < MaxCalls
    /\ ofile[p][fd] # 0
    /\ FreeFds(p) # {}
    /\ calls' = calls + 1
    /\ ofile' = [ofile EXCEPT ![p][Min(FreeFds(p))] = ofile[p][fd]]
    /\ ftable' = [ftable EXCEPT ![ofile[p][fd]].ref = @ + 1]
    /\ UNCHANGED <<itab, mem, panicked, durable, scan, active, loc, cwd>>

Close(p, fd) ==
    /\ Is(p, "idle")
    /\ calls < MaxCalls
    /\ calls' = calls + 1
    /\ FileClose(p, fd)

\* kfork() as far as files go.
Fork(p, q) ==
    LET shared(f) == Cardinality({fd \in Fd : ofile[p][fd] = f})
    IN  /\ Is(p, "idle") /\ Is(q, "unused")
        /\ Running
        /\ calls < MaxCalls
        /\ calls' = calls + 1
        /\ Goes(q, At("idle"))
        /\ ofile' = [ofile EXCEPT ![q] = ofile[p]]
        /\ ftable' = [f \in File |->
                         [ftable[f] EXCEPT !.ref = @ + shared(f)]]
        /\ cwd' = [cwd EXCEPT ![q] = cwd[p]]
        /\ Becomes(Dup(Here, cwd[p]))
        /\ UNCHANGED <<durable, scan, active>>

\* kexit(): close the files one by one, then put the working directory.
CallExit(p) ==
    /\ Is(p, "idle")
    /\ p # InitProc
    /\ Goes(p, [At("exit") EXCEPT !.call = [op |-> "exit"]])
    /\ UNCHANGED <<itab, mem, panicked, durable, scan, active, fileVars, calls>>

ExitFile(p) ==
    /\ Is(p, "exit")
    /\ FreeFds(p) # Fd
    /\ FileClose(p, Min(Fd \ FreeFds(p)))
    /\ UNCHANGED calls

ExitCwd(p) ==
    /\ Is(p, "exit")
    /\ FreeFds(p) = Fd
    /\ active' = active \union {p}
    /\ cwd' = [cwd EXCEPT ![p] = 0]
    /\ Puts(p, loc[p], <<cwd[p]>>, "end")
    /\ UNCHANGED <<itab, mem, panicked, durable, scan, ftable, ofile, calls>>
-----------------------------------------------------------------------------
(* The log, and recovery.                                                  *)

AfterCall(p) ==
    CASE loc[p].call.op # "exit" -> At("idle")
      [] loc[p].call.op = "exit" /\ cwd[p] # 0 ->
            [At("exit") EXCEPT !.call = loc[p].call]
      [] OTHER -> At("unused")

\* end_op(): the last call out commits what all of them did.
EndOp(p) ==
    /\ Is(p, "end")
    /\ active' = active \ {p}
    /\ durable' = IF active = {p} THEN mem ELSE durable
    /\ Goes(p, AfterCall(p))
    /\ UNCHANGED <<itab, mem, panicked, scan, fileVars, calls>>

\* A turn of ireclaim(), up to its iput().
Orphan(i) == mem.ino[i].type # "free" /\ mem.ino[i].nlink = 0

\* Its ilock() and iunlock() make the copy valid: iput() looks at it.
Load_None(w, s) == w
Load(w, s) == Iunlock(Ilock(w, s, InitProc), s)

Reclaim ==
    LET w == Iget(Here, scan)
        s == SlotOf(Here, scan)
    IN  /\ Is(InitProc, "idle")
        /\ ~Running
        /\ scan' = scan + 1
        /\ \/ /\ ~Orphan(scan)
              /\ UNCHANGED <<itab, mem, panicked, active, loc>>
           \/ /\ Orphan(scan)
              /\ Becomes(Load(w, s))
              /\ active' = active \union {InitProc}
              /\ Puts(InitProc, loc[InitProc], <<s>>, "end")
        /\ UNCHANGED <<durable, fileVars, calls>>
-----------------------------------------------------------------------------
Iput(p) == IputDrop(p) \/ IputTruncate(p) \/ IputUnref(p) \/ IputFree(p)

Step(p) ==
    \/ Iput(p)
    \/ WalkEnd(p) \/ Walk(p)
    \/ Create(p) \/ NewInode(p) \/ UnlockDir(p) \/ Made(p) \/ Open(p)
    \/ Link1(p) \/ Link2(p) \/ LinkBad(p)
    \/ Unlink(p) \/ Unlink2(p) \/ Unlink3(p)
    \/ Chdir(p) \/ Exec(p) \/ Write(p)
    \/ ExitFile(p) \/ ExitCwd(p)
    \/ EndOp(p)

Next ==
    \/ \E p \in Proc :
          \/ \E c \in Calls : Call(p, c)
          \/ \E fd \in Fd : CallWrite(p, fd) \/ DupFd(p, fd) \/ Close(p, fd)
          \/ \E q \in Proc : Fork(p, q)
          \/ CallExit(p)
          \/ Step(p)
    \/ Reclaim
    \/ Crash

Spec == Init /\ [][Next]_vars
-----------------------------------------------------------------------------
(* Properties.                                                             *)

Count(S, P(_)) == Cardinality({x \in S : P(x)})

\* The pointers to slot s: working directories, open files, local variables.
Pointers(s) ==
    Count(Proc, LAMBDA p : cwd[p] = s)
        + Count(File, LAMBDA f : ftable[f].ip = s)
        + Count(Proc, LAMBDA p : loc[p].dp = s)
        + Count(Proc, LAMBDA p : loc[p].ip = s)
        + Count(Proc, LAMBDA p : loc[p].old = s)
        + Count(Proc \X (1..2),
                LAMBDA x : /\ x[2] <= Len(loc[x[1]].puts)
                           /\ loc[x[1]].puts[x[2]] = s)

\* ip->ref and f->ref are exact: whatever path a call takes, failing ones
\* included, it puts what it got, once.
RefsExact ==
    /\ \A s \in Slot : itab[s].ref = Pointers(s)
    /\ \A f \in File :
          ftable[f].ref = Count(Proc \X Fd, LAMBDA x : ofile[x[1]][x[2]] = f)

\* iget() never gives an inode two slots: there is one lock per inode.
OneSlotPerInode ==
    \A s, r \in Slot :
        s # r /\ itab[s].ref > 0 /\ itab[r].ref > 0
            => itab[s].inum # itab[r].inum

\* A slot in use that says it is valid has what the disk has, also when the
\* slot, or the inode number, has been used for something else before.
CopyIsCurrent ==
    \A s \in Slot : itab[s].ref > 0 /\ itab[s].valid
                       => itab[s].din = mem.ino[itab[s].inum]

\* None of the panics of fs.c and sysfile.c is reached ("ilock: no type",
\* "freeing free block", "unlink: nlink < 1", "iget: no inodes"), nor does
\* iput() sleep in acquiresleep() with itable.lock held.
NoPanic == ~panicked

Allocated(d) == {i \in Inum : d.ino[i].type # "free"}
Dirs(d) == {i \in Inum : d.ino[i].type = "dir"}
Entries(d, i) == {x \in Dirs(d) \X Name : d.ent[x[1]][x[2]] = i}

\* What fsck would accept, files without links (open ones) included.
Consistent(d) ==
    /\ \A i, j \in Inum : i # j => d.ino[i].blks \cap d.ino[j].blks = {}
    /\ d.bits = UNION {d.ino[i].blks : i \in Allocated(d)}
    /\ \A i \in Inum \ Allocated(d) : Entries(d, i) = {}
    /\ \A i \in Allocated(d) \ Dirs(d) :
          d.ino[i].nlink = Cardinality(Entries(d, i))
    /\ \A i \in Dirs(d) :
          LET subs == {j \in Dirs(d) : j # ROOTINO /\ d.ent[j][".."] = i
                                         /\ Entries(d, j) # {}}
              name == IF i = ROOTINO THEN 1 ELSE Cardinality(Entries(d, i))
          IN  /\ name <= 1
              /\ d.ino[i].nlink = name + Cardinality(subs)

\* The disk is consistent after a crash at any moment, and whenever no call
\* is in progress: link counts are the numbers of links, each block is
\* either free or in one file, no name leads to a free inode.
CrashConsistent ==
    /\ Consistent(durable)
    /\ active = {} => Consistent(mem)

\* Once the system is up, an inode without links is in use by somebody, who
\* will free it, or is being freed: ireclaim() and iput() leave none behind.
NoLostInode ==
    Running =>
        \A i \in Inum :
            Orphan(i) => \/ \E s \in Slot : itab[s].ref > 0 /\ itab[s].inum = i
                         \/ \E p \in Proc : loc[p].inum = i

\* The slot for whose sleep lock a process waits.
Wanted(p) ==
    CASE loc[p].pc \in {"create", "link2", "unlink"} -> loc[p].dp
      [] loc[p].pc \in {"open", "found", "newinode", "link", "unlink2", "chdir",
                        "exec"} -> loc[p].ip
      [] loc[p].pc = "walk" /\ loc[p].rest # <<>> -> loc[p].ip
      [] loc[p].pc = "bad" -> loc[p].old
      [] loc[p].pc = "write" -> ftable[ofile[p][loc[p].call.fd]].ip
      [] OTHER -> 0

\* No circle of processes, a process waiting for itself included, in which
\* each holds the inode lock that the next one waits for.
NoLockCycle ==
    \A S \in SUBSET Proc \ {{}} :
        \E p \in S :
            \/ Wanted(p) = 0
            \/ itab[Wanted(p)].lock \notin S
=============================================================================
