------------------------------- MODULE Inode -------------------------------
(***************************************************************************)
(* The inode layer of fs.c: the in-memory inode table, the on-disk inodes, *)
(* the block bitmap and the directories, as operations on a record         *)
(*                                                                         *)
(*     w = [t |-> the inode table, d |-> the disk, bad |-> panicked?]      *)
(*                                                                         *)
(* that module FileSys strings together to system calls.                   *)
(*                                                                         *)
(* A disk d has, per inode number, a dinode d.ino[i] and, for directories, *)
(* the entries d.ent[i]; d.bits is the bitmap of blocks in use.  The data  *)
(* of blocks, and which block of a file comes where, are left out.         *)
(***************************************************************************)
EXTENDS Integers, FiniteSets, FiniteSetsExt

CONSTANTS
    NINODES,    \* sb.ninodes - 1: the on-disk inodes are 1..NINODES
    NINODE,     \* slots of the inode table
    NBLOCKS,    \* blocks of the data area
    DPB,        \* directory entries that fit in a block
    MAXFILE,    \* blocks of a file
    Name,       \* names of files, other than "." and ".."
    NoProc      \* holder of a free sleep lock

ASSUME InodeAssumption ==
    /\ NINODES \in Nat \ {0}
    /\ NINODE \in Nat \ {0}
    /\ NBLOCKS \in Nat \ {0}
    /\ DPB \in Nat /\ DPB >= 2
    /\ MAXFILE \in Nat
    /\ ".." \notin Name
    /\ IsFiniteSet(Name)

Inum  == 1..NINODES
ROOTINO == 1
Slot  == 1..NINODE
Block == 1..NBLOCKS
Elem  == Name \union {".."}

\* An entry whose inum is 0 is empty; so is ialloc()'s cleared dinode.
NoEntries == [n \in Elem |-> 0]
NoDinode  == [type |-> "free", nlink |-> 0, blks |-> {}]
NoInode   == [inum |-> 0, ref |-> 0, valid |-> FALSE, lock |-> NoProc,
              din |-> NoDinode]
-----------------------------------------------------------------------------
(* Blocks.                                                                 *)

FreeBlocks(w) == Block \ w.d.bits

\* iupdate(): the slot's copy of the inode becomes din, and the disk's too.
Update(w, s, din) ==
    [w EXCEPT !.t[s].din = din, !.d.ino[w.t[s].inum] = din]

\* writei() past the blocks of the file: is it below MAXFILE, and is there a
\* block for bmap() and balloc()?
CanGrow(w, s) ==
    Cardinality(w.t[s].din.blks) < MAXFILE /\ FreeBlocks(w) # {}

\* Then balloc() takes the first free block.
Grow(w, s) ==
    LET b == Min(FreeBlocks(w))
    IN  Update([w EXCEPT !.d.bits = @ \union {b}], s,
               [w.t[s].din EXCEPT !.blks = @ \union {b}])

\* itrunc(), with bfree()'s panic; a directory of size 0 has no entries.
Truncate(w, s) ==
    LET din == w.t[s].din
    IN  Update([w EXCEPT !.d.bits = @ \ din.blks,
                         !.d.ent[w.t[s].inum] = NoEntries,
                         !.bad = @ \/ ~(din.blks \subseteq w.d.bits)],
               s, [din EXCEPT !.blks = {}])
-----------------------------------------------------------------------------
(* The inode table.                                                        *)

\* The test of iget()'s loop.
Matches_Valid(r, i) == r.ref > 0 /\ r.inum = i /\ r.valid
Matches(r, i) == r.ref > 0 /\ r.inum = i

Hits(w, i)   == {s \in Slot : Matches(w.t[s], i)}
Empty(w)     == {s \in Slot : w.t[s].ref = 0}
HasSlot(w, i) == Hits(w, i) \union Empty(w) # {}

\* The slot that iget() returns.
SlotOf(w, i) == Min(IF Hits(w, i) # {} THEN Hits(w, i) ELSE Empty(w))

\* Recycle an inode table entry; its copy is not looked at until it is valid.
Recycle(r, i) ==
    [r EXCEPT !.inum = i, !.ref = 1, !.valid = FALSE, !.din = NoDinode]

Dup(w, s) == [w EXCEPT !.t[s].ref = @ + 1]

Iget(w, i) ==
    IF ~HasSlot(w, i) THEN [w EXCEPT !.bad = TRUE]
    ELSE IF Hits(w, i) # {} THEN Dup(w, SlotOf(w, i))
    ELSE [w EXCEPT !.t[SlotOf(w, i)] = Recycle(@, i)]

\* ilock(), once the sleep lock is free.
Ilock(w, s, p) ==
    LET r == w.t[s]
        din == IF r.valid THEN r.din ELSE w.d.ino[r.inum]
    IN  [w EXCEPT
            !.t[s] = [r EXCEPT !.lock = p, !.valid = TRUE, !.din = din],
            !.bad = @ \/ r.ref < 1 \/ (~r.valid /\ din.type = "free")]

Iunlock(w, s) == [w EXCEPT !.t[s].lock = NoProc]

\* ialloc() marks dinode i allocated and clears the rest of it.
FreeInodes(w) == {i \in Inum : w.d.ino[i].type = "free"}

Ialloc(w, i, type) ==
    Iget([w EXCEPT !.d.ino[i] = [NoDinode EXCEPT !.type = type]], i)

\* iput(): does it drop the last reference of an inode without links?
IsLast(w, s) ==
    w.t[s].ref = 1 /\ w.t[s].valid /\ w.t[s].din.nlink = 0

\* iput()'s work under the sleep lock, for such an inode.
IputLast_Freed(w, s) ==
    LET u == Truncate(w, s)
    IN  [u EXCEPT !.t[s].valid = FALSE, !.t[s].din = NoDinode,
                  !.d.ino[w.t[s].inum].type = "free"]
IputLast(w, s) ==
    [Truncate(w, s) EXCEPT !.t[s].valid = FALSE, !.t[s].din = NoDinode]

Unref(w, s) == [w EXCEPT !.t[s].ref = @ - 1]

Ifree(w, i) == [w EXCEPT !.d.ino[i].type = "free"]
-----------------------------------------------------------------------------
(* Directories.  Slot s holds a locked directory.                          *)

Dirlookup(w, s, n) == w.d.ent[w.t[s].inum][n]

\* All entries in use, "." and ".." among them: dirlink() needs a block.
DirFull(w, s) ==
    LET used == {n \in Name : Dirlookup(w, s, n) # 0}
    IN  Cardinality(used) + 2 >= DPB * Cardinality(w.t[s].din.blks)

CanLink(w, s) == DirFull(w, s) => CanGrow(w, s)

SetEntry(w, s, n, i) == [w EXCEPT !.d.ent[w.t[s].inum][n] = i]

\* dirlink(), when it can succeed.
Dirlink(w, s, n, i) ==
    SetEntry(IF DirFull(w, s) THEN Grow(w, s) ELSE w, s, n, i)

IsDirEmpty(w, s) == \A n \in Name : Dirlookup(w, s, n) = 0

AddLinks(w, s, k) ==
    Update(w, s, [w.t[s].din EXCEPT !.nlink = @ + k])
=============================================================================
