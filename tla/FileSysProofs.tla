--------------------------- MODULE FileSysProofs ---------------------------
(***************************************************************************)
(* The reference counts of the inode table and of the file table are       *)
(* exact, for any number of processes, inodes, slots, files and            *)
(* descriptors, and for any disk, consistent or not.                       *)
(*                                                                         *)
(* The operators of Inode take one layer w to the next; the first part     *)
(* says of each which references it gains or drops. The second part counts *)
(* the pointers: a step of process p changes only the pointers that p has, *)
(* so that it is enough to compare p's own before and after (LocalStep,    *)
(* FileStep). FsInv says which pointers a process has at each label. The   *)
(* third part has one lemma per action.                                    *)
(***************************************************************************)
EXTENDS FileSys, FiniteSetTheorems, WellFoundedInduction, TLAPS

-----------------------------------------------------------------------------
\* The search for a free slot, file or descriptor returns one.
LEMMA MinIsMember ==
    ASSUME NEW S, S \subseteq Nat, S # {}
    PROVE  Min(S) \in S
<1>1. PICK x \in S : \A y \in S : <<y, x>> \notin OpToRel(<, Nat)
  BY NatLessThanWellFounded, WFMin
<1>2. ASSUME NEW y \in S PROVE ~(y < x)
  <2>1. x \in Nat /\ y \in Nat /\ <<y, x>> \notin OpToRel(<, Nat)
    BY <1>1
  <2> QED
    BY <2>1, Zenon DEF OpToRel
<1>3. \A y \in S : x =< y
  BY <1>2
<1> QED
  BY <1>3 DEF Min
-----------------------------------------------------------------------------
(* The inode layer: what its operators do to the reference counts.         *)

\* Records with these fields, whatever is in them; ref is a number.
IsEntry(r) ==
    r \in [inum : {r.inum}, ref : Int, valid : {r.valid}, lock : {r.lock},
           din : {r.din}]

OneSlot(t) ==
    \A s, r \in Slot :
        s # r /\ t[s].ref > 0 /\ t[r].ref > 0 => t[s].inum # t[r].inum

IsTable(t) ==
    /\ t = [s \in Slot |-> t[s]]
    /\ \A s \in Slot : IsEntry(t[s])
    /\ OneSlot(t)

IsLayer(w) ==
    /\ w \in [t : {w.t}, d : {w.d}, bad : {w.bad}]
    /\ IsTable(w.t)

\* u has the references that w has.
Same(w, u) ==
    /\ IsLayer(u)
    /\ \A s \in Slot : u.t[s].ref = w.t[s].ref

\* u has one more reference to slot s.
Gains(w, u, s) ==
    /\ s \in Slot
    /\ IsLayer(u)
    /\ u.t[s].ref = w.t[s].ref + 1
    /\ \A r \in Slot \ {s} : u.t[r].ref = w.t[r].ref

\* An entry is replaced by one with the same inode number and count.
LEMMA EntrySame ==
    ASSUME NEW t, IsTable(t), NEW s, NEW r,
           s \in Slot => IsEntry(r) /\ r.ref = t[s].ref /\ r.inum = t[s].inum
    PROVE  /\ IsTable([t EXCEPT ![s] = r])
           /\ \A q \in Slot : [t EXCEPT ![s] = r][q].ref = t[q].ref
<1> DEFINE u == [t EXCEPT ![s] = r]
<1>1. \A q \in Slot : u[q] = IF q = s THEN r ELSE t[q]
  BY DEF IsTable
<1>2. u = [q \in Slot |-> u[q]]
  BY DEF IsTable
<1> HIDE DEF u
<1>3. \A q \in Slot : IsEntry(u[q]) /\ u[q].ref = t[q].ref /\ u[q].inum = t[q].inum
  BY <1>1 DEF IsTable
<1>4. OneSlot(u)
  BY <1>3 DEF IsTable, OneSlot
<1>5. IsTable(u) /\ \A q \in Slot : u[q].ref = t[q].ref
  BY <1>2, <1>3, <1>4 DEF IsTable
<1> QED
  BY <1>5 DEF u

\* So is the entry of a slot, in a layer.
LEMMA SlotSame ==
    ASSUME NEW w, IsLayer(w), NEW u, NEW s, NEW r,
           u \in [t : {u.t}, d : {u.d}, bad : {u.bad}],
           u.t = [w.t EXCEPT ![s] = r],
           s \in Slot => IsEntry(r) /\ r.ref = w.t[s].ref /\ r.inum = w.t[s].inum
    PROVE  Same(w, u)
<1>1. IsTable(w.t)
  BY DEF IsLayer
<1>2. IsTable(u.t) /\ \A q \in Slot : u.t[q].ref = w.t[q].ref
  BY <1>1, EntrySame
<1> QED
  BY <1>2 DEF IsLayer, Same

\* Having the same references is transitive.
LEMMA SameSame ==
    ASSUME NEW w, NEW u, NEW v, Same(w, u), Same(u, v)
    PROVE  Same(w, v)
BY DEF Same

\* iupdate() writes the disk.
LEMMA UpdateSame ==
    ASSUME NEW w, IsLayer(w), NEW s, NEW din
    PROVE  Same(w, Update(w, s, din))
<1> DEFINE u == Update(w, s, din)
           r == [w.t[s] EXCEPT !.din = din]
<1>1. u \in [t : {u.t}, d : {u.d}, bad : {u.bad}] /\ u.t = [w.t EXCEPT ![s] = r]
  BY DEF IsLayer, Update
<1>2. s \in Slot => IsEntry(w.t[s])
  BY DEF IsLayer, IsTable
<1>3. s \in Slot => IsEntry(r) /\ r.ref = w.t[s].ref /\ r.inum = w.t[s].inum
  BY <1>2 DEF IsEntry
<1> HIDE DEF u, r
<1>4. Same(w, u)
  BY <1>1, <1>3, SlotSame
<1> QED
  BY <1>4 DEF u

\* ilock() locks the slot, and reads the inode if it is not valid.
LEMMA IlockSame ==
    ASSUME NEW w, IsLayer(w), NEW s, NEW p
    PROVE  Same(w, Ilock(w, s, p))
<1> DEFINE din == IF w.t[s].valid THEN w.t[s].din ELSE w.d.ino[w.t[s].inum]
           u == Ilock(w, s, p)
           r == [w.t[s] EXCEPT !.lock = p, !.valid = TRUE, !.din = din]
<1>1. u \in [t : {u.t}, d : {u.d}, bad : {u.bad}] /\ u.t = [w.t EXCEPT ![s] = r]
  BY DEF IsLayer, Ilock
<1>2. s \in Slot => IsEntry(w.t[s])
  BY DEF IsLayer, IsTable
<1>3. s \in Slot => IsEntry(r) /\ r.ref = w.t[s].ref /\ r.inum = w.t[s].inum
  <2> HIDE DEF din
  <2> QED
    BY <1>2 DEF IsEntry
<1> HIDE DEF u, r
<1>4. Same(w, u)
  BY <1>1, <1>3, SlotSame
<1> QED
  BY <1>4 DEF u

\* iunlock() releases the lock.
LEMMA IunlockSame ==
    ASSUME NEW w, IsLayer(w), NEW s
    PROVE  Same(w, Iunlock(w, s))
<1> DEFINE u == Iunlock(w, s)
           r == [w.t[s] EXCEPT !.lock = NoProc]
<1>1. u \in [t : {u.t}, d : {u.d}, bad : {u.bad}] /\ u.t = [w.t EXCEPT ![s] = r]
  BY DEF IsLayer, Iunlock
<1>2. s \in Slot => IsEntry(w.t[s])
  BY DEF IsLayer, IsTable
<1>3. s \in Slot => IsEntry(r) /\ r.ref = w.t[s].ref /\ r.inum = w.t[s].inum
  BY <1>2 DEF IsEntry
<1> HIDE DEF u, r
<1>4. Same(w, u)
  BY <1>1, <1>3, SlotSame
<1> QED
  BY <1>4 DEF u

\* The table is left alone.
LEMMA DiskSame ==
    ASSUME NEW w, IsLayer(w), NEW u, u \in [t : {w.t}, d : {u.d}, bad : {u.bad}]
    PROVE  Same(w, u)
BY DEF Same, IsLayer

\* ip->nlink is changed and written back.
LEMMA AddLinksSame ==
    ASSUME NEW w, IsLayer(w), NEW s, NEW k
    PROVE  Same(w, AddLinks(w, s, k))
BY UpdateSame DEF AddLinks

\* writei() gives the inode a block.
LEMMA GrowSame ==
    ASSUME NEW w, IsLayer(w), NEW s
    PROVE  Same(w, Grow(w, s))
<1> DEFINE b == Min(FreeBlocks(w))
           u == [w EXCEPT !.d.bits = @ \union {b}]
           din == [w.t[s].din EXCEPT !.blks = @ \union {b}]
<1>1. Same(w, u)
  <2> HIDE DEF b
  <2>1. u \in [t : {w.t}, d : {u.d}, bad : {u.bad}]
    BY DEF IsLayer
  <2> QED
    BY <2>1, DiskSame
<1>2. Grow(w, s) = Update(u, s, din)
  BY DEF Grow
<1> HIDE DEF u, din
<1> QED
  BY <1>1, <1>2, UpdateSame, SameSame DEF Same

\* itrunc() frees the blocks of the inode.
LEMMA TruncateSame ==
    ASSUME NEW w, IsLayer(w), NEW s
    PROVE  Same(w, Truncate(w, s))
<1> DEFINE din == w.t[s].din
           u == [w EXCEPT !.d.bits = @ \ din.blks,
                         !.d.ent[w.t[s].inum] = NoEntries,
                         !.bad = @ \/ ~(din.blks \subseteq w.d.bits)]
           din2 == [din EXCEPT !.blks = {}]
<1>1. Same(w, u)
  <2>1. u \in [t : {w.t}, d : {u.d}, bad : {u.bad}]
    BY DEF IsLayer
  <2> QED
    BY <2>1, DiskSame
<1>2. Truncate(w, s) = Update(u, s, din2)
  BY DEF Truncate
<1> HIDE DEF u, din2
<1> QED
  BY <1>1, <1>2, UpdateSame, SameSame DEF Same

\* A directory entry is written or cleared.
LEMMA SetEntrySame ==
    ASSUME NEW w, IsLayer(w), NEW s, NEW n, NEW i
    PROVE  Same(w, SetEntry(w, s, n, i))
<1>1. SetEntry(w, s, n, i) \in [t : {w.t}, d : {SetEntry(w, s, n, i).d},
                                bad : {SetEntry(w, s, n, i).bad}]
  BY DEF IsLayer, SetEntry
<1> QED
  BY <1>1, DiskSame

\* dirlink() writes an entry, in a new block if it has to.
LEMMA DirlinkSame ==
    ASSUME NEW w, IsLayer(w), NEW s, NEW n, NEW i
    PROVE  Same(w, Dirlink(w, s, n, i))
<1> DEFINE u == IF DirFull(w, s) THEN Grow(w, s) ELSE w
<1>1. Same(w, u)
  BY GrowSame DEF Same
<1>2. Same(u, SetEntry(u, s, n, i))
  BY <1>1, SetEntrySame DEF Same
<1>3. Dirlink(w, s, n, i) = SetEntry(u, s, n, i)
  BY DEF Dirlink
<1> HIDE DEF u
<1> QED
  BY <1>1, <1>2, <1>3, SameSame

\* The inode becomes free on the disk.
LEMMA IfreeSame ==
    ASSUME NEW w, IsLayer(w), NEW i
    PROVE  Same(w, Ifree(w, i))
<1>1. Ifree(w, i) \in [t : {w.t}, d : {Ifree(w, i).d}, bad : {Ifree(w, i).bad}]
  BY DEF IsLayer, Ifree
<1> QED
  BY <1>1, DiskSame

\* What iput() does before it gives up the last reference of an unlinked inode.
LEMMA IputLastSame ==
    ASSUME NEW w, IsLayer(w), NEW s
    PROVE  Same(w, IputLast(w, s))
<1> DEFINE v == Truncate(w, s)
           u == IputLast(w, s)
           r == [v.t[s] EXCEPT !.valid = FALSE, !.din = NoDinode]
<1>1. Same(w, v)
  BY TruncateSame
<1>2. u = [v EXCEPT !.t[s].valid = FALSE, !.t[s].din = NoDinode]
  BY DEF IputLast
<1> HIDE DEF v, u
<1>3. u \in [t : {u.t}, d : {u.d}, bad : {u.bad}]
      /\ u.t = [v.t EXCEPT ![s] = r]
  BY <1>1, <1>2 DEF Same, IsLayer, IsTable
<1>4. s \in Slot => IsEntry(v.t[s])
  BY <1>1 DEF Same, IsLayer, IsTable
<1>5. s \in Slot => IsEntry(r) /\ r.ref = v.t[s].ref /\ r.inum = v.t[s].inum
  BY <1>4 DEF IsEntry
<1> HIDE DEF r
<1>6. Same(v, u)
  BY <1>1, <1>3, <1>5, SlotSame DEF Same
<1>7. Same(w, u)
  BY <1>1, <1>6, SameSame
<1> QED
  BY <1>7 DEF u

\* The ip->ref-- of iput().
LEMMA UnrefCounts ==
    ASSUME NEW w, IsLayer(w), NEW s \in Slot
    PROVE  Gains(Unref(w, s), w, s) /\ IsLayer(Unref(w, s))
<1> DEFINE u == Unref(w, s)
           r == [w.t[s] EXCEPT !.ref = @ - 1]
<1>1. u \in [t : {u.t}, d : {u.d}, bad : {u.bad}] /\ u.t = [w.t EXCEPT ![s] = r]
  BY DEF IsLayer, Unref
<1>2. IsEntry(w.t[s])
  BY DEF IsLayer, IsTable
<1>3. IsEntry(r) /\ r.ref = w.t[s].ref - 1 /\ r.inum = w.t[s].inum
  BY <1>2 DEF IsEntry
<1> HIDE DEF u, r
<1>4. w.t[s].ref \in Int
  BY <1>2 DEF IsEntry
<1>5. u.t[s] = r /\ \A q \in Slot \ {s} : u.t[q] = w.t[q]
  BY <1>1 DEF IsLayer, IsTable
<1>6. u.t = [q \in Slot |-> u.t[q]]
  BY <1>1 DEF IsLayer, IsTable
<1>7. \A q \in Slot : IsEntry(u.t[q]) /\ u.t[q].inum = w.t[q].inum
                      /\ (u.t[q].ref > 0 => w.t[q].ref > 0)
  BY <1>3, <1>4, <1>5 DEF IsLayer, IsTable
<1>8. OneSlot(u.t)
  BY <1>7 DEF IsLayer, IsTable, OneSlot
<1>9. IsLayer(u)
  BY <1>1, <1>6, <1>7, <1>8 DEF IsLayer, IsTable
<1>10. Gains(u, w, s)
  BY <1>3, <1>4, <1>5 DEF Gains
<1> QED
  BY <1>9, <1>10 DEF u

\* idup() of a slot that is in use.
LEMMA DupGains ==
    ASSUME NEW w, IsLayer(w), NEW s \in Slot, w.t[s].ref > 0
    PROVE  Gains(w, Dup(w, s), s) /\ Dup(w, s).t[s].inum = w.t[s].inum
<1> DEFINE u == Dup(w, s)
           r == [w.t[s] EXCEPT !.ref = @ + 1]
<1>1. u \in [t : {u.t}, d : {u.d}, bad : {u.bad}] /\ u.t = [w.t EXCEPT ![s] = r]
  BY DEF IsLayer, Dup
<1>2. IsEntry(w.t[s])
  BY DEF IsLayer, IsTable
<1>3. IsEntry(r) /\ r.ref = w.t[s].ref + 1 /\ r.inum = w.t[s].inum
  BY <1>2 DEF IsEntry
<1> HIDE DEF u, r
<1>4. w.t[s].ref \in Int
  BY <1>2 DEF IsEntry
<1>5. u.t[s] = r /\ \A q \in Slot \ {s} : u.t[q] = w.t[q]
  BY <1>1 DEF IsLayer, IsTable
<1>6. u.t = [q \in Slot |-> u.t[q]]
  BY <1>1 DEF IsLayer, IsTable
<1>7. \A q \in Slot : IsEntry(u.t[q]) /\ u.t[q].inum = w.t[q].inum
                      /\ (u.t[q].ref > 0 => w.t[q].ref > 0)
  BY <1>3, <1>4, <1>5 DEF IsLayer, IsTable
<1>8. OneSlot(u.t)
  BY <1>7 DEF IsLayer, IsTable, OneSlot
<1>9. IsLayer(u)
  BY <1>1, <1>6, <1>7, <1>8 DEF IsLayer, IsTable
<1>10. Gains(w, u, s) /\ u.t[s].inum = w.t[s].inum
  BY <1>3, <1>5, <1>9 DEF Gains
<1> QED
  BY <1>10 DEF u

\* iget() finds the slot of an inode, or takes one that is not in use.
LEMMA SlotOfMatches ==
    ASSUME NEW w, NEW i, HasSlot(w, i)
    PROVE  /\ SlotOf(w, i) \in Slot
           /\ Hits(w, i) # {} => SlotOf(w, i) \in Hits(w, i)
           /\ Hits(w, i) = {} => SlotOf(w, i) \in Empty(w)
<1>1. Hits(w, i) \subseteq Slot /\ Empty(w) \subseteq Slot /\ Slot \subseteq Nat
  BY DEF Hits, Empty, Slot
<1>2. CASE Hits(w, i) # {}
  BY <1>1, <1>2, MinIsMember DEF SlotOf
<1>3. CASE Hits(w, i) = {}
  BY <1>1, <1>3, MinIsMember DEF SlotOf, HasSlot
<1> QED
  BY <1>2, <1>3

\* iget() takes an entry over for another inode.
LEMMA RecycledEntry ==
    ASSUME NEW r, IsEntry(r), NEW i
    PROVE  IsEntry(Recycle(r, i)) /\ Recycle(r, i).ref = 1 /\ Recycle(r, i).inum = i
<1> DEFINE q == [r EXCEPT !.inum = i, !.ref = 1, !.valid = FALSE, !.din = NoDinode]
<1>1. q.ref = 1 /\ q.inum = i
  BY DEF IsEntry
<1>2. q \in [inum : {q.inum}, ref : {q.ref}, valid : {q.valid}, lock : {q.lock},
             din : {q.din}]
  BY DEF IsEntry
<1> HIDE DEF q
<1>3. IsEntry(q) /\ q.ref = 1 /\ q.inum = i
  BY <1>1, <1>2 DEF IsEntry
<1> QED
  BY <1>3 DEF q, Recycle

\* iget() adds one reference, to a slot that has the inode.
LEMMA IgetGains ==
    ASSUME NEW w, IsLayer(w), NEW i, HasSlot(w, i)
    PROVE  /\ Gains(w, Iget(w, i), SlotOf(w, i))
           /\ Iget(w, i).t[SlotOf(w, i)].inum = i
<1> DEFINE s == SlotOf(w, i)
<1>1. s \in Slot
  BY SlotOfMatches
<1>2. CASE Hits(w, i) # {}
  <2>1. w.t[s].ref > 0 /\ w.t[s].inum = i
    BY <1>2, SlotOfMatches DEF Hits, Matches
  <2>2. Iget(w, i) = Dup(w, s)
    BY <1>2 DEF Iget
  <2> QED
    BY <1>1, <2>1, <2>2, DupGains
<1>3. CASE Hits(w, i) = {}
  <2> DEFINE u == Iget(w, i)
             r == Recycle(w.t[s], i)
  <2>1. u \in [t : {u.t}, d : {u.d}, bad : {u.bad}] /\ u.t = [w.t EXCEPT ![s] = r]
    BY <1>3 DEF IsLayer, Iget
  <2>2. IsEntry(w.t[s])
    BY <1>1 DEF IsLayer, IsTable
  <2>3. IsEntry(r) /\ r.ref = 1 /\ r.inum = i
    BY <2>2, RecycledEntry
  <2>4. w.t[s].ref = 0
    BY <1>3, SlotOfMatches DEF Empty
  <2> HIDE DEF s, u, r
  <2>5. u.t[s] = r /\ \A q \in Slot \ {s} : u.t[q] = w.t[q]
    BY <1>1, <2>1 DEF IsLayer, IsTable
  <2>6. u.t = [q \in Slot |-> u.t[q]]
    BY <2>1 DEF IsLayer, IsTable
  <2>7. \A q \in Slot : IsEntry(u.t[q])
    BY <2>3, <2>5 DEF IsLayer, IsTable
  <2>8. \A q \in Slot \ {s} : u.t[q].ref > 0 => u.t[q].inum # i
    BY <1>3, <2>5 DEF Hits, Matches
  <2>9. OneSlot(u.t)
    BY <2>3, <2>5, <2>8 DEF IsLayer, IsTable, OneSlot
  <2>10. IsLayer(u)
    BY <2>1, <2>6, <2>7, <2>9 DEF IsLayer, IsTable
  <2>11. Gains(w, u, s) /\ u.t[s].inum = i
    BY <1>1, <2>3, <2>4, <2>5, <2>10 DEF Gains
  <2> QED
    BY <2>11 DEF u, s
<1> QED
  BY <1>2, <1>3

\* iget()'s panic.
LEMMA IgetFails ==
    ASSUME NEW w, IsLayer(w), NEW i, ~HasSlot(w, i)
    PROVE  Same(w, Iget(w, i)) /\ Iget(w, i).bad
<1>1. Iget(w, i) = [w EXCEPT !.bad = TRUE]
  BY DEF Iget
<1>2. Iget(w, i) \in [t : {w.t}, d : {Iget(w, i).d}, bad : {Iget(w, i).bad}]
      /\ Iget(w, i).bad = TRUE
  BY <1>1 DEF IsLayer
<1> QED
  BY <1>2, DiskSame

\* A slot found for a new inode is the one that ialloc() returns.
LEMMA OneHit ==
    ASSUME NEW w, IsLayer(w), NEW s \in Slot, w.t[s].ref > 0
    PROVE  SlotOf(w, w.t[s].inum) = s
<1> DEFINE i == w.t[s].inum
<1>1. Hits(w, i) = {s}
  BY DEF Hits, Matches, IsLayer, IsTable, OneSlot
<1>2. HasSlot(w, i)
  BY <1>1 DEF HasSlot
<1> QED
  BY <1>1, <1>2, SlotOfMatches
-----------------------------------------------------------------------------
(* Counting pointers.                                                      *)

B(x) == IF x THEN 1 ELSE 0

\* Two sets that differ in at most one element.
LEMMA OneElement ==
    ASSUME NEW S, IsFiniteSet(S), NEW T, NEW x, S \ {x} = T \ {x}
    PROVE  /\ IsFiniteSet(T)
           /\ Cardinality(S) \in Nat /\ Cardinality(T) \in Nat
           /\ Cardinality(T) = Cardinality(S) - B(x \in S) + B(x \in T)
<1>1. T \subseteq S \union {x}
  OBVIOUS
<1>2. IsFiniteSet(T)
  BY <1>1, FS_AddElement, FS_Subset
<1>3. Cardinality(S) \in Nat /\ Cardinality(T) \in Nat
  BY <1>2, FS_CardinalityType
<1>4. Cardinality(S \ {x}) = IF x \in S THEN Cardinality(S) - 1 ELSE Cardinality(S)
  BY FS_RemoveElement
<1>5. Cardinality(T \ {x}) = IF x \in T THEN Cardinality(T) - 1 ELSE Cardinality(T)
  BY <1>2, FS_RemoveElement
<1>6. Cardinality(S \ {x}) = Cardinality(T \ {x})
  OBVIOUS
<1>7. CASE x \in S /\ x \in T
  BY <1>2, <1>3, <1>4, <1>5, <1>6, <1>7 DEF B
<1>8. CASE x \in S /\ x \notin T
  BY <1>2, <1>3, <1>4, <1>5, <1>6, <1>8 DEF B
<1>9. CASE x \notin S /\ x \in T
  BY <1>2, <1>3, <1>4, <1>5, <1>6, <1>9 DEF B
<1>10. CASE x \notin S /\ x \notin T
  BY <1>2, <1>3, <1>4, <1>5, <1>6, <1>10 DEF B
<1> QED
  BY <1>7, <1>8, <1>9, <1>10

\* The pointers to s from p's working directory and local variables.
Due(q, k, s) == B(k <= Len(q) /\ q[k] = s)

Locals(r, s) ==
    B(r.dp = s) + B(r.ip = s) + B(r.old = s) + Due(r.puts, 1, s) + Due(r.puts, 2, s)

Mine(p, s) == B(cwd[p] = s) + Locals(loc[p], s)

FileRefs(s) == Cardinality({f \in File : ftable[f].ip = s})

ProcRefs(s) ==
    Cardinality({p \in Proc : cwd[p] = s})
        + Cardinality({p \in Proc : loc[p].dp = s})
        + Cardinality({p \in Proc : loc[p].ip = s})
        + Cardinality({p \in Proc : loc[p].old = s})
        + Cardinality({x \in Proc \X (1..2) :
                          /\ x[2] <= Len(loc[x[1]].puts)
                          /\ loc[x[1]].puts[x[2]] = s})

\* The descriptors for file f.
Opened(f) == Cardinality({x \in Proc \X Fd : ofile[x[1]][x[2]] = f})

\* RefsExact in terms of Pointers and Opened.
LEMMA RefsAre ==
    RefsExact <=> /\ \A s \in Slot : itab[s].ref = Pointers(s)
                  /\ \A f \in File : ftable[f].ref = Opened(f)
BY DEF RefsExact, Count, Opened

\* What is counted is finite.
LEMMA TablesFinite ==
    IsFiniteSet(Proc) /\ IsFiniteSet(File) /\ IsFiniteSet(Fd)
        /\ IsFiniteSet(Proc \X (1..2)) /\ IsFiniteSet(Proc \X Fd)
<1>1. IsFiniteSet(Proc) /\ NFILE \in Int /\ NOFILE \in Int /\ 1 \in Int /\ 2 \in Int
  BY FileSysAssumption
<1>2. IsFiniteSet(File)
  BY <1>1, FS_Interval DEF File
<1>3. IsFiniteSet(Fd)
  BY <1>1, FS_Interval DEF Fd
<1>4. IsFiniteSet(1..2)
  BY <1>1, FS_Interval
<1>5. IsFiniteSet(Proc \X (1..2)) /\ IsFiniteSet(Proc \X Fd)
  BY <1>1, <1>3, <1>4, FS_Product
<1> QED
  BY <1>1, <1>2, <1>3, <1>5

\* The pointers to a slot are those of processes and those of files.
LEMMA PointersAre ==
    ASSUME NEW s
    PROVE  /\ Pointers(s) = ProcRefs(s) + FileRefs(s)
           /\ ProcRefs(s) \in Nat /\ FileRefs(s) \in Nat
<1>1. /\ IsFiniteSet(Proc) /\ IsFiniteSet(File) /\ IsFiniteSet(Proc \X (1..2))
  BY TablesFinite
<1>2. /\ IsFiniteSet({p \in Proc : cwd[p] = s})
      /\ IsFiniteSet({p \in Proc : loc[p].dp = s})
      /\ IsFiniteSet({p \in Proc : loc[p].ip = s})
      /\ IsFiniteSet({p \in Proc : loc[p].old = s})
      /\ IsFiniteSet({f \in File : ftable[f].ip = s})
      /\ IsFiniteSet({x \in Proc \X (1..2) : /\ x[2] <= Len(loc[x[1]].puts)
                                             /\ loc[x[1]].puts[x[2]] = s})
  BY <1>1, FS_Subset
<1>3. /\ Cardinality({p \in Proc : cwd[p] = s}) \in Nat
      /\ Cardinality({p \in Proc : loc[p].dp = s}) \in Nat
      /\ Cardinality({p \in Proc : loc[p].ip = s}) \in Nat
      /\ Cardinality({p \in Proc : loc[p].old = s}) \in Nat
      /\ Cardinality({f \in File : ftable[f].ip = s}) \in Nat
      /\ Cardinality({x \in Proc \X (1..2) : /\ x[2] <= Len(loc[x[1]].puts)
                                             /\ loc[x[1]].puts[x[2]] = s}) \in Nat
  BY <1>2, FS_CardinalityType
<1> QED
  BY <1>3 DEF Pointers, Count, ProcRefs, FileRefs

\* What p has for itself, or a file, changes the count by as much.
LEMMA ProcMove ==
    ASSUME NEW p \in Proc, NEW s,
           \A q \in Proc \ {p} : cwd'[q] = cwd[q] /\ loc'[q] = loc[q]
    PROVE  /\ ProcRefs(s) \in Nat /\ ProcRefs(s)' \in Nat
           /\ ProcRefs(s)' = ProcRefs(s) - Mine(p, s) + Mine(p, s)'
<1> DEFINE A1 == {q \in Proc : cwd[q] = s}
           A2 == {q \in Proc : loc[q].dp = s}
           A3 == {q \in Proc : loc[q].ip = s}
           A4 == {q \in Proc : loc[q].old = s}
           A5 == {x \in Proc \X (1..2) : /\ x[2] <= Len(loc[x[1]].puts)
                                         /\ loc[x[1]].puts[x[2]] = s}
           M5 == (A5 \ {<<p, 1>>}) \union (A5' \intersect {<<p, 1>>})
<1>1. /\ IsFiniteSet(A1) /\ IsFiniteSet(A2) /\ IsFiniteSet(A3) /\ IsFiniteSet(A4)
      /\ IsFiniteSet(A5)
  BY TablesFinite, FS_Subset
<1>2. /\ A1 \ {p} = A1' \ {p} /\ A2 \ {p} = A2' \ {p} /\ A3 \ {p} = A3' \ {p}
      /\ A4 \ {p} = A4' \ {p}
  OBVIOUS
<1>3. A5 \ {<<p, 1>>, <<p, 2>>} = A5' \ {<<p, 1>>, <<p, 2>>}
  OBVIOUS
<1>4. A5 \ {<<p, 1>>} = M5 \ {<<p, 1>>} /\ M5 \ {<<p, 2>>} = A5' \ {<<p, 2>>}
  BY <1>3
<1>5. /\ (p \in A1) = (cwd[p] = s) /\ (p \in A1') = (cwd'[p] = s)
      /\ (p \in A2) = (loc[p].dp = s) /\ (p \in A2') = (loc'[p].dp = s)
      /\ (p \in A3) = (loc[p].ip = s) /\ (p \in A3') = (loc'[p].ip = s)
      /\ (p \in A4) = (loc[p].old = s) /\ (p \in A4') = (loc'[p].old = s)
  OBVIOUS
<1>6. /\ (<<p, 1>> \in A5) = (1 <= Len(loc[p].puts) /\ loc[p].puts[1] = s)
      /\ (<<p, 2>> \in A5) = (2 <= Len(loc[p].puts) /\ loc[p].puts[2] = s)
      /\ (<<p, 1>> \in A5') = (1 <= Len(loc'[p].puts) /\ loc'[p].puts[1] = s)
      /\ (<<p, 2>> \in A5') = (2 <= Len(loc'[p].puts) /\ loc'[p].puts[2] = s)
      /\ (<<p, 1>> \in M5) = (<<p, 1>> \in A5') /\ (<<p, 2>> \in M5) = (<<p, 2>> \in A5)
  OBVIOUS
<1>7. ProcRefs(s) = Cardinality(A1) + Cardinality(A2) + Cardinality(A3)
                        + Cardinality(A4) + Cardinality(A5)
  BY DEF ProcRefs
<1>8. ProcRefs(s)' = Cardinality(A1') + Cardinality(A2') + Cardinality(A3')
                         + Cardinality(A4') + Cardinality(A5')
  BY DEF ProcRefs
<1> HIDE DEF A1, A2, A3, A4, A5, M5
<1>9. /\ Cardinality(A1) \in Nat /\ Cardinality(A1') \in Nat
      /\ Cardinality(A1') = Cardinality(A1) - B(p \in A1) + B(p \in A1')
  BY <1>1, <1>2, OneElement
<1>10. /\ Cardinality(A2) \in Nat /\ Cardinality(A2') \in Nat
       /\ Cardinality(A2') = Cardinality(A2) - B(p \in A2) + B(p \in A2')
  BY <1>1, <1>2, OneElement
<1>11. /\ Cardinality(A3) \in Nat /\ Cardinality(A3') \in Nat
       /\ Cardinality(A3') = Cardinality(A3) - B(p \in A3) + B(p \in A3')
  BY <1>1, <1>2, OneElement
<1>12. /\ Cardinality(A4) \in Nat /\ Cardinality(A4') \in Nat
       /\ Cardinality(A4') = Cardinality(A4) - B(p \in A4) + B(p \in A4')
  BY <1>1, <1>2, OneElement
<1>13. /\ IsFiniteSet(M5) /\ Cardinality(M5) \in Nat /\ Cardinality(A5) \in Nat
       /\ Cardinality(M5) = Cardinality(A5) - B(<<p, 1>> \in A5) + B(<<p, 1>> \in M5)
  BY <1>1, <1>4, OneElement
<1>14. /\ Cardinality(A5') \in Nat
       /\ Cardinality(A5') = Cardinality(M5) - B(<<p, 2>> \in M5) + B(<<p, 2>> \in A5')
  BY <1>13, <1>4, OneElement
<1>15. \A x : B(x) \in {0, 1}
  BY DEF B
<1>16. Mine(p, s) = B(p \in A1) + (B(p \in A2) + B(p \in A3) + B(p \in A4)
                        + B(<<p, 1>> \in A5) + B(<<p, 2>> \in A5))
  BY <1>5, <1>6 DEF Mine, Locals, Due
<1>17. Mine(p, s)' = B(p \in A1') + (B(p \in A2') + B(p \in A3') + B(p \in A4')
                         + B(<<p, 1>> \in A5') + B(<<p, 2>> \in A5'))
  BY <1>5, <1>6 DEF Mine, Locals, Due
<1>18. /\ B(<<p, 1>> \in M5) = B(<<p, 1>> \in A5')
       /\ B(<<p, 2>> \in M5) = B(<<p, 2>> \in A5)
  BY <1>6
<1> DEFINE b1 == B(p \in A1)
           b2 == B(p \in A2)
           b3 == B(p \in A3)
           b4 == B(p \in A4)
           b5 == B(<<p, 1>> \in A5)
           b6 == B(<<p, 2>> \in A5)
<1>19. /\ {b1, b2, b3, b4, b5, b6} \subseteq Int
       /\ {b1', b2', b3', b4', b5', b6'} \subseteq Int
  BY <1>15
<1>20. /\ Mine(p, s) = b1 + (b2 + b3 + b4 + b5 + b6)
       /\ Mine(p, s)' = b1' + (b2' + b3' + b4' + b5' + b6')
       /\ Cardinality(A1') = Cardinality(A1) - b1 + b1'
       /\ Cardinality(A2') = Cardinality(A2) - b2 + b2'
       /\ Cardinality(A3') = Cardinality(A3) - b3 + b3'
       /\ Cardinality(A4') = Cardinality(A4) - b4 + b4'
       /\ Cardinality(M5) = Cardinality(A5) - b5 + b5'
       /\ Cardinality(A5') = Cardinality(M5) - b6 + b6'
  BY <1>9, <1>10, <1>11, <1>12, <1>13, <1>14, <1>16, <1>17, <1>18
<1> HIDE DEF b1, b2, b3, b4, b5, b6
<1> QED
  BY <1>7, <1>8, <1>9, <1>10, <1>11, <1>12, <1>13, <1>14, <1>19, <1>20
-----------------------------------------------------------------------------
(* The inductive invariant.                                                *)

\* Where a process is, a pending iput() set aside.
Putting == {"iput", "unref", "ifree"}
Where(r) == IF r.pc \in Putting THEN r.then ELSE r.pc

HasDp == {"create", "newinode", "undp", "link2", "unlink", "unlink2"}
HasIp == {"walk", "newinode", "made", "opened", "open", "found", "link",
          "unlink2", "unlink3", "chdir", "exec"}
HasOld == {"link2", "bad"}

\* A pointer is set at the labels where the call has taken the reference and
\* not put it yet, and nowhere else.
Pointed(l, dp, ip, old, op) ==
    /\ l \notin Putting
    /\ dp # 0 <=> l \in HasDp
    /\ ip # 0 <=> l \in HasIp
    /\ l \in HasOld => old # 0
    /\ old # 0 => l \in HasOld \union {"walk", "undp"}
    /\ old # 0 => op = "link"
    /\ l = "link" => op = "link"
    /\ l = "walk" => op \in Ops
    /\ l = "exit" => op = "exit"

IsLocals(r) ==
    r \in [pc : {r.pc}, call : {r.call}, rest : {r.rest}, dp : Slot \union {0},
           ip : Slot \union {0}, old : Slot \union {0}, puts : {r.puts},
           then : {r.then}, inum : {r.inum}]

\* One or two slots are put, and by iput() only.
Debts(r) ==
    /\ \/ r.puts = <<>>
       \/ \E a \in Slot : r.puts = <<a>>
       \/ \E a, b \in Slot : r.puts = <<a, b>>
    /\ r.pc \in {"iput", "unref"} => r.puts # <<>>
    /\ r.pc \notin Putting => r.puts = <<>>

\* Only a process that has exited, or is not born yet, is without a working
\* directory, and without files.
Resident(p) ==
    cwd[p] = 0 => /\ \/ Where(loc[p]) = "unused"
                     \/ Where(loc[p]) = "end" /\ loc[p].call.op = "exit"
                  /\ \A fd \in Fd : ofile[p][fd] = 0

ProcessOK(p) ==
    /\ IsLocals(loc[p])
    /\ Debts(loc[p])
    /\ Pointed(Where(loc[p]), loc[p].dp, loc[p].ip, loc[p].old, loc[p].call.op)
    /\ Resident(p)
    /\ Where(loc[p]) = "unused" => cwd[p] = 0

Processes ==
    /\ cwd \in [Proc -> Slot \union {0}]
    /\ ofile \in [Proc -> [Fd -> File \union {0}]]
    /\ loc = [p \in Proc |-> loc[p]]
    /\ \A p \in Proc : ProcessOK(p)

Files ==
    /\ ftable \in [File -> [ref : Int, ip : Slot \union {0}, writable : BOOLEAN]]
    /\ \A f \in File : ftable[f].ref = 0 <=> ftable[f].ip = 0

FsInv ==
    /\ IsTable(itab)
    /\ ~panicked => Processes /\ Files /\ RefsExact
-----------------------------------------------------------------------------
(* Steps that change the inode table and the locals of a process.          *)

\* The count of a process's own pointers, by the length of its list of puts.
LEMMA LocalsSum ==
    ASSUME NEW r, NEW s
    PROVE  /\ r.puts = <<>> =>
                  Locals(r, s) = B(r.dp = s) + B(r.ip = s) + B(r.old = s)
           /\ \A a : r.puts = <<a>> =>
                  Locals(r, s) = B(r.dp = s) + B(r.ip = s) + B(r.old = s) + B(a = s)
           /\ \A a, b : r.puts = <<a, b>> =>
                  Locals(r, s) = B(r.dp = s) + B(r.ip = s) + B(r.old = s)
                                     + B(a = s) + B(b = s)
BY DEF Locals, Due, B

\* After a panic only the table's shape is claimed.
LEMMA FsPanic ==
    ASSUME IsTable(itab'), panicked' PROVE  FsInv'
BY DEF FsInv

\* p's locals become r and its working directory c; files may change as
\* long as descriptors are counted.
LEMMA AnyStep ==
    ASSUME FsInv, ~panicked, NEW p \in Proc, NEW r, NEW c \in Slot \union {0},
           Goes(p, r), cwd' = [cwd EXCEPT ![p] = c],
           ofile' \in [Proc -> [Fd -> File \union {0}]],
           \A q \in Proc \ {p} : ofile'[q] = ofile[q],
           Files', \A f \in File : ftable'[f].ref = Opened(f)',
           IsLocals(r), Debts(r), Pointed(Where(r), r.dp, r.ip, r.old, r.call.op),
           c = 0 => /\ \/ Where(r) = "unused"
                       \/ Where(r) = "end" /\ r.call.op = "exit"
                    /\ \A fd \in Fd : ofile'[p][fd] = 0,
           Where(r) = "unused" => c = 0,
           IsTable(itab'),
           \A s \in Slot :
               itab'[s].ref = itab[s].ref + (Locals(r, s) - Locals(loc[p], s))
                                  + (B(c = s) - B(cwd[p] = s))
                                  + (FileRefs(s)' - FileRefs(s))
    PROVE  FsInv'
<1>1. Processes /\ Files /\ RefsExact
  BY DEF FsInv
<1>2. loc' = [q \in Proc |-> IF q = p THEN r ELSE loc[q]] /\ loc'[p] = r
      /\ \A q \in Proc \ {p} : loc'[q] = loc[q]
  BY <1>1 DEF Goes, Processes
<1>3. cwd' \in [Proc -> Slot \union {0}] /\ cwd'[p] = c
      /\ \A q \in Proc \ {p} : cwd'[q] = cwd[q]
  BY <1>1 DEF Processes
<1>4. Processes'
  <2>1. loc' = [q \in Proc |-> loc'[q]]
    BY <1>2
  <2>2. ASSUME NEW q \in Proc PROVE ProcessOK(q)'
    <3>1. CASE q = p
      BY <1>2, <1>3, <3>1 DEF ProcessOK, Resident
    <3>2. CASE q # p
      BY <1>1, <1>2, <1>3, <3>2 DEF Processes, ProcessOK, Resident
    <3> QED
      BY <3>1, <3>2
  <2> QED
    BY <1>3, <2>1, <2>2 DEF Processes
<1>5. ASSUME NEW s \in Slot PROVE itab'[s].ref = Pointers(s)'
  <2>1. Pointers(s) = ProcRefs(s) + FileRefs(s) /\ FileRefs(s) \in Nat
    BY PointersAre
  <2>2. (/\ Pointers(s) = ProcRefs(s) + FileRefs(s)
         /\ ProcRefs(s) \in Nat /\ FileRefs(s) \in Nat)'
    BY PointersAre, PTL
  <2>3. /\ ProcRefs(s) \in Nat /\ ProcRefs(s)' \in Nat
        /\ ProcRefs(s)' = ProcRefs(s) - Mine(p, s) + Mine(p, s)'
    BY <1>2, <1>3, ProcMove
  <2>4. Mine(p, s) = B(cwd[p] = s) + Locals(loc[p], s)
    BY DEF Mine
  <2>5. Mine(p, s)' = B(c = s) + Locals(r, s)
    BY <1>2, <1>3 DEF Mine, Locals, Due, B
  <2>6. itab[s].ref = Pointers(s)
    BY <1>1 DEF RefsExact
  <2>7. /\ B(c = s) \in Int /\ B(cwd[p] = s) \in Int
        /\ Locals(r, s) \in Int /\ Locals(loc[p], s) \in Int
    BY DEF Locals, Due, B
  <2> HIDE DEF Mine
  <2> QED
    BY <2>1, <2>2, <2>3, <2>4, <2>5, <2>6, <2>7
<1>6. RefsExact'
  <2>1. (\A s \in Slot : itab[s].ref = Pointers(s))'
    BY <1>5
  <2>2. (\A f \in File : ftable[f].ref = Opened(f))'
    OBVIOUS
  <2> QED
    BY <2>1, <2>2, RefsAre, PTL
<1> QED
  BY <1>4, <1>6 DEF FsInv

\* A step that changes p's locals and the counts of what they point to.
LEMMA LocalStep ==
    ASSUME FsInv, ~panicked, NEW p \in Proc, NEW r, Goes(p, r), UNCHANGED fileVars,
           IsTable(itab'), IsLocals(r), Debts(r),
           Pointed(Where(r), r.dp, r.ip, r.old, r.call.op),
           cwd[p] = 0 => \/ Where(r) = "unused"
                         \/ Where(r) = "end" /\ r.call.op = "exit",
           Where(r) = "unused" => cwd[p] = 0,
           \A s \in Slot :
               itab'[s].ref = itab[s].ref + (Locals(r, s) - Locals(loc[p], s))
    PROVE  FsInv'
<1>1. Processes /\ Files /\ RefsExact
  BY DEF FsInv
<1>2. UNCHANGED <<cwd, ofile, ftable>> /\ cwd[p] \in Slot \union {0}
      /\ cwd' = [cwd EXCEPT ![p] = cwd[p]]
  BY <1>1 DEF fileVars, Processes
<1>3. Files' /\ ofile' \in [Proc -> [Fd -> File \union {0}]]
      /\ \A q \in Proc \ {p} : ofile'[q] = ofile[q]
  BY <1>1, <1>2 DEF Files, Processes
<1>4. \A f \in File : ftable'[f].ref = Opened(f)'
  BY <1>1, <1>2, RefsAre DEF Opened
<1>5. cwd[p] = 0 => \A fd \in Fd : ofile'[p][fd] = 0
  BY <1>1, <1>2 DEF Processes, ProcessOK, Resident
<1>6. ASSUME NEW s \in Slot
      PROVE  itab'[s].ref = itab[s].ref + (Locals(r, s) - Locals(loc[p], s))
                                + (B(cwd[p] = s) - B(cwd[p] = s))
                                + (FileRefs(s)' - FileRefs(s))
  <2>1. FileRefs(s)' = FileRefs(s) /\ FileRefs(s) \in Nat
    BY <1>2, PointersAre DEF FileRefs
  <2>2. B(cwd[p] = s) \in Int
    BY DEF B
  <2>3. Locals(r, s) \in Int /\ Locals(loc[p], s) \in Int
    BY DEF Locals, Due, B
  <2>4. itab[s].ref \in Int
    BY DEF FsInv, IsTable, IsEntry
  <2> QED
    BY <2>1, <2>2, <2>3, <2>4
<1> QED
  BY <1>2, <1>3, <1>4, <1>5, <1>6, AnyStep
-----------------------------------------------------------------------------
(* One lemma for the steps of a call in progress.                          *)

\* What is known of p at a label where it has nothing to put.
LEMMA AtLabel ==
    ASSUME FsInv, ~panicked, NEW p \in Proc, loc[p].pc \notin Putting
    PROVE  /\ IsLayer(Here) /\ Here.t = itab /\ Here.bad = FALSE
           /\ IsLocals(loc[p]) /\ loc[p].puts = <<>>
           /\ Pointed(loc[p].pc, loc[p].dp, loc[p].ip, loc[p].old, loc[p].call.op)
           /\ cwd[p] \in Slot \union {0} /\ 0 \notin Slot
           /\ loc[p].pc \notin {"unused", "end"} => cwd[p] \in Slot
           /\ loc[p].pc = "unused" => cwd[p] = 0
<1>1. IsLayer(Here) /\ Here.t = itab /\ Here.bad = FALSE
  BY DEF FsInv, IsLayer, Here
<1>2. Processes
  BY DEF FsInv
<1>3. Where(loc[p]) = loc[p].pc
  BY DEF Where
<1>4. ProcessOK(p) /\ cwd[p] \in Slot \union {0}
  BY <1>2 DEF Processes
<1>5. 0 \notin Slot
  BY DEF Slot
<1>6. IsLocals(loc[p]) /\ loc[p].puts = <<>>
      /\ Pointed(loc[p].pc, loc[p].dp, loc[p].ip, loc[p].old, loc[p].call.op)
  BY <1>3, <1>4 DEF ProcessOK, Debts
<1>7. /\ loc[p].pc \notin {"unused", "end"} => cwd[p] \in Slot
      /\ loc[p].pc = "unused" => cwd[p] = 0
  BY <1>3, <1>4 DEF ProcessOK, Resident
<1> QED
  BY <1>1, <1>4, <1>5, <1>6, <1>7

\* The inode layer becomes u, and what p points to changes with its references.
LEMMA CallStep ==
    ASSUME FsInv, ~panicked, NEW p \in Proc,
           loc[p].pc \notin Putting \union {"unused", "end"},
           NEW u, NEW r, Becomes(u), Goes(p, r), UNCHANGED fileVars,
           \/ /\ Same(Here, u)
              /\ \A s \in Slot : Locals(r, s) = Locals(loc[p], s)
           \/ \E g \in Slot :
                 /\ Gains(Here, u, g)
                 /\ \A s \in Slot : Locals(r, s) = Locals(loc[p], s) + B(g = s),
           IsLocals(r), Debts(r),
           Pointed(Where(r), r.dp, r.ip, r.old, r.call.op), Where(r) # "unused"
    PROVE  FsInv'
<1>1. cwd[p] # 0 /\ Here.t = itab
  BY AtLabel
<1>2. IsTable(itab')
  BY DEF Becomes, Same, Gains, IsLayer
<1>3. ASSUME NEW s \in Slot
      PROVE  itab'[s].ref = itab[s].ref + (Locals(r, s) - Locals(loc[p], s))
  <2>1. Locals(r, s) \in Int /\ Locals(loc[p], s) \in Int
    BY DEF Locals, Due, B
  <2>2. itab[s].ref \in Int
    BY DEF FsInv, IsTable, IsEntry
  <2> HIDE DEF Locals
  <2>3. CASE Same(Here, u) /\ Locals(r, s) = Locals(loc[p], s)
    BY <1>1, <2>1, <2>2, <2>3 DEF Same, Becomes
  <2>4. CASE \E g \in Slot : /\ Gains(Here, u, g)
                             /\ Locals(r, s) = Locals(loc[p], s) + B(g = s)
    <3>1. PICK g \in Slot : /\ Gains(Here, u, g)
                            /\ Locals(r, s) = Locals(loc[p], s) + B(g = s)
      BY <2>4
    <3>2. u.t[s].ref = itab[s].ref + B(g = s)
      BY <1>1, <2>2, <3>1 DEF Gains, B
    <3>3. B(g = s) \in Int
      BY DEF B
    <3> QED
      BY <2>1, <2>2, <3>1, <3>2, <3>3 DEF Becomes
  <2> QED
    BY <2>3, <2>4
<1> QED
  BY <1>1, <1>2, <1>3, LocalStep

\* A working directory is referenced.
LEMMA CwdReferenced ==
    ASSUME FsInv, ~panicked, NEW p \in Proc, cwd[p] \in Slot
    PROVE  itab[cwd[p]].ref > 0
<1> DEFINE s == cwd[p]
           A1 == {q \in Proc : cwd[q] = s}
           n2 == Cardinality({q \in Proc : loc[q].dp = s})
           n3 == Cardinality({q \in Proc : loc[q].ip = s})
           n4 == Cardinality({q \in Proc : loc[q].old = s})
           A5 == {x \in Proc \X (1..2) : /\ x[2] <= Len(loc[x[1]].puts)
                                         /\ loc[x[1]].puts[x[2]] = s}
<1>1. itab[s].ref = Pointers(s)
  BY DEF FsInv, RefsExact
<1>2. Pointers(s) = ProcRefs(s) + FileRefs(s) /\ FileRefs(s) \in Nat
  BY PointersAre
<1>3. p \in A1
  OBVIOUS
<1>4. IsFiniteSet(A1) /\ n2 \in Nat /\ n3 \in Nat /\ n4 \in Nat /\ Cardinality(A5) \in Nat
  BY TablesFinite, FS_Subset, FS_CardinalityType
<1>5. ProcRefs(s) = Cardinality(A1) + n2 + n3 + n4 + Cardinality(A5)
  BY DEF ProcRefs
<1> HIDE DEF s, A1, n2, n3, n4, A5
<1>6. Cardinality(A1) \in Nat /\ Cardinality(A1) # 0
  BY <1>3, <1>4, FS_CardinalityType, FS_EmptySet
<1> DEFINE n1 == Cardinality(A1)
           n5 == Cardinality(A5)
<1>7. ProcRefs(s) \in Nat /\ ProcRefs(s) > 0
  <2>1. n1 \in Nat /\ n1 # 0 /\ n2 \in Nat /\ n3 \in Nat /\ n4 \in Nat /\ n5 \in Nat
    BY <1>4, <1>6
  <2>2. ProcRefs(s) = n1 + n2 + n3 + n4 + n5
    BY <1>5
  <2> HIDE DEF n1, n5
  <2> QED
    BY <2>1, <2>2
<1>8. Pointers(s) > 0
  BY <1>2, <1>7
<1>9. itab[s].ref > 0
  BY <1>1, <1>8
<1> QED
  BY <1>9 DEF s

\* A count is never negative.
LEMMA RefsNat ==
    ASSUME FsInv, ~panicked, NEW s \in Slot PROVE itab[s].ref \in Nat
<1>1. itab[s].ref = Pointers(s)
  BY DEF FsInv, RefsExact
<1>2. Pointers(s) = ProcRefs(s) + FileRefs(s) /\ ProcRefs(s) \in Nat /\ FileRefs(s) \in Nat
  BY PointersAre
<1> QED
  BY <1>1, <1>2

\* The pointers of r other than the slots to put.
Holds(r, s) == B(r.dp = s) + B(r.ip = s) + B(r.old = s)

\* The call puts a, and may have gained g.
LEMMA PutsStep ==
    ASSUME FsInv, ~panicked, NEW p \in Proc,
           loc[p].pc \notin Putting \union {"unused", "end"},
           NEW u, NEW r, NEW a \in Slot, NEW l,
           Becomes(u), Puts(p, r, <<a>>, l), UNCHANGED fileVars,
           \/ /\ Same(Here, u)
              /\ \A s \in Slot : Holds(r, s) + B(a = s) = Holds(loc[p], s)
           \/ \E g \in Slot :
                 /\ Gains(Here, u, g)
                 /\ \A s \in Slot :
                       Holds(r, s) + B(a = s) = Holds(loc[p], s) + B(g = s),
           IsLocals(r), Pointed(l, r.dp, r.ip, r.old, r.call.op), l # "unused"
    PROVE  FsInv'
<1> DEFINE v == [r EXCEPT !.pc = "iput", !.puts = <<a>>, !.then = l]
<1>1. /\ IsLocals(v) /\ v.pc = "iput" /\ v.puts = <<a>> /\ v.then = l
      /\ v.dp = r.dp /\ v.ip = r.ip /\ v.old = r.old /\ v.call = r.call
  BY DEF IsLocals
<1>2. Goes(p, v)
  BY DEF Puts
<1> HIDE DEF v
<1>3. Debts(v) /\ Where(v) = l
  BY <1>1 DEF Debts, Where, Putting
<1>4. ASSUME NEW s \in Slot
      PROVE  /\ Locals(v, s) = Holds(r, s) + B(a = s)
             /\ Locals(loc[p], s) = Holds(loc[p], s)
  <2>1. Locals(v, s) = B(v.dp = s) + B(v.ip = s) + B(v.old = s) + B(a = s)
    BY <1>1, LocalsSum
  <2>2. loc[p].puts = <<>>
    BY AtLabel
  <2>3. Locals(loc[p], s) = B(loc[p].dp = s) + B(loc[p].ip = s) + B(loc[p].old = s)
    BY <2>2, LocalsSum
  <2> QED
    BY <1>1, <2>1, <2>3 DEF Holds
<1>5. \/ /\ Same(Here, u)
         /\ \A s \in Slot : Locals(v, s) = Locals(loc[p], s)
      \/ \E g \in Slot :
            /\ Gains(Here, u, g)
            /\ \A s \in Slot : Locals(v, s) = Locals(loc[p], s) + B(g = s)
  BY <1>4
<1> QED
  BY <1>1, <1>2, <1>3, <1>5, CallStep

\* The call has nothing to put yet.
LEMMA GoesStep ==
    ASSUME FsInv, ~panicked, NEW p \in Proc,
           loc[p].pc \notin Putting \union {"unused", "end"},
           NEW u, NEW r, Becomes(u), Goes(p, r), UNCHANGED fileVars,
           \/ /\ Same(Here, u)
              /\ \A s \in Slot : Holds(r, s) = Holds(loc[p], s)
           \/ \E g \in Slot :
                 /\ Gains(Here, u, g)
                 /\ \A s \in Slot : Holds(r, s) = Holds(loc[p], s) + B(g = s),
           IsLocals(r), r.puts = <<>>, r.pc \notin Putting \union {"unused"},
           Pointed(r.pc, r.dp, r.ip, r.old, r.call.op)
    PROVE  FsInv'
<1>1. Debts(r) /\ Where(r) = r.pc
  BY DEF Debts, Where, Putting
<1>2. ASSUME NEW s \in Slot
      PROVE  Locals(r, s) = Holds(r, s) /\ Locals(loc[p], s) = Holds(loc[p], s)
  <2>1. loc[p].puts = <<>>
    BY AtLabel
  <2> QED
    BY <2>1, LocalsSum DEF Holds
<1>3. \/ /\ Same(Here, u)
         /\ \A s \in Slot : Locals(r, s) = Locals(loc[p], s)
      \/ \E g \in Slot :
            /\ Gains(Here, u, g)
            /\ \A s \in Slot : Locals(r, s) = Locals(loc[p], s) + B(g = s)
  BY <1>2
<1> QED
  BY <1>1, <1>3, CallStep

\* iput() of ip, or of dp.
LEMMA PutIp ==
    ASSUME FsInv, ~panicked, NEW p \in Proc, loc[p].pc \in HasIp,
           NEW u, Same(Here, u), Becomes(u), UNCHANGED fileVars, NEW l,
           Puts(p, [loc[p] EXCEPT !.ip = 0], <<loc[p].ip>>, l), l # "unused",
           Pointed(l, loc[p].dp, 0, loc[p].old, loc[p].call.op)
    PROVE  FsInv'
<1> DEFINE r == [loc[p] EXCEPT !.ip = 0]
           a == loc[p].ip
<1>1. loc[p].pc \notin Putting \union {"unused", "end"}
  BY DEF Putting, HasIp
<1>2. /\ IsLocals(loc[p]) /\ 0 \notin Slot
      /\ Pointed(loc[p].pc, loc[p].dp, loc[p].ip, loc[p].old, loc[p].call.op)
  BY <1>1, AtLabel
<1>3. IsLocals(r) /\ r.ip = 0 /\ r.dp = loc[p].dp /\ r.old = loc[p].old
      /\ r.call = loc[p].call /\ a \in Slot \union {0}
  BY <1>2 DEF IsLocals
<1>4. a \in Slot
  BY <1>2, <1>3 DEF Pointed, Putting
<1>5. \A s \in Slot : Holds(r, s) + B(a = s) = Holds(loc[p], s)
  BY <1>2, <1>3 DEF Holds, B
<1>6. Puts(p, r, <<a>>, l)
  OBVIOUS
<1> HIDE DEF r, a
<1> QED
  BY <1>1, <1>3, <1>4, <1>5, <1>6, PutsStep

\* iunlockput(dp): the directory is put and p goes on to l.
LEMMA PutDp ==
    ASSUME FsInv, ~panicked, NEW p \in Proc, loc[p].pc \in HasDp,
           NEW u, Same(Here, u), Becomes(u), UNCHANGED fileVars, NEW l,
           Puts(p, [loc[p] EXCEPT !.dp = 0], <<loc[p].dp>>, l), l # "unused",
           Pointed(l, 0, loc[p].ip, loc[p].old, loc[p].call.op)
    PROVE  FsInv'
<1> DEFINE r == [loc[p] EXCEPT !.dp = 0]
           a == loc[p].dp
<1>1. loc[p].pc \notin Putting \union {"unused", "end"}
  BY DEF Putting, HasDp
<1>2. /\ IsLocals(loc[p]) /\ 0 \notin Slot
      /\ Pointed(loc[p].pc, loc[p].dp, loc[p].ip, loc[p].old, loc[p].call.op)
  BY <1>1, AtLabel
<1>3. IsLocals(r) /\ r.dp = 0 /\ r.ip = loc[p].ip /\ r.old = loc[p].old
      /\ r.call = loc[p].call /\ a \in Slot \union {0}
  BY <1>2 DEF IsLocals
<1>4. a \in Slot
  BY <1>2, <1>3 DEF Pointed, Putting
<1>5. \A s \in Slot : Holds(r, s) + B(a = s) = Holds(loc[p], s)
  BY <1>2, <1>3 DEF Holds, B
<1>6. Puts(p, r, <<a>>, l)
  OBVIOUS
<1> HIDE DEF r, a
<1> QED
  BY <1>1, <1>3, <1>4, <1>5, <1>6, PutsStep

\* Locking an inode, working on it, unlocking it.
LEMMA LockedSame ==
    ASSUME IsLayer(Here), NEW s, NEW p
    PROVE  /\ Same(Here, Ilock(Here, s, p))
           /\ Same(Here, Iunlock(Ilock(Here, s, p), s))
<1>1. Same(Here, Ilock(Here, s, p))
  BY IlockSame
<1>2. Same(Ilock(Here, s, p), Iunlock(Ilock(Here, s, p), s))
  BY <1>1, IunlockSame DEF Same
<1> QED
  BY <1>1, <1>2, SameSame

\* An operation is followed by iunlock(),
LEMMA ThenUnlock ==
    ASSUME NEW w, NEW u, Same(w, u), NEW s PROVE Same(w, Iunlock(u, s))
<1>1. Same(u, Iunlock(u, s))
  BY IunlockSame DEF Same
<1> QED
  BY <1>1, SameSame

\* by a change of nlink,
LEMMA ThenAddLinks ==
    ASSUME NEW w, NEW u, Same(w, u), NEW s, NEW k PROVE Same(w, AddLinks(u, s, k))
<1>1. Same(u, AddLinks(u, s, k))
  BY AddLinksSame DEF Same
<1> QED
  BY <1>1, SameSame

\* or by dirlink().
LEMMA ThenDirlink ==
    ASSUME NEW w, NEW u, Same(w, u), NEW s, NEW n, NEW i
    PROVE  Same(w, Dirlink(u, s, n, i))
<1>1. Same(u, Dirlink(u, s, n, i))
  BY DirlinkSame DEF Same
<1> QED
  BY <1>1, SameSame

\* iget(), or idup(), after it.
LEMMA ThenGains ==
    ASSUME NEW w, NEW u, Same(w, u), NEW v, NEW s, Gains(u, v, s)
    PROVE  Gains(w, v, s)
BY DEF Same, Gains

-----------------------------------------------------------------------------
(* The calls that put what they have.                                      *)

\* A call that fails puts the directory it has locked.
LEMMA UnlockDirStep ==
    ASSUME FsInv, NEW p \in Proc, UnlockDir(p) PROVE FsInv'
<1>1. /\ ~panicked /\ loc[p].pc = "undp" /\ UNCHANGED fileVars
      /\ Becomes(Iunlock(Here, loc[p].dp))
      /\ Puts(p, [loc[p] EXCEPT !.dp = 0], <<loc[p].dp>>, Bail(p))
  BY DEF UnlockDir, Is, Quiet
<1>2. IsLayer(Here)
      /\ Pointed("undp", loc[p].dp, loc[p].ip, loc[p].old, loc[p].call.op)
  BY <1>1, AtLabel DEF Putting
<1>3. Same(Here, Iunlock(Here, loc[p].dp))
  BY <1>2, IunlockSame
<1>4. Pointed(Bail(p), 0, loc[p].ip, loc[p].old, loc[p].call.op) /\ Bail(p) # "unused"
  BY <1>2 DEF Pointed, Bail, HasDp, HasIp, HasOld, Putting
<1>5. loc[p].pc \in HasDp
  BY <1>1 DEF HasDp
<1> QED
  BY <1>1, <1>3, <1>4, <1>5, PutDp

\* sys_mkdir() and sys_mknod() put the inode that create() has made.
LEMMA MadeStep ==
    ASSUME FsInv, NEW p \in Proc, Made(p) PROVE FsInv'
<1>1. /\ ~panicked /\ loc[p].pc = "made" /\ UNCHANGED fileVars
      /\ Becomes(Iunlock(Here, loc[p].ip))
      /\ Puts(p, [loc[p] EXCEPT !.ip = 0], <<loc[p].ip>>, "end")
  BY DEF Made, Is, Quiet
<1>2. IsLayer(Here)
      /\ Pointed("made", loc[p].dp, loc[p].ip, loc[p].old, loc[p].call.op)
  BY <1>1, AtLabel DEF Putting
<1>3. Same(Here, Iunlock(Here, loc[p].ip))
  BY <1>2, IunlockSame
<1>4. Pointed("end", loc[p].dp, 0, loc[p].old, loc[p].call.op)
  BY <1>2 DEF Pointed, HasDp, HasIp, HasOld, Putting
<1>5. loc[p].pc \in HasIp
  BY <1>1 DEF HasIp
<1> QED
  BY <1>1, <1>3, <1>4, <1>5, PutIp

\* sys_unlink() decrements nlink and puts the inode.
LEMMA Unlink3Step ==
    ASSUME FsInv, NEW p \in Proc, Unlink3(p) PROVE FsInv'
<1> DEFINE u == Iunlock(AddLinks(Here, loc[p].ip, -1), loc[p].ip)
<1>1. /\ ~panicked /\ loc[p].pc = "unlink3" /\ UNCHANGED fileVars /\ Becomes(u)
      /\ Puts(p, [loc[p] EXCEPT !.ip = 0], <<loc[p].ip>>, "end")
  BY DEF Unlink3, Is, Quiet
<1>2. IsLayer(Here)
      /\ Pointed("unlink3", loc[p].dp, loc[p].ip, loc[p].old, loc[p].call.op)
  BY <1>1, AtLabel DEF Putting
<1>3. Same(Here, u)
  BY <1>2, AddLinksSame, ThenUnlock
<1>4. Pointed("end", loc[p].dp, 0, loc[p].old, loc[p].call.op)
  BY <1>2 DEF Pointed, HasDp, HasIp, HasOld, Putting
<1>5. loc[p].pc \in HasIp
  BY <1>1 DEF HasIp
<1> QED
  BY <1>1, <1>3, <1>4, <1>5, PutIp

\* kexec() has read the program and puts the inode.
LEMMA ExecStep ==
    ASSUME FsInv, NEW p \in Proc, Exec(p) PROVE FsInv'
<1> DEFINE u == Iunlock(Ilock(Here, loc[p].ip, p), loc[p].ip)
<1>1. /\ ~panicked /\ loc[p].pc = "exec" /\ UNCHANGED fileVars /\ Becomes(u)
      /\ Puts(p, [loc[p] EXCEPT !.ip = 0], <<loc[p].ip>>, "end")
  BY DEF Exec, Is, Quiet
<1>2. IsLayer(Here)
      /\ Pointed("exec", loc[p].dp, loc[p].ip, loc[p].old, loc[p].call.op)
  BY <1>1, AtLabel DEF Putting
<1>3. Same(Here, u)
  BY <1>2, LockedSame
<1>4. Pointed("end", loc[p].dp, 0, loc[p].old, loc[p].call.op)
  BY <1>2 DEF Pointed, HasDp, HasIp, HasOld, Putting
<1>5. loc[p].pc \in HasIp
  BY <1>1 DEF HasIp
<1> QED
  BY <1>1, <1>3, <1>4, <1>5, PutIp

\* sys_link() undoes its nlink++ and puts the old inode.
LEMMA LinkBadStep ==
    ASSUME FsInv, NEW p \in Proc, LinkBad(p) PROVE FsInv'
<1> DEFINE r == [loc[p] EXCEPT !.old = 0]
           a == loc[p].old
           u == Iunlock(AddLinks(Ilock(Here, a, p), a, -1), a)
<1>1. /\ ~panicked /\ loc[p].pc = "bad" /\ UNCHANGED fileVars
      /\ Becomes(u) /\ Puts(p, r, <<a>>, "end")
  BY DEF LinkBad, Is, Quiet
<1>2. loc[p].pc \notin Putting \union {"unused", "end"}
  BY <1>1 DEF Putting
<1>3. /\ IsLayer(Here) /\ IsLocals(loc[p]) /\ 0 \notin Slot
      /\ Pointed("bad", loc[p].dp, loc[p].ip, loc[p].old, loc[p].call.op)
  BY <1>1, <1>2, AtLabel
<1>4. Same(Here, u)
  BY <1>3, LockedSame, ThenAddLinks, ThenUnlock
<1>5. IsLocals(r) /\ r.dp = loc[p].dp /\ r.ip = loc[p].ip /\ r.old = 0
      /\ r.call = loc[p].call
  BY <1>3 DEF IsLocals
<1>6. a \in Slot /\ Pointed("end", r.dp, r.ip, r.old, r.call.op)
  BY <1>3, <1>5 DEF Pointed, HasDp, HasIp, HasOld, IsLocals, Putting
<1>7. \A s \in Slot : Holds(r, s) + B(a = s) = Holds(loc[p], s)
  BY <1>3, <1>5 DEF Holds, B
<1> HIDE DEF r, a, u
<1> QED
  BY <1>1, <1>2, <1>4, <1>5, <1>6, <1>7, PutsStep

-----------------------------------------------------------------------------
(* The walk along a path, and the calls that go on from it.                *)

\* iget() after operations that keep the references; it finds a slot or panics.
LEMMA IgetThen ==
    ASSUME NEW w, Same(Here, w), NEW i, Becomes(Iget(w, i)), ~(panicked' /\ IsTable(itab'))
    PROVE  SlotOf(w, i) \in Slot /\ Gains(Here, Iget(w, i), SlotOf(w, i))
<1>1. IsLayer(w)
  BY DEF Same
<1>2. HasSlot(w, i)
  BY <1>1, IgetFails DEF Becomes, Same, IsLayer
<1> QED
  BY <1>1, <1>2, SlotOfMatches, IgetGains, ThenGains

\* The walk has arrived, or has failed.
LEMMA WalkEndStep ==
    ASSUME FsInv, NEW p \in Proc, WalkEnd(p) PROVE FsInv'
<1> DEFINE r == [loc[p] EXCEPT !.pc = Resolved(loc[p].call.op, FALSE)]
<1>1. /\ ~panicked /\ loc[p].pc = "walk" /\ UNCHANGED fileVars /\ Becomes(Here)
      /\ IF Parent(p)
           THEN Puts(p, [loc[p] EXCEPT !.ip = 0], <<loc[p].ip>>, Bail(p))
           ELSE Goes(p, r)
  BY DEF WalkEnd, Is, Quiet
<1>2. loc[p].pc \notin Putting \union {"unused", "end"}
  BY <1>1 DEF Putting
<1>3. /\ IsLayer(Here) /\ IsLocals(loc[p]) /\ loc[p].puts = <<>>
      /\ Pointed("walk", loc[p].dp, loc[p].ip, loc[p].old, loc[p].call.op)
  BY <1>1, <1>2, AtLabel
<1>4. Same(Here, Here)
  BY <1>3 DEF Same
<1>5. CASE Parent(p)
  <2>1. Pointed(Bail(p), loc[p].dp, 0, loc[p].old, loc[p].call.op) /\ Bail(p) # "unused"
    BY <1>3 DEF Pointed, Bail, HasDp, HasIp, HasOld, Putting
  <2>2. loc[p].pc \in HasIp
    BY <1>1 DEF HasIp
  <2> QED
    BY <1>1, <1>4, <1>5, <2>1, <2>2, PutIp
<1>6. CASE ~Parent(p)
  <2>1. IsLocals(r) /\ r.pc = Resolved(loc[p].call.op, FALSE) /\ r.dp = loc[p].dp
        /\ r.ip = loc[p].ip /\ r.old = loc[p].old /\ r.puts = <<>> /\ r.call = loc[p].call
    BY <1>3 DEF IsLocals
  <2>2. /\ Resolved(loc[p].call.op, FALSE) \in {"open", "link", "chdir", "exec"}
        /\ loc[p].old = 0 /\ loc[p].dp = 0 /\ loc[p].ip # 0
        /\ Resolved(loc[p].call.op, FALSE) = "link" => loc[p].call.op = "link"
    BY <1>3, <1>6 DEF Pointed, HasDp, HasIp, Ops, Parent, Resolved, Putting
  <2>3. Pointed(r.pc, r.dp, r.ip, r.old, r.call.op) /\ r.pc \notin Putting \union {"unused"}
    BY <2>1, <2>2 DEF Pointed, HasDp, HasIp, HasOld, Putting
  <2>4. \A s \in Slot : Holds(r, s) = Holds(loc[p], s)
    BY <2>1 DEF Holds
  <2> HIDE DEF r
  <2> QED
    BY <1>1, <1>2, <1>4, <1>6, <2>1, <2>3, <2>4, GoesStep
<1> QED
  BY <1>5, <1>6

\* namex() steps from a directory to the next, and puts the one it leaves.
LEMMA WalkStep ==
    ASSUME FsInv, NEW p \in Proc, Walk(p) PROVE FsInv'
<1> DEFINE s == loc[p].ip
           u == Iunlock(Ilock(Here, s, p), s)
           i == Dirlookup(Ilock(Here, s, p), s, Head(loc[p].rest))
           up == [loc[p] EXCEPT !.ip = 0]
           down == [up EXCEPT !.dp = s, !.pc = Resolved(loc[p].call.op, TRUE)]
           on == [loc[p] EXCEPT !.ip = SlotOf(u, i), !.rest = Tail(@)]
<1>1. /\ ~panicked /\ loc[p].pc = "walk" /\ UNCHANGED fileVars
      /\ \/ Becomes(u) /\ Puts(p, up, <<s>>, Bail(p))
         \/ Parent(p) /\ Becomes(u) /\ Goes(p, down)
         \/ Becomes(Iget(u, i)) /\ Puts(p, on, <<s>>, "walk")
  BY DEF Walk, Is, Quiet
<1>2. loc[p].pc \notin Putting \union {"unused", "end"}
  BY <1>1 DEF Putting
<1>3. /\ IsLayer(Here) /\ IsLocals(loc[p]) /\ loc[p].puts = <<>> /\ 0 \notin Slot
      /\ Pointed("walk", loc[p].dp, loc[p].ip, loc[p].old, loc[p].call.op)
  BY <1>1, <1>2, AtLabel
<1>4. Same(Here, u)
  BY <1>3, LockedSame
<1>5. s \in Slot /\ loc[p].dp = 0
  BY <1>3 DEF IsLocals, Pointed, HasIp, HasDp, Putting
<1>6. CASE Becomes(u) /\ Puts(p, up, <<s>>, Bail(p))
  <2>1. Pointed(Bail(p), loc[p].dp, 0, loc[p].old, loc[p].call.op) /\ Bail(p) # "unused"
    BY <1>3 DEF Pointed, Bail, HasDp, HasIp, HasOld, Putting
  <2>2. loc[p].pc \in HasIp
    BY <1>1 DEF HasIp
  <2> QED
    BY <1>1, <1>4, <1>6, <2>1, <2>2, PutIp
<1>7. CASE Parent(p) /\ Becomes(u) /\ Goes(p, down)
  <2>1. IsLocals(down) /\ down.pc = Resolved(loc[p].call.op, TRUE) /\ down.dp = s
        /\ down.ip = 0 /\ down.old = loc[p].old /\ down.puts = <<>>
        /\ down.call = loc[p].call
    BY <1>3, <1>5 DEF IsLocals
  <2>2. \/ down.pc \in {"create", "unlink"} /\ loc[p].old = 0
        \/ down.pc = "link2" /\ loc[p].old # 0 /\ loc[p].call.op = "link"
    BY <1>3, <1>7, <2>1 DEF Pointed, Parent, Resolved, Putting
  <2>3. Pointed(down.pc, down.dp, down.ip, down.old, down.call.op)
        /\ down.pc \notin Putting \union {"unused"}
    BY <1>3, <1>5, <2>1, <2>2 DEF Pointed, HasDp, HasIp, HasOld, Putting
  <2>4. \A r \in Slot : Holds(down, r) = Holds(loc[p], r)
    BY <1>3, <1>5, <2>1 DEF Holds, B
  <2> HIDE DEF down, u
  <2> QED
    BY <1>1, <1>2, <1>4, <1>7, <2>1, <2>3, <2>4, GoesStep
<1>8. CASE Becomes(Iget(u, i)) /\ Puts(p, on, <<s>>, "walk")
  <2>1. CASE panicked' /\ IsTable(itab')
    BY <2>1, FsPanic
  <2>2. CASE ~(panicked' /\ IsTable(itab'))
    <3> DEFINE g == SlotOf(u, i)
               v == Iget(u, i)
    <3>1. g \in Slot /\ Gains(Here, v, g)
      <4> HIDE DEF u, i
      <4> QED
        BY <1>4, <1>8, <2>2, IgetThen
    <3>2. IsLocals(on) /\ on.dp = loc[p].dp /\ on.ip = g /\ on.old = loc[p].old
          /\ on.call = loc[p].call
      <4> HIDE DEF u, i
      <4> QED
        BY <1>3, <3>1 DEF IsLocals
    <3> HIDE DEF on, g, v, u, i
    <3>3. Pointed("walk", on.dp, on.ip, on.old, on.call.op)
      BY <1>3, <3>1, <3>2 DEF Pointed, HasIp, Putting
    <3>4. \A r \in Slot : Holds(on, r) + B(s = r) = Holds(loc[p], r) + B(g = r)
      BY <1>3, <3>2 DEF Holds, B
    <3> QED
      BY <1>1, <1>2, <1>5, <1>8, <3>1, <3>2, <3>3, <3>4, PutsStep DEF g, v
  <2> QED
    BY <2>1, <2>2
<1> QED
  BY <1>1, <1>6, <1>7, <1>8

\* ialloc() returns a slot with one reference, or panics in iget().
LEMMA IallocGains ==
    ASSUME FsInv, ~panicked, NEW w, Same(Here, w), NEW i, NEW type,
           Becomes(Ialloc(w, i, type)), ~(panicked' /\ IsTable(itab')),
           NEW g, g = SlotOf(Ialloc(w, i, type), i)
    PROVE  g \in Slot /\ Gains(Here, Ialloc(w, i, type), g)
<1> DEFINE v == [w EXCEPT !.d.ino[i] = [NoDinode EXCEPT !.type = type]]
           u == Iget(v, i)
           h == SlotOf(v, i)
<1>1. Same(Here, v)
  <2>1. v \in [t : {w.t}, d : {v.d}, bad : {v.bad}]
    BY DEF Same, IsLayer
  <2> HIDE DEF v
  <2> QED
    BY <2>1, DiskSame, SameSame DEF Same
<1>2. Ialloc(w, i, type) = u
  BY DEF Ialloc
<1> HIDE DEF v
<1>3. h \in Slot /\ Gains(Here, u, h)
  BY <1>1, <1>2, IgetThen
<1>4. HasSlot(v, i)
  BY <1>1, <1>2, IgetFails DEF Becomes, Same, IsLayer
<1>5. u.t[h].inum = i
  BY <1>1, <1>4, IgetGains DEF Same
<1>6. u.t[h].ref > 0
  <2>1. itab[h].ref \in Nat
    BY <1>3, RefsNat
  <2> QED
    BY <1>3, <2>1 DEF Gains, Here
<1>7. SlotOf(u, i) = h
  BY <1>3, <1>5, <1>6, OneHit DEF Gains
<1> QED
  BY <1>2, <1>3, <1>7

\* create() finds the name, or allocates an inode for it.
LEMMA CreateStep ==
    ASSUME FsInv, NEW p \in Proc, Create(p) PROVE FsInv'
<1> DEFINE s == loc[p].dp
           w == Ilock(Here, s, p)
           u == Iunlock(w, s)
           e == Dirlookup(w, s, Head(loc[p].rest))
           up == [loc[p] EXCEPT !.dp = 0]
           found == [up EXCEPT !.ip = SlotOf(u, e)]
           new(i) == Ialloc(w, i, NewType(p))
           made(i) == [loc[p] EXCEPT !.pc = "newinode", !.ip = SlotOf(new(i), i)]
<1>1. /\ ~panicked /\ loc[p].pc = "create" /\ UNCHANGED fileVars
      /\ \/ Becomes(u) /\ Puts(p, up, <<s>>, "end")
         \/ Becomes(Iget(u, e)) /\ Puts(p, found, <<s>>, "found")
         \/ \E i \in FreeInodes(w) : Becomes(new(i)) /\ Goes(p, made(i))
  BY DEF Create, Is, Quiet
<1>2. loc[p].pc \notin Putting \union {"unused", "end"} /\ loc[p].pc \in HasDp
  BY <1>1 DEF Putting, HasDp
<1>3. /\ IsLayer(Here) /\ IsLocals(loc[p]) /\ loc[p].puts = <<>> /\ 0 \notin Slot
      /\ Pointed("create", loc[p].dp, loc[p].ip, loc[p].old, loc[p].call.op)
  BY <1>1, <1>2, AtLabel
<1>4. Same(Here, u) /\ Same(Here, w) /\ IsLayer(w)
  BY <1>3, LockedSame DEF Same
<1>5. s \in Slot /\ loc[p].dp # 0 /\ loc[p].ip = 0 /\ loc[p].old = 0
  BY <1>3 DEF IsLocals, Pointed, HasIp, HasDp, HasOld, Putting
<1>6. CASE Becomes(u) /\ Puts(p, up, <<s>>, "end")
  <2>1. Pointed("end", 0, loc[p].ip, loc[p].old, loc[p].call.op)
    BY <1>3, <1>5 DEF Pointed, HasDp, HasIp, HasOld, Putting
  <2> QED
    BY <1>1, <1>2, <1>4, <1>6, <2>1, PutDp
<1>7. CASE Becomes(Iget(u, e)) /\ Puts(p, found, <<s>>, "found")
  <2>1. CASE panicked' /\ IsTable(itab')
    BY <2>1, FsPanic
  <2>2. CASE ~(panicked' /\ IsTable(itab'))
    <3> DEFINE g == SlotOf(u, e)
               v == Iget(u, e)
    <3>1. g \in Slot /\ Gains(Here, v, g)
      <4> HIDE DEF u, e
      <4> QED
        BY <1>4, <1>7, <2>2, IgetThen
    <3>2. IsLocals(found) /\ found.dp = 0 /\ found.ip = g /\ found.old = loc[p].old
          /\ found.call = loc[p].call
      <4> HIDE DEF u, e
      <4> QED
        BY <1>3, <3>1 DEF IsLocals
    <3> HIDE DEF found, g, v, u, e
    <3>3. Pointed("found", found.dp, found.ip, found.old, found.call.op)
      BY <1>3, <1>5, <3>1, <3>2 DEF Pointed, HasIp, HasDp, HasOld, Putting
    <3>4. \A r \in Slot : Holds(found, r) + B(s = r) = Holds(loc[p], r) + B(g = r)
      BY <1>3, <1>5, <3>2 DEF Holds, B
    <3> QED
      BY <1>1, <1>2, <1>5, <1>7, <3>1, <3>2, <3>3, <3>4, PutsStep DEF g, v
  <2> QED
    BY <2>1, <2>2
<1>8. CASE \E i \in FreeInodes(w) : Becomes(new(i)) /\ Goes(p, made(i))
  <2>1. PICK i \in FreeInodes(w) : Becomes(new(i)) /\ Goes(p, made(i))
    BY <1>8
  <2>2. CASE panicked' /\ IsTable(itab')
    BY <2>2, FsPanic
  <2>3. CASE ~(panicked' /\ IsTable(itab'))
    <3> DEFINE g == SlotOf(new(i), i)
               v == new(i)
               r == made(i)
    <3>1. g \in Slot /\ Gains(Here, v, g)
      <4> HIDE DEF w
      <4> QED
        BY <1>1, <1>4, <2>1, <2>3, IallocGains
    <3>2. r = [loc[p] EXCEPT !.pc = "newinode", !.ip = g]
      OBVIOUS
    <3> HIDE DEF r, g, v
    <3>3. IsLocals(r) /\ r.pc = "newinode" /\ r.dp = loc[p].dp /\ r.ip = g
          /\ r.old = loc[p].old /\ r.puts = <<>> /\ r.call = loc[p].call
      BY <1>3, <3>1, <3>2 DEF IsLocals
    <3>4. Pointed(r.pc, r.dp, r.ip, r.old, r.call.op)
          /\ r.pc \notin Putting \union {"unused"}
      BY <1>3, <1>5, <3>1, <3>3 DEF Pointed, HasIp, HasDp, HasOld, Putting
    <3>5. \A x \in Slot : Holds(r, x) = Holds(loc[p], x) + B(g = x)
      BY <1>3, <1>5, <3>3 DEF Holds, B
    <3>6. Becomes(v) /\ Goes(p, r)
      BY <2>1 DEF v, r
    <3> QED
      BY <1>1, <1>2, <3>1, <3>3, <3>4, <3>5, <3>6, GoesStep
  <2> QED
    BY <2>2, <2>3
<1> QED
  BY <1>1, <1>6, <1>7, <1>8

\* create() fills the new inode and enters it in the directory.
LEMMA NewInodeStep ==
    ASSUME FsInv, NEW p \in Proc, NewInode(p) PROVE FsInv'
<1> DEFINE s == loc[p].ip
           d == loc[p].dp
           dir == NewType(p) = "dir"
           w1 == AddLinks(Ilock(Here, s, p), s, 1)
           w2 == IF dir /\ CanLink(w1, s)
                   THEN Dirlink(w1, s, "..", w1.t[d].inum) ELSE w1
           w3 == Dirlink(w2, d, Head(loc[p].rest), w2.t[s].inum)
           w4 == IF dir THEN AddLinks(w3, d, 1) ELSE w3
           w5 == AddLinks(w2, s, -1)
           l == IF NewType(p) = "file" THEN "opened" ELSE "made"
<1>1. /\ ~panicked /\ loc[p].pc = "newinode" /\ UNCHANGED fileVars
      /\ \/ /\ Becomes(Iunlock(w4, d))
            /\ Puts(p, [loc[p] EXCEPT !.dp = 0], <<d>>, l)
         \/ /\ Becomes(Iunlock(w5, s))
            /\ Puts(p, [loc[p] EXCEPT !.ip = 0], <<s>>, "undp")
  BY DEF NewInode, Is, Quiet
<1>2. loc[p].pc \notin Putting /\ loc[p].pc \in HasDp /\ loc[p].pc \in HasIp
  BY <1>1 DEF Putting, HasDp, HasIp
<1>3. /\ IsLayer(Here)
      /\ Pointed("newinode", loc[p].dp, loc[p].ip, loc[p].old, loc[p].call.op)
  BY <1>1, <1>2, AtLabel
<1>4. Same(Here, w1)
  BY <1>3, LockedSame, ThenAddLinks
<1> HIDE DEF w1, dir
<1>5. Same(Here, w2)
  BY <1>4, ThenDirlink
<1> HIDE DEF w2
<1>6. Same(Here, w3)
  BY <1>5, ThenDirlink
<1> HIDE DEF w3
<1>7. Same(Here, w4)
  BY <1>6, ThenAddLinks
<1>8. Same(Here, w5)
  BY <1>5, ThenAddLinks
<1> HIDE DEF w4, w5
<1>9. Same(Here, Iunlock(w4, d)) /\ Same(Here, Iunlock(w5, s))
  BY <1>7, <1>8, ThenUnlock
<1>10. /\ Pointed(l, 0, loc[p].ip, loc[p].old, loc[p].call.op) /\ l # "unused"
       /\ Pointed("undp", loc[p].dp, 0, loc[p].old, loc[p].call.op)
  BY <1>3 DEF Pointed, HasDp, HasIp, HasOld, Putting
<1> HIDE DEF l
<1>11. CASE /\ Becomes(Iunlock(w4, d))
            /\ Puts(p, [loc[p] EXCEPT !.dp = 0], <<d>>, l)
  BY <1>1, <1>2, <1>9, <1>10, <1>11, PutDp
<1>12. CASE /\ Becomes(Iunlock(w5, s))
            /\ Puts(p, [loc[p] EXCEPT !.ip = 0], <<s>>, "undp")
  BY <1>1, <1>2, <1>9, <1>10, <1>12, PutIp
<1> QED
  BY <1>1, <1>11, <1>12

\* namex() starts at the root, by iget(), or at the working directory, by idup().
LEMMA StartThen ==
    ASSUME FsInv, ~panicked, NEW p \in Proc, cwd[p] \in Slot, NEW w, Same(Here, w),
           NEW path, Becomes(Started(p, w, path)), ~(panicked' /\ IsTable(itab'))
    PROVE  /\ Start(p, w, path) \in Slot
           /\ Gains(Here, Started(p, w, path), Start(p, w, path))
<1>1. CASE path # <<>> /\ Head(path) = "/"
  BY <1>1, IgetThen DEF Start, Started
<1>2. CASE ~(path # <<>> /\ Head(path) = "/")
  <2>1. itab[cwd[p]].ref > 0 /\ Here.t = itab
    BY CwdReferenced DEF Here
  <2>2. IsLayer(w) /\ w.t[cwd[p]].ref > 0
    BY <2>1 DEF Same
  <2>3. Gains(Here, Dup(w, cwd[p]), cwd[p])
    BY <2>2, DupGains, ThenGains
  <2> QED
    BY <1>2, <2>3 DEF Start, Started
<1> QED
  BY <1>1, <1>2

\* A system call with a path begins.
LEMMA CallProgress ==
    ASSUME FsInv, NEW p \in Proc, NEW c \in Calls, Call(p, c) PROVE FsInv'
<1> DEFINE g == Start(p, Here, c.path)
           u == Started(p, Here, c.path)
           es == Elements(c.path)
           r == [At("walk") EXCEPT !.call = c, !.rest = es, !.ip = g]
<1>1. /\ ~panicked /\ loc[p].pc = "idle" /\ UNCHANGED fileVars
      /\ Becomes(u) /\ Goes(p, r)
  BY DEF Call, Is
<1>2. loc[p].pc \notin Putting \union {"unused", "end"}
  BY <1>1 DEF Putting
<1>3. /\ IsLayer(Here) /\ IsLocals(loc[p]) /\ loc[p].puts = <<>> /\ 0 \notin Slot
      /\ Pointed("idle", loc[p].dp, loc[p].ip, loc[p].old, loc[p].call.op)
      /\ cwd[p] \in Slot
  BY <1>1, <1>2, AtLabel
<1>4. Same(Here, Here) /\ c.op \in Ops
  BY <1>3, FileSysAssumption DEF Same
<1>5. CASE panicked' /\ IsTable(itab')
  BY <1>5, FsPanic
<1>6. CASE ~(panicked' /\ IsTable(itab'))
  <2>1. g \in Slot /\ Gains(Here, u, g)
    BY <1>1, <1>3, <1>4, <1>6, StartThen
  <2> HIDE DEF g, u, es
  <2>2. IsLocals(r) /\ r.pc = "walk" /\ r.dp = 0 /\ r.ip = g /\ r.old = 0
        /\ r.puts = <<>> /\ r.call = c
    BY <2>1 DEF IsLocals, At
  <2> HIDE DEF r
  <2>3. Pointed(r.pc, r.dp, r.ip, r.old, r.call.op)
        /\ r.pc \notin Putting \union {"unused"}
    BY <1>3, <1>4, <2>1, <2>2 DEF Pointed, HasIp, HasDp, HasOld, Putting
  <2>4. loc[p].dp = 0 /\ loc[p].ip = 0 /\ loc[p].old = 0
    BY <1>3 DEF Pointed, HasIp, HasDp, HasOld, Putting
  <2>5. \A x \in Slot : Holds(r, x) = Holds(loc[p], x) + B(g = x)
    BY <1>3, <2>2, <2>4 DEF Holds, B
  <2> QED
    BY <1>1, <1>2, <2>1, <2>2, <2>3, <2>5, GoesStep
<1> QED
  BY <1>5, <1>6

\* sys_link() has the old inode, adds a link and walks to the new name.
LEMMA Link1Step ==
    ASSUME FsInv, NEW p \in Proc, Link1(p) PROVE FsInv'
<1> DEFINE s == loc[p].ip
           w == Ilock(Here, s, p)
           u == Iunlock(LinkUp(w, s), s)
           new == loc[p].call.new
           g == Start(p, u, new)
           v == Started(p, u, new)
           es == Elements(new)
           r == [loc[p] EXCEPT !.pc = "walk", !.old = s, !.rest = es, !.ip = g]
<1>1. /\ ~panicked /\ loc[p].pc = "link" /\ UNCHANGED fileVars
      /\ \/ /\ Becomes(Iunlock(w, s))
            /\ Puts(p, [loc[p] EXCEPT !.ip = 0], <<s>>, "end")
         \/ Becomes(v) /\ Goes(p, r)
  BY DEF Link1, Is, Quiet
<1>2. loc[p].pc \notin Putting \union {"unused", "end"} /\ loc[p].pc \in HasIp
  BY <1>1 DEF Putting, HasIp
<1>3. /\ IsLayer(Here) /\ IsLocals(loc[p]) /\ loc[p].puts = <<>> /\ 0 \notin Slot
      /\ Pointed("link", loc[p].dp, loc[p].ip, loc[p].old, loc[p].call.op)
      /\ cwd[p] \in Slot
  BY <1>1, <1>2, AtLabel
<1>4. Same(Here, Iunlock(w, s)) /\ Same(Here, u)
  BY <1>3, LockedSame, ThenAddLinks, ThenUnlock DEF LinkUp
<1>5. s \in Slot /\ loc[p].dp = 0 /\ loc[p].old = 0 /\ loc[p].call.op = "link"
  BY <1>3 DEF IsLocals, Pointed, HasIp, HasDp, HasOld, Putting
<1>6. CASE /\ Becomes(Iunlock(w, s))
           /\ Puts(p, [loc[p] EXCEPT !.ip = 0], <<s>>, "end")
  <2>1. Pointed("end", loc[p].dp, 0, loc[p].old, loc[p].call.op)
    BY <1>3 DEF Pointed, HasDp, HasIp, HasOld, Putting
  <2> QED
    BY <1>1, <1>2, <1>4, <1>6, <2>1, PutIp
<1>7. CASE Becomes(v) /\ Goes(p, r)
  <2>1. CASE panicked' /\ IsTable(itab')
    BY <2>1, FsPanic
  <2>2. CASE ~(panicked' /\ IsTable(itab'))
    <3>1. g \in Slot /\ Gains(Here, v, g)
      <4> HIDE DEF u
      <4> QED
        BY <1>1, <1>3, <1>4, <1>7, <2>2, StartThen
    <3> HIDE DEF g, v, es
    <3>2. IsLocals(r) /\ r.pc = "walk" /\ r.dp = loc[p].dp /\ r.ip = g /\ r.old = s
          /\ r.puts = <<>> /\ r.call = loc[p].call
      BY <1>3, <1>5, <3>1 DEF IsLocals
    <3> HIDE DEF r
    <3>3. Pointed(r.pc, r.dp, r.ip, r.old, r.call.op)
          /\ r.pc \notin Putting \union {"unused"}
      BY <1>3, <1>5, <3>1, <3>2 DEF Pointed, HasIp, HasDp, HasOld, Putting, Ops
    <3>4. \A x \in Slot : Holds(r, x) = Holds(loc[p], x) + B(g = x)
      BY <1>3, <1>5, <3>2 DEF Holds, B
    <3> QED
      BY <1>1, <1>2, <1>7, <3>1, <3>2, <3>3, <3>4, GoesStep
  <2> QED
    BY <2>1, <2>2
<1> QED
  BY <1>1, <1>6, <1>7

\* sys_unlink() looks the name up in the directory.
LEMMA UnlinkStep ==
    ASSUME FsInv, NEW p \in Proc, Unlink(p) PROVE FsInv'
<1> DEFINE s == loc[p].dp
           w == Ilock(Here, s, p)
           e == Dirlookup(w, s, Head(loc[p].rest))
           g == SlotOf(w, e)
           v == Iget(w, e)
           r == [loc[p] EXCEPT !.pc = "unlink2", !.ip = g]
<1>1. /\ ~panicked /\ loc[p].pc = "unlink" /\ UNCHANGED fileVars
      /\ \/ /\ Becomes(Iunlock(w, s))
            /\ Puts(p, [loc[p] EXCEPT !.dp = 0], <<s>>, "end")
         \/ Becomes(v) /\ Goes(p, r)
  BY DEF Unlink, Is, Quiet
<1>2. loc[p].pc \notin Putting \union {"unused", "end"} /\ loc[p].pc \in HasDp
  BY <1>1 DEF Putting, HasDp
<1>3. /\ IsLayer(Here) /\ IsLocals(loc[p]) /\ loc[p].puts = <<>> /\ 0 \notin Slot
      /\ Pointed("unlink", loc[p].dp, loc[p].ip, loc[p].old, loc[p].call.op)
  BY <1>1, <1>2, AtLabel
<1>4. Same(Here, Iunlock(w, s)) /\ Same(Here, w)
  BY <1>3, LockedSame
<1>5. s # 0 /\ loc[p].ip = 0 /\ loc[p].old = 0
  BY <1>3 DEF IsLocals, Pointed, HasIp, HasDp, HasOld, Putting
<1>6. CASE /\ Becomes(Iunlock(w, s))
           /\ Puts(p, [loc[p] EXCEPT !.dp = 0], <<s>>, "end")
  <2>1. Pointed("end", 0, loc[p].ip, loc[p].old, loc[p].call.op)
    BY <1>3 DEF Pointed, HasDp, HasIp, HasOld, Putting
  <2> QED
    BY <1>1, <1>2, <1>4, <1>6, <2>1, PutDp
<1>7. CASE Becomes(v) /\ Goes(p, r)
  <2>1. CASE panicked' /\ IsTable(itab')
    BY <2>1, FsPanic
  <2>2. CASE ~(panicked' /\ IsTable(itab'))
    <3>1. g \in Slot /\ Gains(Here, v, g)
      <4> HIDE DEF w, e
      <4> QED
        BY <1>4, <1>7, <2>2, IgetThen
    <3> HIDE DEF g, v
    <3>2. IsLocals(r) /\ r.pc = "unlink2" /\ r.dp = s /\ r.ip = g
          /\ r.old = loc[p].old /\ r.puts = <<>> /\ r.call = loc[p].call
      BY <1>3, <3>1 DEF IsLocals
    <3> HIDE DEF r
    <3>3. Pointed(r.pc, r.dp, r.ip, r.old, r.call.op)
          /\ r.pc \notin Putting \union {"unused"}
      BY <1>3, <1>5, <3>1, <3>2 DEF Pointed, HasIp, HasDp, HasOld, Putting
    <3>4. \A x \in Slot : Holds(r, x) = Holds(loc[p], x) + B(g = x)
      BY <1>3, <1>5, <3>2 DEF Holds, B
    <3> QED
      BY <1>1, <1>2, <1>7, <3>1, <3>2, <3>3, <3>4, GoesStep
  <2> QED
    BY <2>1, <2>2
<1> QED
  BY <1>1, <1>6, <1>7

\* sys_unlink() erases the entry and puts the directory.
LEMMA Unlink2Step ==
    ASSUME FsInv, NEW p \in Proc, Unlink2(p) PROVE FsInv'
<1> DEFINE s == loc[p].ip
           d == loc[p].dp
           v == Ilock(Here, s, p)
           di == v.t[s].din
           w == [v EXCEPT !.bad = @ \/ di.nlink < 1]
           w1 == SetEntry(w, d, Head(loc[p].rest), 0)
           w2 == IF di.type = "dir" THEN AddLinks(w1, d, -1) ELSE w1
<1>1. /\ ~panicked /\ loc[p].pc = "unlink2" /\ UNCHANGED fileVars
      /\ \/ /\ Becomes(Iunlock(w, s))
            /\ Puts(p, [loc[p] EXCEPT !.ip = 0], <<s>>, "undp")
         \/ /\ Becomes(Iunlock(w2, d))
            /\ Puts(p, [loc[p] EXCEPT !.dp = 0], <<d>>, "unlink3")
  BY DEF Unlink2, Is, Quiet
<1>2. loc[p].pc \notin Putting /\ loc[p].pc \in HasDp /\ loc[p].pc \in HasIp
  BY <1>1 DEF Putting, HasDp, HasIp
<1>3. /\ IsLayer(Here)
      /\ Pointed("unlink2", loc[p].dp, loc[p].ip, loc[p].old, loc[p].call.op)
  BY <1>1, <1>2, AtLabel
<1>4. Same(Here, v)
  BY <1>3, LockedSame
<1> HIDE DEF v
<1>5. Same(Here, w)
  <2>1. w \in [t : {v.t}, d : {w.d}, bad : {w.bad}]
    BY <1>4 DEF Same, IsLayer
  <2> HIDE DEF w
  <2> QED
    BY <1>4, <2>1, DiskSame, SameSame DEF Same
<1> HIDE DEF w
<1>6. Same(Here, w1)
  BY <1>5, SetEntrySame, SameSame DEF Same
<1> HIDE DEF w1
<1>7. Same(Here, w2)
  BY <1>6, ThenAddLinks
<1> HIDE DEF w2
<1>8. Same(Here, Iunlock(w, s)) /\ Same(Here, Iunlock(w2, d))
  BY <1>5, <1>7, ThenUnlock
<1>9. /\ Pointed("unlink3", 0, loc[p].ip, loc[p].old, loc[p].call.op)
      /\ Pointed("undp", loc[p].dp, 0, loc[p].old, loc[p].call.op)
  BY <1>3 DEF Pointed, HasDp, HasIp, HasOld, Putting
<1>10. CASE /\ Becomes(Iunlock(w, s))
            /\ Puts(p, [loc[p] EXCEPT !.ip = 0], <<s>>, "undp")
  BY <1>1, <1>2, <1>8, <1>9, <1>10, PutIp
<1>11. CASE /\ Becomes(Iunlock(w2, d))
            /\ Puts(p, [loc[p] EXCEPT !.dp = 0], <<d>>, "unlink3")
  BY <1>1, <1>2, <1>8, <1>9, <1>11, PutDp
<1> QED
  BY <1>1, <1>10, <1>11

\* sys_link() enters the new name and puts both inodes, or undoes the link.
LEMMA Link2Step ==
    ASSUME FsInv, NEW p \in Proc, Link2(p) PROVE FsInv'
<1> DEFINE s == loc[p].dp
           o == loc[p].old
           w == Ilock(Here, s, p)
           n == Head(loc[p].rest)
           e == Dirlookup(w, s, n)
           g == SlotOf(w, e)
           v == Iget(w, e)
           u == Iunlock(Dirlink(w, s, n, w.t[o].inum), s)
           r == [[loc[p] EXCEPT !.dp = 0] EXCEPT !.old = 0]
<1>1. /\ ~panicked /\ loc[p].pc = "link2" /\ UNCHANGED fileVars
      /\ \/ /\ Becomes(Iunlock(w, s))
            /\ Puts(p, [loc[p] EXCEPT !.dp = 0], <<s>>, "bad")
         \/ Becomes(v) /\ Puts(p, loc[p], <<g>>, "undp")
         \/ Becomes(u) /\ Puts(p, r, <<s, o>>, "end")
  BY DEF Link2, Is, Quiet
<1>2. loc[p].pc \notin Putting \union {"unused", "end"} /\ loc[p].pc \in HasDp
  BY <1>1 DEF Putting, HasDp
<1>3. /\ IsLayer(Here) /\ IsLocals(loc[p]) /\ loc[p].puts = <<>> /\ 0 \notin Slot
      /\ Pointed("link2", loc[p].dp, loc[p].ip, loc[p].old, loc[p].call.op)
  BY <1>1, <1>2, AtLabel
<1>4. Same(Here, Iunlock(w, s)) /\ Same(Here, w) /\ Same(Here, u)
  BY <1>3, LockedSame, ThenDirlink, ThenUnlock
<1>5. s \in Slot /\ loc[p].ip = 0 /\ o \in Slot
  BY <1>3 DEF IsLocals, Pointed, HasIp, HasDp, HasOld, Putting
<1>6. CASE /\ Becomes(Iunlock(w, s))
           /\ Puts(p, [loc[p] EXCEPT !.dp = 0], <<s>>, "bad")
  <2>1. Pointed("bad", 0, loc[p].ip, loc[p].old, loc[p].call.op)
    BY <1>3 DEF Pointed, HasDp, HasIp, HasOld, Putting
  <2> QED
    BY <1>1, <1>2, <1>4, <1>6, <2>1, PutDp
<1>7. CASE Becomes(v) /\ Puts(p, loc[p], <<g>>, "undp")
  <2>1. CASE panicked' /\ IsTable(itab')
    BY <2>1, FsPanic
  <2>2. CASE ~(panicked' /\ IsTable(itab'))
    <3>1. g \in Slot /\ Gains(Here, v, g)
      <4> HIDE DEF w, e
      <4> QED
        BY <1>4, <1>7, <2>2, IgetThen
    <3> HIDE DEF g, v
    <3>2. Pointed("undp", loc[p].dp, loc[p].ip, loc[p].old, loc[p].call.op)
      BY <1>3, <1>5 DEF Pointed, HasIp, HasDp, HasOld, Putting
    <3>3. \A x \in Slot : Holds(loc[p], x) + B(g = x) = Holds(loc[p], x) + B(g = x)
      OBVIOUS
    <3> QED
      BY <1>1, <1>2, <1>3, <1>7, <3>1, <3>2, <3>3, PutsStep
  <2> QED
    BY <2>1, <2>2
<1>8. CASE Becomes(u) /\ Puts(p, r, <<s, o>>, "end")
  <2> DEFINE q == [r EXCEPT !.pc = "iput", !.puts = <<s, o>>, !.then = "end"]
  <2>1. IsLocals(r) /\ r.dp = 0 /\ r.ip = loc[p].ip /\ r.old = 0 /\ r.call = loc[p].call
    BY <1>3 DEF IsLocals
  <2>2. Goes(p, q)
    BY <1>8 DEF Puts
  <2> HIDE DEF r
  <2>3. /\ IsLocals(q) /\ q.pc = "iput" /\ q.puts = <<s, o>> /\ q.then = "end"
        /\ q.dp = 0 /\ q.ip = loc[p].ip /\ q.old = 0 /\ q.call = loc[p].call
    BY <2>1 DEF IsLocals
  <2> HIDE DEF q
  <2>4. Debts(q) /\ Where(q) = "end"
    BY <1>5, <2>3 DEF Debts, Where, Putting
  <2>5. Pointed(Where(q), q.dp, q.ip, q.old, q.call.op)
    BY <1>5, <2>3, <2>4 DEF Pointed, HasIp, HasDp, HasOld, Putting
  <2>6. ASSUME NEW x \in Slot PROVE Locals(q, x) = Locals(loc[p], x)
    <3>1. Locals(q, x) = B(q.dp = x) + B(q.ip = x) + B(q.old = x) + B(s = x) + B(o = x)
      BY <2>3, LocalsSum
    <3>2. Locals(loc[p], x) = B(s = x) + B(loc[p].ip = x) + B(o = x)
      BY <1>3, LocalsSum
    <3> QED
      BY <1>3, <2>3, <3>1, <3>2 DEF B
  <2> HIDE DEF u
  <2> QED
    BY <1>1, <1>2, <1>4, <1>8, <2>2, <2>3, <2>4, <2>5, <2>6, CallStep
<1> QED
  BY <1>1, <1>6, <1>7, <1>8

\* A step that leaves the inode table alone, to a label without pointers.
LEMMA IdleStep ==
    ASSUME FsInv, ~panicked, NEW p \in Proc,
           loc[p].pc \in {"idle", "exit", "write"},
           itab' = itab, UNCHANGED fileVars, NEW l \in {"write", "exit"}, NEW c, l = "exit" => c.op = "exit",
           Goes(p, [At(l) EXCEPT !.call = c])
    PROVE  FsInv'
<1> DEFINE r == [At(l) EXCEPT !.call = c]
<1>1. loc[p].pc \notin Putting \union {"unused", "end"}
  BY DEF Putting
<1>2. /\ loc[p].puts = <<>> /\ cwd[p] \in Slot /\ 0 \notin Slot
      /\ Pointed(loc[p].pc, loc[p].dp, loc[p].ip, loc[p].old, loc[p].call.op)
  BY <1>1, AtLabel
<1>3. IsTable(itab')
  BY DEF FsInv
<1>4. IsLocals(r) /\ r.pc = l /\ r.dp = 0 /\ r.ip = 0 /\ r.old = 0 /\ r.puts = <<>>
      /\ r.call = c
  BY DEF IsLocals, At
<1> HIDE DEF r
<1>5. loc[p].dp = 0 /\ loc[p].ip = 0 /\ loc[p].old = 0
  BY <1>2 DEF Pointed, HasIp, HasDp, HasOld, Putting
<1>6. ASSUME NEW s \in Slot
      PROVE  itab'[s].ref = itab[s].ref + (Locals(r, s) - Locals(loc[p], s))
  <2>1. Locals(r, s) = Locals(loc[p], s) /\ Locals(r, s) \in Int
    BY <1>2, <1>4, <1>5, LocalsSum DEF B
  <2>2. itab[s].ref \in Int
    BY DEF FsInv, IsTable, IsEntry
  <2> QED
    BY <2>1, <2>2
<1>7. Debts(r) /\ Where(r) = l
  BY <1>4 DEF Debts, Where, Putting
<1>8. Pointed(Where(r), r.dp, r.ip, r.old, r.call.op)
  BY <1>4, <1>7 DEF Pointed, HasIp, HasDp, HasOld, Putting
<1> QED
  BY <1>2, <1>3, <1>4, <1>6, <1>7, <1>8, LocalStep DEF r

\* kexit() begins to close the files.
LEMMA CallExitStep ==
    ASSUME FsInv, NEW p \in Proc, CallExit(p) PROVE FsInv'
<1>1. /\ ~panicked /\ loc[p].pc = "idle" /\ itab' = itab
      /\ UNCHANGED fileVars /\ Goes(p, [At("exit") EXCEPT !.call = [op |-> "exit"]])
  BY DEF CallExit, Is
<1> QED
  BY <1>1, IdleStep

\* filewrite() begins.
LEMMA CallWriteStep ==
    ASSUME FsInv, NEW p \in Proc, NEW fd \in Fd, CallWrite(p, fd) PROVE FsInv'
<1>1. /\ ~panicked /\ loc[p].pc = "idle" /\ itab' = itab
      /\ UNCHANGED fileVars
      /\ Goes(p, [At("write") EXCEPT !.call = [op |-> "write", fd |-> fd]])
  BY DEF CallWrite, Is
<1> QED
  BY <1>1, IdleStep

\* filewrite() lets the file grow.
LEMMA WriteStep ==
    ASSUME FsInv, NEW p \in Proc, Write(p) PROVE FsInv'
<1> DEFINE s == ftable[ofile[p][loc[p].call.fd]].ip
           w == Ilock(Here, s, p)
           v == IF w.t[s].din.type = "file" /\ CanGrow(w, s) THEN Grow(w, s) ELSE w
           r == [loc[p] EXCEPT !.pc = "end"]
<1>1. /\ ~panicked /\ loc[p].pc = "write" /\ UNCHANGED fileVars
      /\ Becomes(Iunlock(v, s)) /\ Goes(p, r)
  BY DEF Write, Is, Quiet
<1>2. loc[p].pc \notin Putting \union {"unused", "end"}
  BY <1>1 DEF Putting
<1>3. /\ IsLayer(Here) /\ IsLocals(loc[p]) /\ loc[p].puts = <<>>
      /\ Pointed("write", loc[p].dp, loc[p].ip, loc[p].old, loc[p].call.op)
  BY <1>1, <1>2, AtLabel
<1>4. Same(Here, w)
  BY <1>3, LockedSame
<1> HIDE DEF w
<1>5. Same(Here, v)
  <2>1. Same(Here, Grow(w, s))
    BY <1>4, GrowSame, SameSame DEF Same
  <2> QED
    BY <1>4, <2>1
<1> HIDE DEF v
<1>6. Same(Here, Iunlock(v, s))
  BY <1>5, ThenUnlock
<1>7. IsLocals(r) /\ r.pc = "end" /\ r.dp = loc[p].dp /\ r.ip = loc[p].ip
      /\ r.old = loc[p].old /\ r.puts = <<>> /\ r.call = loc[p].call
  BY <1>3 DEF IsLocals
<1> HIDE DEF r
<1>8. \A x \in Slot : Holds(r, x) = Holds(loc[p], x)
  BY <1>7 DEF Holds
<1>9. Pointed(r.pc, r.dp, r.ip, r.old, r.call.op) /\ r.pc \notin Putting \union {"unused"}
  BY <1>3, <1>7 DEF Pointed, HasIp, HasDp, HasOld, Putting
<1> QED
  BY <1>1, <1>2, <1>6, <1>7, <1>8, <1>9, GoesStep

-----------------------------------------------------------------------------
(* iput() and end_op().                                                    *)

\* A step of iput(): it keeps the reference, or gives it up.
LEMMA IputStep ==
    ASSUME FsInv, ~panicked, NEW p \in Proc, loc[p].pc \in Putting,
           NEW u, NEW r, Becomes(u), Goes(p, r), UNCHANGED fileVars,
           \/ Same(Here, u) /\ r.puts = loc[p].puts
           \/ /\ loc[p].puts # <<>> /\ r.puts = Tail(loc[p].puts)
              /\ IsLayer(u) /\ Gains(u, Here, Head(loc[p].puts)),
           IsLocals(r), Where(r) = loc[p].then, r.call = loc[p].call,
           r.dp = loc[p].dp, r.ip = loc[p].ip, r.old = loc[p].old,
           r.pc \in {"iput", "unref"} => r.puts # <<>>,
           r.pc \notin Putting => r.puts = <<>>
    PROVE  FsInv'
<1>1. Processes /\ IsTable(itab) /\ Here.t = itab
  BY DEF FsInv, Here
<1>2. ProcessOK(p) /\ Where(loc[p]) = Where(r)
  BY <1>1 DEF Processes, Where
<1>3. Debts(loc[p]) /\ Debts(r)
  <2>1. Debts(loc[p])
    BY <1>2 DEF ProcessOK
  <2>2. \A a : Tail(<<a>>) = <<>>
    OBVIOUS
  <2>3. \A a, b : Tail(<<a, b>>) = <<b>>
    OBVIOUS
  <2>4. CASE r.puts = loc[p].puts
    BY <2>1, <2>4 DEF Debts
  <2>5. CASE loc[p].puts # <<>> /\ r.puts = Tail(loc[p].puts)
    <3>1. \/ r.puts = <<>>
          \/ \E a \in Slot : r.puts = <<a>>
      <4>1. CASE \E a \in Slot : loc[p].puts = <<a>>
        BY <2>2, <2>5, <4>1
      <4>2. CASE \E a, b \in Slot : loc[p].puts = <<a, b>>
        <5>1. PICK a \in Slot, b \in Slot : loc[p].puts = <<a, b>>
          BY <4>2
        <5>2. r.puts = <<b>>
          BY <2>3, <2>5, <5>1
        <5> QED
          BY <5>2
      <4>3. \/ loc[p].puts = <<>>
            \/ \E a \in Slot : loc[p].puts = <<a>>
            \/ \E a, b \in Slot : loc[p].puts = <<a, b>>
        BY <2>1, Zenon DEF Debts
      <4> QED
        BY <2>5, <4>1, <4>2, <4>3, Zenon
    <3> QED
      BY <2>1, <3>1, Zenon DEF Debts
  <2> QED
    BY <2>1, <2>4, <2>5
<1>4. /\ Pointed(Where(r), r.dp, r.ip, r.old, r.call.op)
      /\ cwd[p] = 0 => \/ Where(r) = "unused"
                       \/ Where(r) = "end" /\ r.call.op = "exit"
      /\ Where(r) = "unused" => cwd[p] = 0
  BY <1>2 DEF ProcessOK, Resident
<1>5. IsTable(itab')
  BY DEF Becomes, Same, IsLayer
<1>6. ASSUME NEW s \in Slot
      PROVE  itab'[s].ref = itab[s].ref + (Locals(r, s) - Locals(loc[p], s))
  <2>1. Locals(r, s) \in Int /\ Locals(loc[p], s) \in Int
    BY DEF Locals, Due, B
  <2>2. itab[s].ref \in Int /\ itab'[s].ref \in Int
    BY <1>1, <1>5 DEF IsTable, IsEntry
  <2>3. CASE Same(Here, u) /\ r.puts = loc[p].puts
    <3>1. Locals(r, s) = Locals(loc[p], s)
      BY <2>3 DEF Locals
    <3>2. itab'[s].ref = itab[s].ref
      BY <1>1, <2>3 DEF Same, Becomes
    <3> QED
      BY <2>1, <2>2, <3>1, <3>2
  <2>4. CASE /\ loc[p].puts # <<>> /\ r.puts = Tail(loc[p].puts)
             /\ IsLayer(u) /\ Gains(u, Here, Head(loc[p].puts))
    <3> DEFINE a == Head(loc[p].puts)
    <3>1. Locals(r, s) + B(a = s) = Locals(loc[p], s)
      <4>1. CASE \E x \in Slot : loc[p].puts = <<x>>
        <5>1. PICK x \in Slot : loc[p].puts = <<x>>
          BY <4>1
        <5>2. r.puts = <<>> /\ a = x
          BY <2>4, <5>1
        <5> HIDE DEF a
        <5> QED
          BY <5>1, <5>2, LocalsSum DEF B
      <4>2. CASE \E x, y \in Slot : loc[p].puts = <<x, y>>
        <5>1. PICK x \in Slot, y \in Slot : loc[p].puts = <<x, y>>
          BY <4>2
        <5>2. r.puts = <<y>> /\ a = x
          BY <2>4, <5>1
        <5> HIDE DEF a
        <5> QED
          BY <5>1, <5>2, LocalsSum DEF B
      <4> QED
        BY <1>3, <2>4, <4>1, <4>2 DEF Debts
    <3>2. itab'[s].ref + B(a = s) = itab[s].ref
      BY <1>1, <2>2, <2>4 DEF Gains, Becomes, B
    <3>3. B(a = s) \in Int
      BY DEF B
    <3> HIDE DEF a
    <3> QED
      BY <2>1, <2>2, <3>1, <3>2, <3>3
  <2> QED
    BY <2>3, <2>4
<1> QED
  BY <1>3, <1>4, <1>5, <1>6, LocalStep

\* What is known in iput().
LEMMA AtIput ==
    ASSUME FsInv, ~panicked, NEW p \in Proc, loc[p].pc \in Putting
    PROVE  /\ IsLayer(Here) /\ IsLocals(loc[p]) /\ loc[p].then \notin Putting
           /\ loc[p].pc \in {"iput", "unref"} =>
                 loc[p].puts # <<>> /\ Head(loc[p].puts) \in Slot
<1>1. IsLayer(Here) /\ Processes
  BY DEF FsInv, IsLayer, Here
<1>2. ProcessOK(p) /\ Where(loc[p]) = loc[p].then
  BY <1>1 DEF Processes, Where
<1>3. loc[p].pc \in {"iput", "unref"} =>
          loc[p].puts # <<>> /\ Head(loc[p].puts) \in Slot
  <2>1. \A a : Head(<<a>>) = a
    OBVIOUS
  <2>2. \A a, b : Head(<<a, b>>) = a
    OBVIOUS
  <2> QED
    BY <1>2, <2>1, <2>2 DEF ProcessOK, Debts
<1> QED
  BY <1>1, <1>2, <1>3 DEF ProcessOK, Pointed

\* iput() drops a reference that is not the last one of an unlinked inode.
LEMMA IputDropStep ==
    ASSUME FsInv, NEW p \in Proc, IputDrop(p) PROVE FsInv'
<1> DEFINE l == IF Tail(loc[p].puts) = <<>> THEN loc[p].then ELSE "iput"
           q == Tail(loc[p].puts)
           r == [loc[p] EXCEPT !.puts = q, !.pc = l]
           u == Unref(Here, Head(loc[p].puts))
<1>1. /\ ~panicked /\ loc[p].pc = "iput" /\ UNCHANGED fileVars
      /\ Becomes(u) /\ Goes(p, r)
  BY DEF IputDrop, Is, Quiet
<1>2. loc[p].pc \in Putting
  BY <1>1 DEF Putting
<1>3. /\ IsLayer(Here) /\ IsLocals(loc[p]) /\ loc[p].then \notin Putting
      /\ loc[p].puts # <<>> /\ Head(loc[p].puts) \in Slot
  BY <1>1, <1>2, AtIput
<1>4. Gains(u, Here, Head(loc[p].puts)) /\ IsLayer(u)
  BY <1>3, UnrefCounts
<1>5. l = (IF q = <<>> THEN loc[p].then ELSE "iput") /\ q = Tail(loc[p].puts)
  OBVIOUS
<1> HIDE DEF l, q, u
<1>6. IsLocals(r) /\ r.puts = q /\ r.pc = l /\ r.then = loc[p].then /\ r.dp = loc[p].dp
      /\ r.ip = loc[p].ip /\ r.old = loc[p].old /\ r.call = loc[p].call
  BY <1>3 DEF IsLocals
<1> HIDE DEF r
<1>7. /\ Where(r) = loc[p].then
      /\ r.pc \in {"iput", "unref"} => r.puts # <<>>
      /\ r.pc \notin Putting => r.puts = <<>>
  BY <1>3, <1>5, <1>6 DEF Where, Putting
<1> QED
  BY <1>1, <1>2, <1>3, <1>4, <1>5, <1>6, <1>7, IputStep

\* iput() truncates the unlinked inode and keeps its reference.
LEMMA IputTruncateStep ==
    ASSUME FsInv, NEW p \in Proc, IputTruncate(p) PROVE FsInv'
<1> DEFINE s == Head(loc[p].puts)
           v == [Here EXCEPT !.bad = TRUE]
           u == IF Free(s) THEN IputLast(Here, s) ELSE v
           i == itab[s].inum
           r == [loc[p] EXCEPT !.pc = "unref", !.inum = i]
<1>1. /\ ~panicked /\ loc[p].pc = "iput" /\ UNCHANGED fileVars
      /\ Becomes(u) /\ Goes(p, r)
  BY DEF IputTruncate, Is, Quiet
<1>2. loc[p].pc \in Putting
  BY <1>1 DEF Putting
<1>3. /\ IsLayer(Here) /\ IsLocals(loc[p]) /\ loc[p].then \notin Putting
      /\ loc[p].puts # <<>>
  BY <1>1, <1>2, AtIput
<1>4. Same(Here, u)
  <2>1. v \in [t : {Here.t}, d : {v.d}, bad : {v.bad}]
    BY <1>3 DEF IsLayer
  <2> HIDE DEF v
  <2> QED
    BY <1>3, <2>1, DiskSame, IputLastSame
<1> HIDE DEF u, i
<1>5. IsLocals(r) /\ r.puts = loc[p].puts /\ r.pc = "unref" /\ r.then = loc[p].then
      /\ r.dp = loc[p].dp /\ r.ip = loc[p].ip /\ r.old = loc[p].old
      /\ r.call = loc[p].call
  BY <1>3 DEF IsLocals
<1> HIDE DEF r
<1>6. Where(r) = loc[p].then /\ r.pc \in Putting
  BY <1>5 DEF Where, Putting
<1> QED
  BY <1>1, <1>2, <1>3, <1>4, <1>5, <1>6, IputStep

\* iput() gives the reference up, and has the inode number still to free.
LEMMA IputUnrefStep ==
    ASSUME FsInv, NEW p \in Proc, IputUnref(p) PROVE FsInv'
<1> DEFINE q == Tail(loc[p].puts)
           r == [loc[p] EXCEPT !.pc = "ifree", !.puts = q]
           u == Unref(Here, Head(loc[p].puts))
<1>1. /\ ~panicked /\ loc[p].pc = "unref" /\ UNCHANGED fileVars
      /\ Becomes(u) /\ Goes(p, r)
  BY DEF IputUnref, Is, Quiet
<1>2. loc[p].pc \in Putting
  BY <1>1 DEF Putting
<1>3. /\ IsLayer(Here) /\ IsLocals(loc[p]) /\ loc[p].then \notin Putting
      /\ loc[p].puts # <<>> /\ Head(loc[p].puts) \in Slot
  BY <1>1, <1>2, AtIput
<1>4. Gains(u, Here, Head(loc[p].puts)) /\ IsLayer(u) /\ q = Tail(loc[p].puts)
  BY <1>3, UnrefCounts
<1> HIDE DEF q, u
<1>5. IsLocals(r) /\ r.puts = q /\ r.pc = "ifree" /\ r.then = loc[p].then
      /\ r.dp = loc[p].dp /\ r.ip = loc[p].ip /\ r.old = loc[p].old
      /\ r.call = loc[p].call
  BY <1>3 DEF IsLocals
<1> HIDE DEF r
<1>6. Where(r) = loc[p].then /\ r.pc \in Putting
  BY <1>5 DEF Where, Putting
<1> QED
  BY <1>1, <1>2, <1>3, <1>4, <1>5, <1>6, IputStep

\* iput() frees the inode number.
LEMMA IputFreeStep ==
    ASSUME FsInv, NEW p \in Proc, IputFree(p) PROVE FsInv'
<1> DEFINE l == IF loc[p].puts = <<>> THEN loc[p].then ELSE "iput"
           r == [loc[p] EXCEPT !.inum = 0, !.pc = l]
           u == Ifree(Here, loc[p].inum)
<1>1. /\ ~panicked /\ loc[p].pc = "ifree" /\ UNCHANGED fileVars
      /\ Becomes(u) /\ Goes(p, r)
  BY DEF IputFree, Is, Quiet
<1>2. loc[p].pc \in Putting
  BY <1>1 DEF Putting
<1>3. IsLayer(Here) /\ IsLocals(loc[p]) /\ loc[p].then \notin Putting
  BY <1>2, <1>1, AtIput
<1>4. Same(Here, u)
  BY <1>3, IfreeSame
<1>5. l = IF loc[p].puts = <<>> THEN loc[p].then ELSE "iput"
  OBVIOUS
<1> HIDE DEF l, u
<1>6. IsLocals(r) /\ r.puts = loc[p].puts /\ r.pc = l /\ r.then = loc[p].then
      /\ r.dp = loc[p].dp /\ r.ip = loc[p].ip /\ r.old = loc[p].old
      /\ r.call = loc[p].call
  BY <1>3 DEF IsLocals
<1> HIDE DEF r
<1>7. /\ Where(r) = loc[p].then
      /\ r.pc \in {"iput", "unref"} => r.puts # <<>>
      /\ r.pc \notin Putting => r.puts = <<>>
  BY <1>3, <1>5, <1>6 DEF Where, Putting
<1> QED
  BY <1>1, <1>2, <1>4, <1>6, <1>7, IputStep

\* end_op(); a process that exits is gone.
LEMMA EndOpStep ==
    ASSUME FsInv, NEW p \in Proc, EndOp(p) PROVE FsInv'
<1> DEFINE r == AfterCall(p)
<1>1. /\ ~panicked /\ loc[p].pc = "end" /\ UNCHANGED fileVars
      /\ itab' = itab /\ Goes(p, r)
  BY DEF EndOp, Is
<1>2. loc[p].pc \notin Putting
  BY <1>1 DEF Putting
<1>3. /\ IsLocals(loc[p]) /\ loc[p].puts = <<>>
      /\ Pointed("end", loc[p].dp, loc[p].ip, loc[p].old, loc[p].call.op)
  BY <1>1, <1>2, AtLabel
<1>4. loc[p].dp = 0 /\ loc[p].ip = 0 /\ loc[p].old = 0
  BY <1>3 DEF Pointed, HasIp, HasDp, HasOld, Putting
<1>5. cwd[p] = 0 => loc[p].call.op = "exit"
  <2>1. Processes /\ Where(loc[p]) = "end"
    BY <1>1, <1>2 DEF FsInv, Where
  <2> QED
    BY <2>1 DEF Processes, ProcessOK, Resident
<1>6. /\ IsLocals(r) /\ r.dp = 0 /\ r.ip = 0 /\ r.old = 0 /\ r.puts = <<>>
      /\ \/ r.pc = "idle" /\ cwd[p] # 0
         \/ r.pc = "exit" /\ r.call.op = "exit" /\ cwd[p] # 0
         \/ r.pc = "unused" /\ cwd[p] = 0
  BY <1>5 DEF AfterCall, At, IsLocals
<1> HIDE DEF r
<1>7. Debts(r) /\ Where(r) = r.pc
  BY <1>6 DEF Debts, Where, Putting
<1>8. Pointed(Where(r), r.dp, r.ip, r.old, r.call.op)
  BY <1>6, <1>7 DEF Pointed, HasIp, HasDp, HasOld, Putting
<1>9. IsTable(itab')
  BY <1>1 DEF FsInv
<1>10. ASSUME NEW s \in Slot
       PROVE  itab'[s].ref = itab[s].ref + (Locals(r, s) - Locals(loc[p], s))
  <2>1. Locals(r, s) = Locals(loc[p], s) /\ Locals(r, s) \in Int
    BY <1>3, <1>4, <1>6, LocalsSum DEF B
  <2>2. itab[s].ref \in Int
    BY DEF FsInv, IsTable, IsEntry
  <2> QED
    BY <1>1, <2>1, <2>2
<1> QED
  BY <1>1, <1>6, <1>7, <1>8, <1>9, <1>10, LocalStep

-----------------------------------------------------------------------------
(* Working directories.                                                    *)

\* sys_chdir() puts the old working directory and has the new one.
LEMMA ChdirStep ==
    ASSUME FsInv, NEW p \in Proc, Chdir(p) PROVE FsInv'
<1> DEFINE s == loc[p].ip
           w == Ilock(Here, s, p)
           u == Iunlock(w, s)
           up == [loc[p] EXCEPT !.ip = 0]
           r == [up EXCEPT !.pc = "iput", !.puts = <<cwd[p]>>, !.then = "end"]
<1>1. /\ ~panicked /\ loc[p].pc = "chdir" /\ UNCHANGED <<ftable, ofile>> /\ Becomes(u)
      /\ \/ Puts(p, up, <<s>>, "end") /\ UNCHANGED cwd
         \/ Goes(p, r) /\ cwd' = [cwd EXCEPT ![p] = s]
  BY DEF Chdir, Is, OldCwd, Puts
<1>2. loc[p].pc \notin Putting \union {"unused", "end"} /\ loc[p].pc \in HasIp
  BY <1>1 DEF Putting, HasIp
<1>3. /\ IsLayer(Here) /\ IsLocals(loc[p]) /\ loc[p].puts = <<>> /\ 0 \notin Slot
      /\ Pointed("chdir", loc[p].dp, loc[p].ip, loc[p].old, loc[p].call.op)
      /\ cwd[p] \in Slot /\ Here.t = itab
  BY <1>1, <1>2, AtLabel
<1>4. Same(Here, u)
  BY <1>3, LockedSame
<1>5. Pointed("end", loc[p].dp, 0, loc[p].old, loc[p].call.op)
  BY <1>3 DEF Pointed, HasDp, HasIp, HasOld, Putting
<1>6. CASE Puts(p, up, <<s>>, "end") /\ UNCHANGED cwd
  <2>1. UNCHANGED fileVars
    BY <1>1, <1>6 DEF fileVars
  <2> QED
    BY <1>1, <1>2, <1>4, <1>5, <1>6, <2>1, PutIp
<1>7. CASE Goes(p, r) /\ cwd' = [cwd EXCEPT ![p] = s]
  <2>1. s \in Slot
    BY <1>3 DEF IsLocals, Pointed, HasIp
  <2>2. IsLocals(up) /\ up.dp = loc[p].dp /\ up.ip = 0 /\ up.old = loc[p].old
        /\ up.call = loc[p].call
    BY <1>3 DEF IsLocals
  <2> HIDE DEF up
  <2>3. IsLocals(r) /\ r.pc = "iput" /\ r.puts = <<cwd[p]>> /\ r.then = "end"
        /\ r.dp = loc[p].dp /\ r.ip = 0 /\ r.old = loc[p].old /\ r.call = loc[p].call
    BY <2>2 DEF IsLocals
  <2> HIDE DEF r, u
  <2>4. Debts(r) /\ Where(r) = "end"
    BY <1>3, <2>3 DEF Debts, Where, Putting
  <2>5. Pointed(Where(r), r.dp, r.ip, r.old, r.call.op)
    BY <1>5, <2>3, <2>4
  <2>6. IsTable(itab') /\ Processes /\ Files /\ RefsExact
    BY <1>1, <1>4 DEF Becomes, Same, IsLayer, FsInv
  <2>7. Files' /\ ofile' \in [Proc -> [Fd -> File \union {0}]]
        /\ \A q \in Proc \ {p} : ofile'[q] = ofile[q]
    BY <1>1, <2>6 DEF Files, Processes
  <2>8. \A f \in File : ftable'[f].ref = Opened(f)'
    BY <1>1, <2>6, RefsAre DEF Opened
  <2>9. ASSUME NEW x \in Slot
        PROVE  itab'[x].ref = itab[x].ref + (Locals(r, x) - Locals(loc[p], x))
                                  + (B(s = x) - B(cwd[p] = x))
                                  + (FileRefs(x)' - FileRefs(x))
    <3>1. itab'[x].ref = itab[x].ref /\ itab[x].ref \in Int
      BY <1>1, <1>3, <1>4 DEF Same, Becomes, FsInv, IsTable, IsEntry
    <3>2. FileRefs(x)' = FileRefs(x) /\ FileRefs(x) \in Nat
      BY <1>1, PointersAre DEF FileRefs
    <3>3. Locals(r, x) = B(r.dp = x) + B(r.ip = x) + B(r.old = x) + B(cwd[p] = x)
      BY <2>3, LocalsSum
    <3>4. Locals(loc[p], x) = B(loc[p].dp = x) + B(s = x) + B(loc[p].old = x)
      BY <1>3, LocalsSum
    <3>5. Locals(r, x) + B(s = x) = Locals(loc[p], x) + B(cwd[p] = x)
      BY <1>3, <2>3, <3>3, <3>4 DEF B
    <3>6. /\ Locals(r, x) \in Int /\ Locals(loc[p], x) \in Int
          /\ B(s = x) \in Int /\ B(cwd[p] = x) \in Int
      BY DEF Locals, Due, B
    <3> QED
      BY <3>1, <3>2, <3>5, <3>6
  <2> HIDE DEF s
  <2>10. s \in Slot \union {0} /\ s # 0 /\ Where(r) # "unused"
    BY <1>3, <2>1, <2>4
  <2> QED
    BY <1>1, <1>7, <2>3, <2>4, <2>5, <2>6, <2>7, <2>8, <2>9, <2>10, AnyStep
<1> QED
  BY <1>1, <1>6, <1>7

\* kexit() puts the working directory.
LEMMA ExitCwdStep ==
    ASSUME FsInv, NEW p \in Proc, ExitCwd(p) PROVE FsInv'
<1> DEFINE r == [loc[p] EXCEPT !.pc = "iput", !.puts = <<cwd[p]>>, !.then = "end"]
<1>1. /\ ~panicked /\ loc[p].pc = "exit" /\ UNCHANGED <<ftable, ofile>> /\ itab' = itab
      /\ FreeFds(p) = Fd /\ Goes(p, r) /\ cwd' = [cwd EXCEPT ![p] = 0]
  BY DEF ExitCwd, Is, Puts
<1>2. loc[p].pc \notin Putting \union {"unused", "end"}
  BY <1>1 DEF Putting
<1>3. /\ IsLocals(loc[p]) /\ loc[p].puts = <<>> /\ 0 \notin Slot
      /\ Pointed("exit", loc[p].dp, loc[p].ip, loc[p].old, loc[p].call.op)
      /\ cwd[p] \in Slot
  BY <1>1, <1>2, AtLabel
<1>4. IsLocals(r) /\ r.pc = "iput" /\ r.puts = <<cwd[p]>> /\ r.then = "end"
      /\ r.dp = loc[p].dp /\ r.ip = loc[p].ip /\ r.old = loc[p].old
      /\ r.call = loc[p].call
  BY <1>3 DEF IsLocals
<1> HIDE DEF r
<1>5. Debts(r) /\ Where(r) = "end"
  BY <1>3, <1>4 DEF Debts, Where, Putting
<1>6. Pointed(Where(r), r.dp, r.ip, r.old, r.call.op) /\ r.call.op = "exit"
  BY <1>3, <1>4, <1>5 DEF Pointed, HasDp, HasIp, HasOld, Putting
<1>7. IsTable(itab') /\ Processes /\ Files /\ RefsExact
  BY <1>1 DEF FsInv
<1>8. Files' /\ ofile' \in [Proc -> [Fd -> File \union {0}]]
      /\ \A q \in Proc \ {p} : ofile'[q] = ofile[q]
  BY <1>1, <1>7 DEF Files, Processes
<1>9. \A f \in File : ftable'[f].ref = Opened(f)'
  BY <1>1, <1>7, RefsAre DEF Opened
<1>10. \A fd \in Fd : ofile'[p][fd] = 0
  BY <1>1 DEF FreeFds
<1> DEFINE c == 0
<1>11. c \in Slot \union {0} /\ c \notin Slot /\ cwd' = [cwd EXCEPT ![p] = c]
  BY <1>1, <1>3
<1> HIDE DEF c
<1>12. ASSUME NEW x \in Slot
       PROVE  itab'[x].ref = itab[x].ref + (Locals(r, x) - Locals(loc[p], x))
                                 + (B(c = x) - B(cwd[p] = x))
                                 + (FileRefs(x)' - FileRefs(x))
  <2>1. itab'[x].ref = itab[x].ref /\ itab[x].ref \in Int
    BY <1>1 DEF FsInv, IsTable, IsEntry
  <2>2. FileRefs(x)' = FileRefs(x) /\ FileRefs(x) \in Nat
    BY <1>1, PointersAre DEF FileRefs
  <2>3. Locals(r, x) = B(r.dp = x) + B(r.ip = x) + B(r.old = x) + B(cwd[p] = x)
    BY <1>4, LocalsSum
  <2>4. Locals(loc[p], x) = B(loc[p].dp = x) + B(loc[p].ip = x) + B(loc[p].old = x)
    BY <1>3, LocalsSum
  <2>5. B(c = x) = 0
    BY <1>11 DEF B
  <2>6. Locals(r, x) = Locals(loc[p], x) + B(cwd[p] = x)
    BY <1>4, <2>3, <2>4 DEF B
  <2>7. Locals(r, x) \in Int /\ Locals(loc[p], x) \in Int /\ B(cwd[p] = x) \in Int
    BY DEF Locals, Due, B
  <2> DEFINE l1 == Locals(r, x)
             l0 == Locals(loc[p], x)
             b1 == B(c = x)
             b0 == B(cwd[p] = x)
             n0 == itab[x].ref
             n1 == itab'[x].ref
             f0 == FileRefs(x)
             f1 == FileRefs(x)'
  <2>8. n1 = n0 /\ n0 \in Int /\ f1 = f0 /\ f0 \in Int /\ b1 = 0 /\ l1 = l0 + b0
        /\ l0 \in Int /\ b0 \in Int
    BY <2>1, <2>2, <2>5, <2>6, <2>7
  <2> HIDE DEF l1, l0, b1, b0, n0, n1, f0, f1
  <2>9. n1 = n0 + (l1 - l0) + (b1 - b0) + (f1 - f0)
    BY <2>8
  <2> QED
    BY <2>9 DEF l1, l0, b1, b0, n0, n1, f0, f1
<1> QED
  BY <1>1, <1>4, <1>5, <1>6, <1>7, <1>8, <1>9, <1>10, <1>11, <1>12, AnyStep

-----------------------------------------------------------------------------
(* Recovery, and steps that change none of this.                           *)

\* Nothing that FsInv looks at has changed.
LEMMA StutterStep ==
    ASSUME FsInv, UNCHANGED <<itab, panicked, loc, ftable, ofile, cwd>> PROVE FsInv'
<1>1. IsTable(itab')
  BY DEF FsInv
<1>2. CASE panicked
  BY <1>1, <1>2, FsPanic
<1>3. CASE ~panicked
  <2> DEFINE p == InitProc
             r == loc[p]
  <2>1. p \in Proc /\ Processes
    BY <1>3, FileSysAssumption DEF FsInv
  <2>2. ProcessOK(p)
    BY <2>1 DEF Processes
  <2>3. Goes(p, r)
    BY <2>1 DEF Processes, Goes
  <2>4. UNCHANGED fileVars
    BY DEF fileVars
  <2>5. ASSUME NEW s \in Slot
        PROVE  itab'[s].ref = itab[s].ref + (Locals(r, s) - Locals(loc[p], s))
    <3>1. Locals(r, s) = Locals(loc[p], s) /\ Locals(r, s) \in Int
      BY DEF Locals, Due, B
    <3>2. itab[s].ref \in Int
      BY DEF FsInv, IsTable, IsEntry
    <3> QED
      BY <3>1, <3>2
  <2>6. /\ IsLocals(r) /\ Debts(r)
        /\ Pointed(Where(r), r.dp, r.ip, r.old, r.call.op)
        /\ cwd[p] = 0 => \/ Where(r) = "unused"
                         \/ Where(r) = "end" /\ r.call.op = "exit"
        /\ Where(r) = "unused" => cwd[p] = 0
    BY <2>2 DEF ProcessOK, Resident
  <2> HIDE DEF p, r
  <2> QED
    BY <1>1, <1>3, <2>1, <2>3, <2>4, <2>5, <2>6, LocalStep
<1> QED
  BY <1>2, <1>3

\* ireclaim() looks at one inode, before any process is up.
LEMMA ReclaimStep ==
    ASSUME FsInv, Reclaim PROVE FsInv'
<1> DEFINE p == InitProc
           s == SlotOf(Here, scan)
           w == Iget(Here, scan)
           u == Load(w, s)
<1>1. /\ ~panicked /\ loc[p].pc = "idle" /\ UNCHANGED fileVars
      /\ \/ UNCHANGED <<itab, panicked, loc>>
         \/ Becomes(u) /\ Puts(p, loc[p], <<s>>, "end")
  BY DEF Reclaim, Is
<1>2. CASE UNCHANGED <<itab, panicked, loc>>
  BY <1>1, <1>2, StutterStep DEF fileVars
<1>3. CASE Becomes(u) /\ Puts(p, loc[p], <<s>>, "end")
  <2>1. p \in Proc /\ loc[p].pc \notin Putting \union {"unused", "end"}
    BY <1>1, FileSysAssumption DEF Putting
  <2>2. /\ IsLayer(Here) /\ IsLocals(loc[p])
        /\ Pointed("idle", loc[p].dp, loc[p].ip, loc[p].old, loc[p].call.op)
    BY <1>1, <2>1, AtLabel
  <2>3. IsLayer(w) => Same(w, u)
    BY IlockSame, ThenUnlock DEF Load
  <2>4. CASE ~HasSlot(Here, scan)
    <3>1. IsLayer(w) /\ w.bad
      BY <2>2, <2>4, IgetFails DEF Same
    <3>2. w.bad => u.bad
      <4> HIDE DEF w, s
      <4> QED
        BY <3>1 DEF Load, Ilock, Iunlock, IsLayer
    <3>3. IsTable(u.t)
      BY <2>3, <3>1 DEF Same, IsLayer
    <3> QED
      BY <1>3, <3>1, <3>2, <3>3, FsPanic DEF Becomes
  <2>5. CASE HasSlot(Here, scan)
    <3>1. s \in Slot /\ Gains(Here, w, s)
      BY <2>2, <2>5, SlotOfMatches, IgetGains
    <3>2. Gains(Here, u, s)
      BY <2>3, <3>1 DEF Gains, Same
    <3>3. \A x \in Slot : Holds(loc[p], x) + B(s = x) = Holds(loc[p], x) + B(s = x)
      OBVIOUS
    <3>4. Pointed("end", loc[p].dp, loc[p].ip, loc[p].old, loc[p].call.op)
      BY <2>2 DEF Pointed, HasDp, HasIp, HasOld, Putting
    <3> HIDE DEF p, s, u
    <3> QED
      BY <1>1, <1>3, <2>1, <2>2, <3>1, <3>2, <3>3, <3>4, PutsStep
  <2> QED
    BY <2>4, <2>5
<1> QED
  BY <1>1, <1>2, <1>3

-----------------------------------------------------------------------------
(* Open files.                                                             *)

\* One descriptor changes.
LEMMA DescriptorSet ==
    ASSUME ofile \in [Proc -> [Fd -> File \union {0}]], NEW p \in Proc, NEW fd \in Fd,
           NEW g \in File \union {0}, ofile' = [ofile EXCEPT ![p][fd] = g]
    PROVE  /\ ofile' \in [Proc -> [Fd -> File \union {0}]]
           /\ \A q \in Proc \ {p} : ofile'[q] = ofile[q]
           /\ \A n \in Fd \ {fd} : ofile'[p][n] = ofile[p][n]
           /\ ofile'[p][fd] = g
OBVIOUS

\* One descriptor of p changes, and so do the counts of at most two files.
LEMMA DescriptorMoves ==
    ASSUME NEW p \in Proc, NEW fd \in Fd,
           \A q \in Proc \ {p} : ofile'[q] = ofile[q],
           \A n \in Fd \ {fd} : ofile'[p][n] = ofile[p][n], NEW f
    PROVE  /\ Opened(f) \in Nat /\ Opened(f)' \in Nat
           /\ Opened(f)' = Opened(f) - B(ofile[p][fd] = f) + B(ofile'[p][fd] = f)
<1> DEFINE O == {x \in Proc \X Fd : ofile[x[1]][x[2]] = f}
<1>1. O \ {<<p, fd>>} = O' \ {<<p, fd>>}
  <2>1. ASSUME NEW q \in Proc, NEW n \in Fd, <<q, n>> # <<p, fd>>
        PROVE  ofile'[q][n] = ofile[q][n]
    <3>1. q # p \/ n # fd
      BY <2>1
    <3> QED
      BY <3>1
  <2> QED
    BY <2>1
<1>2. IsFiniteSet(O)
  BY TablesFinite, FS_Subset
<1>3. /\ (<<p, fd>> \in O) = (ofile[p][fd] = f)
      /\ (<<p, fd>> \in O') = (ofile'[p][fd] = f)
  OBVIOUS
<1> HIDE DEF O
<1>4. /\ Cardinality(O) \in Nat /\ Cardinality(O') \in Nat
      /\ Cardinality(O') = Cardinality(O) - B(<<p, fd>> \in O) + B(<<p, fd>> \in O')
  BY <1>1, <1>2, OneElement
<1>5. Opened(f) = Cardinality(O) /\ Opened(f)' = Cardinality(O')
  BY DEF Opened, O
<1> QED
  BY <1>3, <1>4, <1>5

\* One file changes its inode.
LEMMA FileMoves ==
    ASSUME NEW f \in File, \A h \in File \ {f} : ftable'[h].ip = ftable[h].ip, NEW s
    PROVE  /\ FileRefs(s) \in Nat /\ FileRefs(s)' \in Nat
           /\ FileRefs(s)' = FileRefs(s) - B(ftable[f].ip = s) + B(ftable'[f].ip = s)
<1> DEFINE S == {h \in File : ftable[h].ip = s}
<1>1. S \ {f} = S' \ {f} /\ (f \in S) = (ftable[f].ip = s)
      /\ (f \in S') = (ftable'[f].ip = s)
  OBVIOUS
<1>2. IsFiniteSet(S)
  BY TablesFinite, FS_Subset
<1>3. FileRefs(s) = Cardinality(S) /\ FileRefs(s)' = Cardinality(S')
  BY DEF FileRefs
<1> HIDE DEF S
<1>4. /\ Cardinality(S) \in Nat /\ Cardinality(S') \in Nat
      /\ Cardinality(S') = Cardinality(S) - B(f \in S) + B(f \in S')
  BY <1>1, <1>2, OneElement
<1> QED
  BY <1>1, <1>3, <1>4

\* No file changes its inode.
LEMMA FilesStay ==
    ASSUME \A h \in File : ftable'[h].ip = ftable[h].ip
    PROVE  \A s : FileRefs(s)' = FileRefs(s)
<1>1. ASSUME NEW s PROVE FileRefs(s)' = FileRefs(s)
  <2>1. {h \in File : ftable'[h].ip = s} = {h \in File : ftable[h].ip = s}
    OBVIOUS
  <2> QED
    BY <2>1 DEF FileRefs
<1> QED
  BY <1>1

\* A step on files of a process that has a working directory.
LEMMA FileStep ==
    ASSUME FsInv, ~panicked, NEW p \in Proc, NEW r, Goes(p, r),
           cwd' = cwd, cwd[p] \in Slot, IsTable(itab'),
           ofile' \in [Proc -> [Fd -> File \union {0}]],
           \A q \in Proc \ {p} : ofile'[q] = ofile[q],
           Files', \A f \in File : ftable'[f].ref = Opened(f)',
           IsLocals(r), Debts(r), Pointed(Where(r), r.dp, r.ip, r.old, r.call.op),
           Where(r) # "unused",
           \A s \in Slot :
               /\ itab'[s].ref = itab[s].ref
               /\ Locals(r, s) + FileRefs(s)' = Locals(loc[p], s) + FileRefs(s)
    PROVE  FsInv'
<1> DEFINE c == cwd[p]
<1>1. cwd' = [cwd EXCEPT ![p] = c]
  BY DEF FsInv, Processes
<1>2. c \in Slot \union {0} /\ c # 0
  BY DEF Slot
<1>3. ASSUME NEW s \in Slot
      PROVE  itab'[s].ref = itab[s].ref + (Locals(r, s) - Locals(loc[p], s))
                                + (B(c = s) - B(cwd[p] = s))
                                + (FileRefs(s)' - FileRefs(s))
  <2>1. Locals(r, s) \in Int /\ Locals(loc[p], s) \in Int /\ B(c = s) \in Int
        /\ B(c = s) = B(cwd[p] = s)
    BY DEF Locals, Due, B
  <2>2. itab[s].ref \in Int /\ itab'[s].ref = itab[s].ref
        /\ Locals(r, s) + FileRefs(s)' = Locals(loc[p], s) + FileRefs(s)
    BY DEF FsInv, IsTable, IsEntry
  <2>3. /\ Pointers(s) = ProcRefs(s) + FileRefs(s)
        /\ ProcRefs(s) \in Nat /\ FileRefs(s) \in Nat
    BY PointersAre
  <2>4. (/\ Pointers(s) = ProcRefs(s) + FileRefs(s)
         /\ ProcRefs(s) \in Nat /\ FileRefs(s) \in Nat)'
    BY PointersAre, PTL
  <2> DEFINE l1 == Locals(r, s)
             l0 == Locals(loc[p], s)
             b == B(c = s)
             n0 == itab[s].ref
             n1 == itab'[s].ref
             f0 == FileRefs(s)
             f1 == FileRefs(s)'
  <2>5. n1 = n0 /\ n0 \in Int /\ f1 \in Int /\ f0 \in Int /\ l1 + f1 = l0 + f0
        /\ l0 \in Int /\ l1 \in Int /\ b \in Int
    BY <2>1, <2>2, <2>3, <2>4
  <2> HIDE DEF l1, l0, b, n0, n1, f0, f1
  <2>6. n1 = n0 + (l1 - l0) + (b - b) + (f1 - f0)
    BY <2>5
  <2> QED
    BY <2>1, <2>6 DEF l1, l0, b, n0, n1, f0, f1
<1> HIDE DEF c
<1> QED
  BY <1>1, <1>2, <1>3, AnyStep

\* filealloc() and fdalloc() return a free file and a free descriptor.
LEMMA FirstFree ==
    ASSUME NEW p
    PROVE  /\ FreeFiles # {} => Min(FreeFiles) \in FreeFiles
           /\ FreeFds(p) # {} => Min(FreeFds(p)) \in FreeFds(p)
           /\ FreeFds(p) # Fd => Min(Fd \ FreeFds(p)) \in Fd \ FreeFds(p)
<1>1. FreeFiles \subseteq Nat /\ Fd \subseteq Nat /\ FreeFds(p) \subseteq Fd
  BY DEF FreeFiles, FreeFds, File, Fd
<1> QED
  BY <1>1, MinIsMember

\* What FsInv says of a file that descriptor fd is for.
LEMMA OpenFile ==
    ASSUME FsInv, ~panicked, NEW p \in Proc, NEW fd \in Fd, ofile[p][fd] # 0
    PROVE  LET f == ofile[p][fd]
           IN  /\ f \in File /\ ftable[f].ref > 0 /\ ftable[f].ref \in Nat
               /\ ftable[f].ip \in Slot
<1> DEFINE f == ofile[p][fd]
           O == {x \in Proc \X Fd : ofile[x[1]][x[2]] = f}
<1>1. Processes /\ Files /\ RefsExact
  BY DEF FsInv
<1>2. f \in File
  BY <1>1 DEF Processes
<1>3. ftable[f].ref = Cardinality(O)
  BY <1>1, <1>2, RefsAre DEF Opened
<1>4. IsFiniteSet(O) /\ <<p, fd>> \in O
  BY TablesFinite, FS_Subset
<1> HIDE DEF O, f
<1>5. Cardinality(O) \in Nat /\ Cardinality(O) # 0
  BY <1>4, FS_CardinalityType, FS_EmptySet
<1>6. ftable[f].ref > 0 /\ ftable[f].ref \in Nat
  BY <1>3, <1>5
<1>7. ftable[f].ip \in Slot
  BY <1>1, <1>2, <1>6 DEF Files
<1> QED
  BY <1>2, <1>6, <1>7 DEF f

\* p is as it was.
LEMMA Unmoved ==
    ASSUME FsInv, ~panicked, NEW p \in Proc, loc' = loc
    PROVE  /\ Goes(p, loc[p]) /\ IsLocals(loc[p]) /\ Debts(loc[p])
           /\ Pointed(Where(loc[p]), loc[p].dp, loc[p].ip, loc[p].old,
                      loc[p].call.op)
<1>1. Processes
  BY DEF FsInv
<1> QED
  BY <1>1 DEF Processes, ProcessOK, Goes

\* fileclose() drops a reference to the file, and puts its inode with the last one.
LEMMA FileCloseStep ==
    ASSUME FsInv, ~panicked, NEW p \in Proc, NEW fd \in Fd,
           loc[p].pc \in {"idle", "exit"}, FileClose(p, fd)
    PROVE  FsInv'
<1> DEFINE f == ofile[p][fd]
           r == [loc[p] EXCEPT !.pc = "iput", !.puts = <<ftable[f].ip>>, !.then = "end"]
<1>1. /\ f # 0 /\ ofile' = [ofile EXCEPT ![p][fd] = 0] /\ cwd' = cwd /\ itab' = itab
      /\ \/ /\ ftable[f].ref # 1 /\ loc' = loc
            /\ ftable' = [ftable EXCEPT ![f].ref = @ - 1]
         \/ /\ ftable[f].ref = 1 /\ Goes(p, r)
            /\ ftable' = [ftable EXCEPT ![f] = NoFile]
  BY DEF FileClose, Puts
<1>2. /\ f \in File /\ ftable[f].ref > 0 /\ ftable[f].ref \in Nat
      /\ ftable[f].ip \in Slot
  BY <1>1, OpenFile
<1>3. loc[p].pc \notin Putting \union {"unused", "end"}
  BY DEF Putting
<1>4. /\ IsLocals(loc[p]) /\ loc[p].puts = <<>> /\ 0 \notin Slot /\ cwd[p] \in Slot
      /\ Pointed(loc[p].pc, loc[p].dp, loc[p].ip, loc[p].old, loc[p].call.op)
  BY <1>3, AtLabel
<1>5. Processes /\ Files /\ IsTable(itab') /\ \A h \in File : ftable[h].ref = Opened(h)
  BY <1>1, RefsAre DEF FsInv
<1>6. /\ ofile' \in [Proc -> [Fd -> File \union {0}]]
      /\ \A q \in Proc \ {p} : ofile'[q] = ofile[q]
      /\ \A h \in File : Opened(h) \in Nat /\ Opened(h)' = Opened(h) - B(f = h)
  <2>1. ofile \in [Proc -> [Fd -> File \union {0}]]
    BY <1>5 DEF Processes
  <2> DEFINE g == 0
  <2>2. g \in File \union {0} /\ ofile' = [ofile EXCEPT ![p][fd] = g]
        /\ g \notin File /\ f = ofile[p][fd]
    BY <1>1 DEF File
  <2> HIDE DEF g, f
  <2>3. /\ ofile' \in [Proc -> [Fd -> File \union {0}]]
        /\ \A q \in Proc \ {p} : ofile'[q] = ofile[q]
        /\ \A m \in Fd \ {fd} : ofile'[p][m] = ofile[p][m]
        /\ ofile'[p][fd] = g
    BY <2>1, <2>2, DescriptorSet
  <2>4. ASSUME NEW h \in File
        PROVE  Opened(h) \in Nat /\ Opened(h)' = Opened(h) - B(f = h)
    <3>1. /\ Opened(h) \in Nat /\ Opened(h)' \in Nat
          /\ Opened(h)' = Opened(h) - B(ofile[p][fd] = h) + B(ofile'[p][fd] = h)
      BY <2>3, DescriptorMoves
    <3>2. B(ofile'[p][fd] = h) = 0 /\ B(ofile[p][fd] = h) = B(f = h) /\ B(f = h) \in Int
      BY <2>2, <2>3 DEF B
    <3> QED
      BY <3>1, <3>2
  <2> QED
    BY <2>3, <2>4
<1>7. ASSUME NEW s \in Slot PROVE itab'[s].ref = itab[s].ref
  BY <1>1
<1>8. CASE /\ ftable[f].ref # 1 /\ loc' = loc
           /\ ftable' = [ftable EXCEPT ![f].ref = @ - 1]
  <2> HIDE DEF f
  <2>1. /\ ftable' \in [File -> [ref : Int, ip : Slot \union {0}, writable : BOOLEAN]]
        /\ \A h \in File : /\ ftable'[h].ip = ftable[h].ip
                           /\ ftable'[h].ref = ftable[h].ref - B(f = h)
    BY <1>2, <1>5, <1>8 DEF Files, B
  <2>2. Files'
    BY <1>2, <1>5, <1>8, <2>1 DEF Files, B
  <2>3. \A h \in File : ftable'[h].ref = Opened(h)'
    BY <1>5, <1>6, <2>1
  <2>4. \A s \in Slot : Locals(loc[p], s) + FileRefs(s)' = Locals(loc[p], s) + FileRefs(s)
    BY <2>1, FilesStay
  <2>5. Where(loc[p]) # "unused"
    BY <1>3 DEF Where
  <2> QED
    BY <1>1, <1>4, <1>5, <1>6, <1>7, <1>8, <2>2, <2>3, <2>4, <2>5, Unmoved, FileStep
<1>9. CASE /\ ftable[f].ref = 1 /\ Goes(p, r)
           /\ ftable' = [ftable EXCEPT ![f] = NoFile]
  <2>1. IsLocals(r) /\ r.pc = "iput" /\ r.puts = <<ftable[f].ip>> /\ r.then = "end"
        /\ r.dp = loc[p].dp /\ r.ip = loc[p].ip /\ r.old = loc[p].old
        /\ r.call = loc[p].call
    BY <1>4 DEF IsLocals
  <2> HIDE DEF r, f
  <2>2. Debts(r) /\ Where(r) = "end"
    BY <1>2, <2>1 DEF Debts, Where, Putting
  <2>3. Pointed(Where(r), r.dp, r.ip, r.old, r.call.op)
    BY <1>4, <2>1, <2>2 DEF Pointed, HasDp, HasIp, HasOld, Putting
  <2>4. /\ ftable' \in [File -> [ref : Int, ip : Slot \union {0}, writable : BOOLEAN]]
        /\ ftable'[f].ip = 0 /\ ftable'[f].ref = 0
        /\ \A h \in File \ {f} : ftable'[h] = ftable[h]
    BY <1>2, <1>5, <1>9 DEF Files, NoFile
  <2>5. Files'
    BY <1>5, <2>4 DEF Files
  <2>6. \A h \in File : ftable'[h].ref = Opened(h)'
    BY <1>2, <1>5, <1>6, <1>9, <2>4 DEF B
  <2>7. ASSUME NEW s \in Slot
        PROVE  Locals(r, s) + FileRefs(s)' = Locals(loc[p], s) + FileRefs(s)
    <3>1. /\ FileRefs(s) \in Nat /\ FileRefs(s)' \in Nat
          /\ FileRefs(s)' = FileRefs(s) - B(ftable[f].ip = s) + B(ftable'[f].ip = s)
      BY <1>2, <2>4, FileMoves
    <3>2. B(ftable'[f].ip = s) = 0 /\ B(ftable[f].ip = s) \in Int
      BY <1>4, <2>4 DEF B
    <3>3. Locals(r, s) = B(r.dp = s) + B(r.ip = s) + B(r.old = s) + B(ftable[f].ip = s)
      BY <2>1, LocalsSum
    <3>4. Locals(loc[p], s) = B(loc[p].dp = s) + B(loc[p].ip = s) + B(loc[p].old = s)
      BY <1>4, LocalsSum
    <3>5. Locals(r, s) = Locals(loc[p], s) + B(ftable[f].ip = s)
          /\ Locals(loc[p], s) \in Int
      BY <2>1, <3>3, <3>4 DEF B
    <3> QED
      BY <3>1, <3>2, <3>5
  <2>8. Where(r) # "unused"
    BY <2>2
  <2> QED
    BY <1>1, <1>4, <1>5, <1>6, <1>7, <1>9, <2>1, <2>2, <2>3, <2>5, <2>6, <2>7, <2>8,
       FileStep
<1> QED
  BY <1>1, <1>8, <1>9

\* sys_close().
LEMMA CloseStep ==
    ASSUME FsInv, NEW p \in Proc, NEW fd \in Fd, Close(p, fd) PROVE FsInv'
BY FileCloseStep DEF Close, Is

\* kexit() closes one file, or has closed them all.
LEMMA ExitFileStep ==
    ASSUME FsInv, NEW p \in Proc, ExitFile(p) PROVE FsInv'
<1> DEFINE fd == Min(Fd \ FreeFds(p))
<1>1. ~panicked /\ loc[p].pc = "exit" /\ FileClose(p, fd)
  BY DEF ExitFile, Is
<1>2. fd \in Fd
  BY FirstFree DEF ExitFile
<1> HIDE DEF fd
<1> QED
  BY <1>1, <1>2, FileCloseStep

\* sys_dup(): filedup() for another descriptor.
LEMMA DupFdStep ==
    ASSUME FsInv, NEW p \in Proc, NEW fd \in Fd, DupFd(p, fd) PROVE FsInv'
<1> DEFINE f == ofile[p][fd]
           n == Min(FreeFds(p))
<1>1. /\ ~panicked /\ loc[p].pc = "idle" /\ f # 0 /\ FreeFds(p) # {}
      /\ ofile' = [ofile EXCEPT ![p][n] = f]
      /\ ftable' = [ftable EXCEPT ![f].ref = @ + 1]
      /\ itab' = itab /\ loc' = loc /\ cwd' = cwd
  BY DEF DupFd, Is
<1>2. /\ f \in File /\ ftable[f].ref > 0 /\ ftable[f].ref \in Nat
      /\ ftable[f].ip \in Slot
  BY <1>1, OpenFile
<1>3. n \in Fd /\ ofile[p][n] = 0
  BY <1>1, FirstFree DEF FreeFds
<1> HIDE DEF f, n
<1>4. loc[p].pc \notin Putting \union {"unused", "end"}
  BY <1>1 DEF Putting
<1>5. cwd[p] \in Slot /\ Where(loc[p]) # "unused"
  BY <1>1, <1>4, AtLabel DEF Where
<1>6. Processes /\ Files /\ IsTable(itab') /\ \A h \in File : ftable[h].ref = Opened(h)
  BY <1>1, RefsAre DEF FsInv
<1>7. /\ ofile' \in [Proc -> [Fd -> File \union {0}]]
      /\ \A q \in Proc \ {p} : ofile'[q] = ofile[q]
      /\ \A h \in File : Opened(h) \in Nat /\ Opened(h)' = Opened(h) + B(f = h)
  <2>1. ofile \in [Proc -> [Fd -> File \union {0}]] /\ f \in File \union {0}
    BY <1>2, <1>6 DEF Processes
  <2>2. /\ ofile' \in [Proc -> [Fd -> File \union {0}]]
        /\ \A q \in Proc \ {p} : ofile'[q] = ofile[q]
        /\ \A m \in Fd \ {n} : ofile'[p][m] = ofile[p][m]
        /\ ofile'[p][n] = f
    BY <1>1, <1>3, <2>1, DescriptorSet
  <2>3. ASSUME NEW h \in File
        PROVE  Opened(h) \in Nat /\ Opened(h)' = Opened(h) + B(f = h)
    <3>1. /\ Opened(h) \in Nat /\ Opened(h)' \in Nat
          /\ Opened(h)' = Opened(h) - B(ofile[p][n] = h) + B(ofile'[p][n] = h)
      BY <1>3, <2>2, DescriptorMoves
    <3>2. B(ofile[p][n] = h) = 0 /\ B(ofile'[p][n] = h) = B(f = h) /\ B(f = h) \in Int
      BY <1>3, <2>2 DEF B, File
    <3> QED
      BY <3>1, <3>2
  <2> QED
    BY <2>2, <2>3
<1>8. /\ ftable' \in [File -> [ref : Int, ip : Slot \union {0}, writable : BOOLEAN]]
      /\ \A h \in File : /\ ftable'[h].ip = ftable[h].ip
                         /\ ftable'[h].ref = ftable[h].ref + B(f = h)
  BY <1>1, <1>2, <1>6 DEF Files, B
<1>9. Files'
  BY <1>2, <1>6, <1>8 DEF Files, B
<1>10. \A h \in File : ftable'[h].ref = Opened(h)'
  BY <1>6, <1>7, <1>8
<1>11. \A s \in Slot : Locals(loc[p], s) + FileRefs(s)' = Locals(loc[p], s) + FileRefs(s)
  BY <1>8, FilesStay
<1>12. \A s \in Slot : itab'[s].ref = itab[s].ref
  BY <1>1
<1> QED
  BY <1>1, <1>5, <1>6, <1>7, <1>9, <1>10, <1>11, <1>12, Unmoved, FileStep

\* sys_open() gives the inode to a file with a descriptor, or puts it.
LEMMA OpenStep ==
    ASSUME FsInv, NEW p \in Proc, Open(p) PROVE FsInv'
<1> DEFINE s == loc[p].ip
           w == IF loc[p].pc = "opened" THEN Here ELSE Ilock(Here, s, p)
           u == IF loc[p].call.op = "trunc" /\ w.t[s].din.type = "file"
                  THEN Truncate(w, s) ELSE w
           f == Min(FreeFiles)
           n == Min(FreeFds(p))
           file == [ref |-> 1, ip |-> s, writable |-> loc[p].call.op # "open"]
           up == [loc[p] EXCEPT !.ip = 0]
           r == [up EXCEPT !.pc = "end"]
<1>1. /\ ~panicked /\ loc[p].pc \in {"opened", "open", "found"} /\ cwd' = cwd
      /\ \/ /\ FreeFiles # {} /\ FreeFds(p) # {}
            /\ ftable' = [ftable EXCEPT ![f] = file]
            /\ ofile' = [ofile EXCEPT ![p][n] = f]
            /\ Becomes(Iunlock(u, s)) /\ Goes(p, r)
         \/ /\ Becomes(Iunlock(w, s)) /\ Puts(p, up, <<s>>, "end")
            /\ UNCHANGED <<ftable, ofile>>
  BY DEF Open, Is
<1>2. loc[p].pc \notin Putting \union {"unused", "end"} /\ loc[p].pc \in HasIp
  BY <1>1 DEF Putting, HasIp
<1>3. /\ IsLayer(Here) /\ IsLocals(loc[p]) /\ loc[p].puts = <<>> /\ 0 \notin Slot
      /\ Pointed(loc[p].pc, loc[p].dp, loc[p].ip, loc[p].old, loc[p].call.op)
      /\ cwd[p] \in Slot /\ Here.t = itab
  BY <1>1, <1>2, AtLabel
<1>4. Same(Here, w)
  <2>1. Same(Here, Here)
    BY <1>3 DEF Same
  <2> QED
    BY <1>3, <2>1, LockedSame
<1>5. s \in Slot /\ loc[p].dp = 0 /\ loc[p].old = 0
  BY <1>1, <1>3 DEF IsLocals, Pointed, HasIp, HasDp, HasOld
<1> HIDE DEF w
<1>6. Same(Here, u)
  <2>1. Same(Here, Truncate(w, s))
    BY <1>4, TruncateSame, SameSame DEF Same
  <2> QED
    BY <1>4, <2>1
<1> HIDE DEF u
<1>7. Same(Here, Iunlock(w, s)) /\ Same(Here, Iunlock(u, s))
  BY <1>4, <1>6, ThenUnlock
<1>8. Pointed("end", loc[p].dp, 0, loc[p].old, loc[p].call.op)
  BY <1>3, <1>5 DEF Pointed, HasDp, HasIp, HasOld, Putting
<1>9. CASE /\ Becomes(Iunlock(w, s)) /\ Puts(p, up, <<s>>, "end")
           /\ UNCHANGED <<ftable, ofile>>
  <2>1. UNCHANGED fileVars
    BY <1>1, <1>9 DEF fileVars
  <2> QED
    BY <1>1, <1>2, <1>7, <1>8, <1>9, <2>1, PutIp
<1>10. CASE /\ FreeFiles # {} /\ FreeFds(p) # {}
            /\ ftable' = [ftable EXCEPT ![f] = file]
            /\ ofile' = [ofile EXCEPT ![p][n] = f]
            /\ Becomes(Iunlock(u, s)) /\ Goes(p, r)
  <2>1. Processes /\ Files /\ \A h \in File : ftable[h].ref = Opened(h)
    BY <1>1, RefsAre DEF FsInv
  <2>2. f \in File /\ ftable[f].ref = 0 /\ ftable[f].ip = 0
    BY <1>10, <2>1, FirstFree DEF FreeFiles, Files
  <2>3. n \in Fd /\ ofile[p][n] = 0
    BY <1>10, FirstFree DEF FreeFds
  <2>4. file.ref = 1 /\ file.ip = s
        /\ file \in [ref : Int, ip : Slot \union {0}, writable : BOOLEAN]
    BY <1>5
  <2>5. IsLocals(r) /\ r.pc = "end" /\ r.puts = <<>> /\ r.dp = loc[p].dp /\ r.ip = 0
        /\ r.old = loc[p].old /\ r.call = loc[p].call
    BY <1>3 DEF IsLocals
  <2> HIDE DEF f, n, file, r
  <2>6. /\ ofile' \in [Proc -> [Fd -> File \union {0}]]
        /\ \A q \in Proc \ {p} : ofile'[q] = ofile[q]
        /\ \A h \in File : Opened(h) \in Nat /\ Opened(h)' = Opened(h) + B(f = h)
    <3>1. ofile \in [Proc -> [Fd -> File \union {0}]] /\ f \in File \union {0}
      BY <2>1, <2>2 DEF Processes
    <3>2. /\ ofile' \in [Proc -> [Fd -> File \union {0}]]
          /\ \A q \in Proc \ {p} : ofile'[q] = ofile[q]
          /\ \A m \in Fd \ {n} : ofile'[p][m] = ofile[p][m]
          /\ ofile'[p][n] = f
      BY <1>10, <2>3, <3>1, DescriptorSet
    <3>3. ASSUME NEW h \in File
          PROVE  Opened(h) \in Nat /\ Opened(h)' = Opened(h) + B(f = h)
      <4>1. /\ Opened(h) \in Nat /\ Opened(h)' \in Nat
            /\ Opened(h)' = Opened(h) - B(ofile[p][n] = h) + B(ofile'[p][n] = h)
        BY <2>3, <3>2, DescriptorMoves
      <4>2. B(ofile[p][n] = h) = 0 /\ B(ofile'[p][n] = h) = B(f = h) /\ B(f = h) \in Int
        BY <2>3, <3>2 DEF B, File
      <4> QED
        BY <4>1, <4>2
    <3> QED
      BY <3>2, <3>3
  <2>7. /\ ftable' \in [File -> [ref : Int, ip : Slot \union {0}, writable : BOOLEAN]]
        /\ ftable'[f].ip = s /\ ftable'[f].ref = 1
        /\ \A h \in File \ {f} : ftable'[h] = ftable[h]
    BY <1>10, <2>1, <2>2, <2>4 DEF Files
  <2>8. Files'
    <3>1. s # 0
      BY <1>3, <1>5
    <3>2. \A h \in File : ftable'[h].ref = 0 <=> ftable'[h].ip = 0
      BY <2>1, <2>7, <3>1 DEF Files
    <3> QED
      BY <2>7, <3>2 DEF Files
  <2>9. \A h \in File : ftable'[h].ref = Opened(h)'
    BY <2>1, <2>2, <2>6, <2>7 DEF B
  <2>10. ASSUME NEW x \in Slot
         PROVE  /\ itab'[x].ref = itab[x].ref
                /\ Locals(r, x) + FileRefs(x)' = Locals(loc[p], x) + FileRefs(x)
    <3>1. /\ FileRefs(x) \in Nat /\ FileRefs(x)' \in Nat
          /\ FileRefs(x)' = FileRefs(x) - B(ftable[f].ip = x) + B(ftable'[f].ip = x)
      BY <2>2, <2>7, FileMoves
    <3>2. B(ftable[f].ip = x) = 0 /\ B(ftable'[f].ip = x) = B(s = x) /\ B(s = x) \in Int
      BY <1>3, <2>2, <2>7 DEF B
    <3>3. Locals(r, x) = B(r.dp = x) + B(r.ip = x) + B(r.old = x)
      BY <2>5, LocalsSum
    <3>4. Locals(loc[p], x) = B(loc[p].dp = x) + B(s = x) + B(loc[p].old = x)
      BY <1>3, LocalsSum
    <3>5. Locals(r, x) + B(s = x) = Locals(loc[p], x) /\ Locals(r, x) \in Int
      BY <1>3, <2>5, <3>3, <3>4 DEF B
    <3>6. itab'[x].ref = itab[x].ref
      BY <1>3, <1>7, <1>10 DEF Same, Becomes
    <3> QED
      BY <3>1, <3>2, <3>5, <3>6
  <2>11. Debts(r) /\ Where(r) = "end" /\ Where(r) # "unused"
    BY <2>5 DEF Debts, Where, Putting
  <2>12. Pointed(Where(r), r.dp, r.ip, r.old, r.call.op)
    BY <1>8, <2>5, <2>11
  <2>13. IsTable(itab')
    BY <1>7, <1>10 DEF Becomes, Same, IsLayer
  <2> QED
    BY <1>1, <1>3, <1>10, <2>5, <2>6, <2>8, <2>9, <2>10, <2>11, <2>12, <2>13, FileStep
<1> QED
  BY <1>1, <1>9, <1>10

\* kfork() copies the descriptors of p to q, which has none.
LEMMA DescriptorsCopied ==
    ASSUME NEW p \in Proc, NEW q \in Proc, p # q, NEW f \in File,
           \A x \in Proc \ {q} : ofile'[x] = ofile[x], ofile'[q] = ofile[p],
           \A fd \in Fd : ofile[q][fd] = 0
    PROVE  LET shared == Cardinality({fd \in Fd : ofile[p][fd] = f})
           IN  /\ shared \in Nat /\ Opened(f) \in Nat
               /\ Opened(f)' = Opened(f) + shared
               /\ Opened(f) = 0 => shared = 0
<1> DEFINE D == {fd \in Fd : ofile[p][fd] = f}
           C == {q} \X D
           E == {p} \X D
           O == {x \in Proc \X Fd : ofile[x[1]][x[2]] = f}
<1>1. /\ IsFiniteSet(O) /\ IsFiniteSet(D) /\ IsFiniteSet({q}) /\ IsFiniteSet({p})
      /\ Cardinality({q}) = 1 /\ Cardinality({p}) = 1
  BY TablesFinite, FS_Subset, FS_Singleton
<1>2. E \subseteq O /\ O \intersect C = {}
  BY DEF File
<1>3. O' = O \union C
  <2>1. O' \subseteq O \union C
    OBVIOUS
  <2>2. O \subseteq O'
    BY DEF File
  <2>3. C \subseteq O'
    OBVIOUS
  <2> QED
    BY <2>1, <2>2, <2>3
<1>4. Opened(f) = Cardinality(O) /\ Opened(f)' = Cardinality(O')
  BY DEF Opened
<1> HIDE DEF D, O
<1>5. /\ IsFiniteSet(C) /\ Cardinality(C) = 1 * Cardinality(D)
      /\ IsFiniteSet(E) /\ Cardinality(E) = 1 * Cardinality(D)
  BY <1>1, FS_Product
<1> HIDE DEF C, E
<1>6. /\ Cardinality(D) \in Nat /\ Cardinality(O) \in Nat /\ Cardinality(C) = Cardinality(D)
      /\ Cardinality(E) = Cardinality(D) /\ Cardinality(E) <= Cardinality(O)
  BY <1>1, <1>2, <1>5, FS_CardinalityType, FS_Subset
<1>7. Cardinality(O \union C) = Cardinality(O) + Cardinality(C) - Cardinality(O \intersect C)
  BY <1>1, <1>5, FS_Union
<1>8. Cardinality(O \union C) = Cardinality(O) + Cardinality(D)
  <2>1. Cardinality(O \intersect C) = 0
    BY <1>2, FS_EmptySet
  <2> QED
    BY <1>6, <1>7, <2>1
<1> QED
  BY <1>3, <1>4, <1>6, <1>8 DEF D

\* kfork(): filedup() for each descriptor, idup() for the working directory.
LEMMA ForkStep ==
    ASSUME FsInv, NEW p \in Proc, NEW q \in Proc, Fork(p, q) PROVE FsInv'
<1> DEFINE shared(f) == Cardinality({fd \in Fd : ofile[p][fd] = f})
           c == cwd[p]
           u == Dup(Here, c)
           r == At("idle")
<1>1. /\ ~panicked /\ loc[p].pc = "idle" /\ loc[q].pc = "unused" /\ p # q
      /\ Goes(q, r) /\ Becomes(u)
      /\ ofile' = [ofile EXCEPT ![q] = ofile[p]]
      /\ ftable' = [f \in File |-> [ftable[f] EXCEPT !.ref = @ + shared(f)]]
      /\ cwd' = [cwd EXCEPT ![q] = c]
  BY DEF Fork, Is
<1>2. loc[p].pc \notin Putting \union {"unused", "end"} /\ loc[q].pc \notin Putting
  BY <1>1 DEF Putting
<1>3. IsLayer(Here) /\ Here.t = itab /\ c \in Slot /\ 0 \notin Slot
  BY <1>1, <1>2, AtLabel
<1>4. /\ loc[q].puts = <<>> /\ cwd[q] = 0
      /\ Pointed("unused", loc[q].dp, loc[q].ip, loc[q].old, loc[q].call.op)
  BY <1>1, <1>2, AtLabel
<1>5. Gains(Here, u, c)
  <2>1. itab[c].ref > 0
    BY <1>1, <1>3, CwdReferenced
  <2> QED
    BY <1>3, <2>1, DupGains
<1> HIDE DEF c, u
<1>6. Processes /\ Files /\ \A h \in File : ftable[h].ref = Opened(h)
  BY <1>1, RefsAre DEF FsInv
<1>7. \A fd \in Fd : ofile[q][fd] = 0
  BY <1>4, <1>6 DEF Processes, ProcessOK, Resident
<1>8. /\ ofile' \in [Proc -> [Fd -> File \union {0}]] /\ ofile'[q] = ofile[p]
      /\ \A x \in Proc \ {q} : ofile'[x] = ofile[x]
  BY <1>1, <1>6 DEF Processes
<1>9. ASSUME NEW f \in File
      PROVE  /\ shared(f) \in Nat /\ Opened(f) \in Nat
             /\ Opened(f)' = Opened(f) + shared(f)
             /\ Opened(f) = 0 => shared(f) = 0
  BY <1>1, <1>7, <1>8, DescriptorsCopied
<1> HIDE DEF shared
<1>10. ASSUME NEW f \in File
       PROVE  /\ ftable'[f] \in [ref : Int, ip : Slot \union {0}, writable : BOOLEAN]
              /\ ftable'[f].ip = ftable[f].ip
              /\ ftable'[f].ref = ftable[f].ref + shared(f)
  <2>1. ftable[f] \in [ref : Int, ip : Slot \union {0}, writable : BOOLEAN]
    BY <1>6 DEF Files
  <2>2. ftable'[f] = [ftable[f] EXCEPT !.ref = @ + shared(f)]
    BY <1>1
  <2> QED
    BY <1>9, <2>1, <2>2
<1>11. Files'
  <2>1. ftable' = [f \in File |-> ftable'[f]]
    BY <1>1
  <2>2. ftable' \in [File -> [ref : Int, ip : Slot \union {0}, writable : BOOLEAN]]
    BY <1>10, <2>1
  <2>3. ASSUME NEW f \in File PROVE ftable'[f].ref = 0 <=> ftable'[f].ip = 0
    <3>1. ftable[f].ref = Opened(f) /\ (ftable[f].ref = 0 <=> ftable[f].ip = 0)
      BY <1>6 DEF Files
    <3> QED
      BY <1>9, <1>10, <3>1
  <2> QED
    BY <2>2, <2>3 DEF Files
<1>12. \A f \in File : ftable'[f].ref = Opened(f)'
  <2>1. ASSUME NEW f \in File PROVE ftable'[f].ref = Opened(f)'
    BY <1>6, <1>9, <1>10
  <2> QED
    BY <2>1
<1>13. IsLocals(r) /\ r.pc = "idle" /\ r.dp = 0 /\ r.ip = 0 /\ r.old = 0 /\ r.puts = <<>>
  BY DEF At, IsLocals
<1> HIDE DEF r
<1>14. Debts(r) /\ Where(r) = "idle" /\ Where(r) # "unused"
  BY <1>13 DEF Debts, Where, Putting
<1>15. Pointed(Where(r), r.dp, r.ip, r.old, r.call.op)
  BY <1>13, <1>14 DEF Pointed, HasDp, HasIp, HasOld, Putting
<1>16. IsTable(itab')
  BY <1>1, <1>5 DEF Becomes, Gains, IsLayer
<1>17. ASSUME NEW x \in Slot
       PROVE  itab'[x].ref = itab[x].ref + (Locals(r, x) - Locals(loc[q], x))
                                 + (B(c = x) - B(cwd[q] = x))
                                 + (FileRefs(x)' - FileRefs(x))
  <2> DEFINE l1 == Locals(r, x)
             l0 == Locals(loc[q], x)
             b1 == B(c = x)
             b0 == B(cwd[q] = x)
             n0 == itab[x].ref
             n1 == itab'[x].ref
             f0 == FileRefs(x)
             f1 == FileRefs(x)'
  <2>1. loc[q].dp = 0 /\ loc[q].ip = 0 /\ loc[q].old = 0
    BY <1>4 DEF Pointed, HasDp, HasIp, HasOld, Putting
  <2>2. l1 = 0 /\ l0 = 0
    BY <1>3, <1>4, <1>13, <2>1, LocalsSum DEF B
  <2>3. b0 = 0 /\ b1 \in Int
    BY <1>3, <1>4 DEF B
  <2>4. n0 \in Int
    BY DEF FsInv, IsTable, IsEntry
  <2>5. n1 = n0 + b1
    BY <1>1, <1>3, <1>5, <2>4 DEF Gains, Becomes, B
  <2>6. f1 = f0 /\ f0 \in Int
    BY <1>10, FilesStay, PointersAre
  <2> HIDE DEF l1, l0, b1, b0, n0, n1, f0, f1
  <2>7. n1 = n0 + (l1 - l0) + (b1 - b0) + (f1 - f0)
    BY <2>2, <2>3, <2>4, <2>5, <2>6
  <2> QED
    BY <2>7 DEF l1, l0, b1, b0, n0, n1, f0, f1
<1>18. c \in Slot \union {0} /\ c # 0
  BY <1>3
<1> QED
  BY <1>1, <1>8, <1>11, <1>12, <1>13, <1>14, <1>15, <1>16, <1>17, <1>18, AnyStep

-----------------------------------------------------------------------------
(* Power-on, and the theorems.                                             *)

\* What Init, and Boot() after a crash, make of the variables of FsInv.
Booted ==
    /\ itab = BootInodes
    /\ panicked = FALSE
    /\ loc = [p \in Proc |-> At(IF p = InitProc THEN "idle" ELSE "unused")]
    /\ ftable = [f \in File |-> NoFile]
    /\ ofile = [p \in Proc |-> [fd \in Fd |-> 0]]
    /\ cwd = [p \in Proc |-> IF p = InitProc THEN 1 ELSE 0]

\* After power-on the table has the first process's working directory.
LEMMA BootedInv ==
    ASSUME Booted PROVE FsInv
<1>1. 1 \in Slot /\ 0 \notin Slot /\ 0 \notin File /\ InitProc \in Proc
  BY InodeAssumption, FileSysAssumption DEF Slot, File
<1>2. IsEntry(NoInode) /\ NoInode.ref = 0
  BY DEF IsEntry, NoInode
<1> DEFINE r == Recycle([NoInode EXCEPT !.ref = 1], ROOTINO)
<1>3. IsEntry(r) /\ r.ref = 1
  <2> DEFINE q == [NoInode EXCEPT !.ref = 1]
  <2>1. q.ref = 1
    BY DEF NoInode
  <2>2. q \in [inum : {q.inum}, ref : {q.ref}, valid : {q.valid}, lock : {q.lock},
               din : {q.din}]
    BY DEF NoInode
  <2>3. r = Recycle(q, ROOTINO)
    OBVIOUS
  <2> HIDE DEF q, r
  <2>4. IsEntry(q)
    BY <2>1, <2>2 DEF IsEntry
  <2> QED
    BY <2>3, <2>4, RecycledEntry
<1>4. /\ itab = [s \in Slot |-> itab[s]]
      /\ \A s \in Slot : itab[s] = IF s = 1 THEN r ELSE NoInode
  BY DEF Booted, BootInodes
<1> HIDE DEF r
<1>5. \A s \in Slot : IsEntry(itab[s]) /\ itab[s].ref = IF s = 1 THEN 1 ELSE 0
  BY <1>2, <1>3, <1>4
<1>6. IsTable(itab)
  BY <1>4, <1>5 DEF IsTable, OneSlot
<1>7. Files
  BY DEF Booted, Files, NoFile
<1>8. Processes
  <2>1. /\ cwd \in [Proc -> Slot \union {0}]
        /\ ofile \in [Proc -> [Fd -> File \union {0}]]
        /\ loc = [p \in Proc |-> loc[p]]
    BY <1>1 DEF Booted
  <2>2. ASSUME NEW p \in Proc PROVE ProcessOK(p)
    <3> DEFINE l == IF p = InitProc THEN "idle" ELSE "unused"
    <3>1. loc[p] = At(l) /\ cwd[p] = (IF p = InitProc THEN 1 ELSE 0)
          /\ \A fd \in Fd : ofile[p][fd] = 0
      BY DEF Booted
    <3>2. l \in {"idle", "unused"} /\ (l = "unused" <=> p # InitProc)
      OBVIOUS
    <3> HIDE DEF l
    <3> DEFINE q == At(l)
    <3>q. IsLocals(q) /\ q.pc = l /\ q.dp = 0 /\ q.ip = 0 /\ q.old = 0 /\ q.puts = <<>>
      BY DEF At, IsLocals
    <3>e. loc[p] = q
      BY <3>1
    <3> HIDE DEF q
    <3>3. IsLocals(loc[p]) /\ loc[p].pc = l /\ loc[p].dp = 0 /\ loc[p].ip = 0
          /\ loc[p].old = 0 /\ loc[p].puts = <<>>
      BY <3>q, <3>e
    <3>4. Debts(loc[p]) /\ Where(loc[p]) = l
      BY <3>2, <3>3 DEF Debts, Where, Putting
    <3>5. Pointed(Where(loc[p]), loc[p].dp, loc[p].ip, loc[p].old, loc[p].call.op)
      BY <3>2, <3>3, <3>4 DEF Pointed, HasDp, HasIp, HasOld, Putting
    <3> QED
      BY <3>1, <3>2, <3>3, <3>4, <3>5 DEF ProcessOK, Resident
  <2> QED
    BY <2>1, <2>2 DEF Processes
<1>9. ASSUME NEW s \in Slot PROVE itab[s].ref = Pointers(s)
  <2>1. \A p \in Proc : /\ loc[p].dp = 0 /\ loc[p].ip = 0 /\ loc[p].old = 0
                        /\ loc[p].puts = <<>>
                        /\ cwd[p] = IF p = InitProc THEN 1 ELSE 0
    BY DEF Booted, At
  <2>2. /\ {p \in Proc : cwd[p] = s} = IF s = 1 THEN {InitProc} ELSE {}
        /\ {p \in Proc : loc[p].dp = s} = {}
        /\ {p \in Proc : loc[p].ip = s} = {}
        /\ {p \in Proc : loc[p].old = s} = {}
    BY <1>1, <2>1
  <2>3. {x \in Proc \X (1..2) : /\ x[2] <= Len(loc[x[1]].puts)
                                /\ loc[x[1]].puts[x[2]] = s} = {}
    <3>1. \A p \in Proc : Len(loc[p].puts) = 0
      BY <2>1
    <3> QED
      BY <3>1
  <2>4. {f \in File : ftable[f].ip = s} = {}
    BY <1>1 DEF Booted, NoFile
  <2>5. /\ Cardinality({p \in Proc : cwd[p] = s}) = IF s = 1 THEN 1 ELSE 0
        /\ Cardinality({p \in Proc : loc[p].dp = s}) = 0
        /\ Cardinality({p \in Proc : loc[p].ip = s}) = 0
        /\ Cardinality({p \in Proc : loc[p].old = s}) = 0
        /\ Cardinality({x \in Proc \X (1..2) : /\ x[2] <= Len(loc[x[1]].puts)
                                               /\ loc[x[1]].puts[x[2]] = s}) = 0
        /\ Cardinality({f \in File : ftable[f].ip = s}) = 0
    BY <2>2, <2>3, <2>4, FS_EmptySet, FS_Singleton
  <2>6. ProcRefs(s) = (IF s = 1 THEN 1 ELSE 0) /\ FileRefs(s) = 0
    BY <2>5 DEF ProcRefs, FileRefs
  <2>7. Pointers(s) = IF s = 1 THEN 1 ELSE 0
    BY <2>6, PointersAre
  <2> QED
    BY <1>5, <2>7
<1>10. ASSUME NEW f \in File PROVE ftable[f].ref = Opened(f)
  <2>1. ftable[f].ref = 0
    BY DEF Booted, NoFile
  <2>2. {x \in Proc \X Fd : ofile[x[1]][x[2]] = f} = {}
    BY <1>1 DEF Booted
  <2> QED
    BY <2>1, <2>2, FS_EmptySet DEF Opened
<1> QED
  BY <1>6, <1>7, <1>8, <1>9, <1>10, RefsAre DEF FsInv

\* The initial state is one after power-on.
LEMMA InitBooted == Init => Booted
BY DEF Init, Booted

\* A crash, and the next boot.
LEMMA CrashStep ==
    ASSUME Crash PROVE FsInv'
<1>1. Booted'
  BY DEF Crash, Boot, Booted
<1>2. Booted' => FsInv'
  BY BootedInv, PTL
<1> QED
  BY <1>1, <1>2

\* A step of a system call.
LEMMA StepPreserves ==
    ASSUME FsInv, NEW p \in Proc, Step(p) PROVE FsInv'
BY IputDropStep, IputTruncateStep, IputUnrefStep, IputFreeStep, WalkEndStep, WalkStep,
   CreateStep, NewInodeStep, UnlockDirStep, MadeStep, OpenStep, Link1Step, Link2Step,
   LinkBadStep, UnlinkStep, Unlink2Step, Unlink3Step, ChdirStep, ExecStep, WriteStep,
   ExitFileStep, ExitCwdStep, EndOpStep DEF Step, Iput

\* Every step.
LEMMA NextPreserves ==
    ASSUME FsInv, [Next]_vars PROVE FsInv'
<1>1. CASE UNCHANGED vars
  BY <1>1, StutterStep DEF vars
<1>2. ASSUME NEW p \in Proc, NEW c \in Calls, Call(p, c) PROVE FsInv'
  BY <1>2, CallProgress
<1>3. ASSUME NEW p \in Proc, NEW fd \in Fd,
             CallWrite(p, fd) \/ DupFd(p, fd) \/ Close(p, fd)
      PROVE  FsInv'
  BY <1>3, CallWriteStep, DupFdStep, CloseStep
<1>4. ASSUME NEW p \in Proc, NEW q \in Proc, Fork(p, q) PROVE FsInv'
  BY <1>4, ForkStep
<1>5. ASSUME NEW p \in Proc, CallExit(p) PROVE FsInv'
  BY <1>5, CallExitStep
<1>6. ASSUME NEW p \in Proc, Step(p) PROVE FsInv'
  BY <1>6, StepPreserves
<1>7. CASE Reclaim
  BY <1>7, ReclaimStep
<1>8. CASE Crash
  BY <1>8, CrashStep
<1> QED
  BY <1>1, <1>2, <1>3, <1>4, <1>5, <1>6, <1>7, <1>8 DEF Next

\* The inductive invariant of module FileSys: in every state, whatever is on
\* the disk and whatever calls are made, a process has exactly the references
\* that its place in the call says.
THEOREM FsCorrect == Spec => []FsInv
<1>1. Init => FsInv
  BY InitBooted, BootedInv
<1>2. FsInv /\ [Next]_vars => FsInv'
  BY NextPreserves
<1> QED
  BY <1>1, <1>2, PTL DEF Spec

\* As long as no panic has stopped the machine, ip->ref is the number of
\* pointers to the inode, and f->ref that of descriptors for the file.
THEOREM RefsAreExact == Spec => [](NoPanic => RefsExact)
<1>1. FsInv => (NoPanic => RefsExact)
  BY DEF FsInv, NoPanic
<1> QED
  BY <1>1, FsCorrect, PTL

\* iget() never gives an inode number two slots.
THEOREM InodeHasOneSlot == Spec => []OneSlotPerInode
<1>1. FsInv => OneSlotPerInode
  BY DEF FsInv, IsTable, OneSlot, OneSlotPerInode
<1> QED
  BY <1>1, FsCorrect, PTL
=============================================================================
