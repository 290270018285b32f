---------------------------- MODULE BcacheProofs ----------------------------
(***************************************************************************)
(* For any number of processes, blocks and buffers: reference counts are   *)
(* exact, a block has one buffer, a buffer one user at a time, with enough *)
(* buffers bget() never panics, and processes never wait in a circle.      *)
(*                                                                         *)
(* The inductive invariant CacheInv relates b->refcnt to the processes on  *)
(* their way from bget() to brelse() and to the log's pins.  It is the     *)
(* count that keeps a buffer from being recycled under a process that has  *)
(* been given it but waits for its sleep lock.                             *)
(*                                                                         *)
(* WaitInv ties each sleep lock to the label of its holder, and the label  *)
(* of a user that waits to the order in which its process asks for blocks. *)
(*                                                                         *)
(* StoreInv adds where the contents of a block are, in its buffer or at    *)
(* home, and with it the cache implements one variable per block.          *)
(***************************************************************************)
EXTENDS Bcache, FiniteSetTheorems, TLAPS

Control == {"idle", "lock", "locked", "have", "dirty", "copied", "unpin", "put"}
Holding == {"locked", "have", "dirty", "copied", "unpin"}
Changed == {"dirty", "copied"}

Types ==
    /\ lru \in [Buf -> Buf]
    /\ blockno \in [Buf -> BlockNo \union {NoBlock}]
    /\ refcnt \in [Buf -> Int]
    /\ owner \in [Buf -> User \union {None}]
    /\ pinned \in SUBSET Buf
    /\ pc \in [User -> Control]
    /\ want \in [User -> BlockNo \union {NoBlock}]
    /\ mine \in [User -> 0..NBUF]

\* A process has a buffer from bget() to the end of brelse().
HasBuffer == \A u \in User : pc[u] = "idle" <=> mine[u] = 0

\* The sleep lock belongs to the one process that uses the buffer.
LockOwned == \A u \in User : pc[u] \in Holding => owner[mine[u]] = u

\* install_trans() unpins what is pinned.
UnpinsPinned == \A u \in User : pc[u] = "unpin" => mine[u] \in pinned

\* A buffer still carries the block its users asked for.
RightBlock == \A u \in User : pc[u] # "idle" => blockno[mine[u]] = want[u]

CacheInv ==
    /\ Types
    /\ HasBuffer
    /\ LockOwned
    /\ UnpinsPinned
    /\ RightBlock
    /\ RefcntExact
    /\ OneBufferPerBlock

Users(i) == {u \in User : mine[u] = i}
Pins(i) == IF i \in pinned THEN 1 ELSE 0
-----------------------------------------------------------------------------
LEMMA UsersFinite == \A i : IsFiniteSet(Users(i)) /\ Cardinality(Users(i)) \in Nat
BY BcacheAssumption, FS_Subset, FS_CardinalityType DEF Users

LEMMA RefcntIs ==
    ASSUME RefcntExact, NEW i \in Buf
    PROVE  refcnt[i] = Cardinality(Users(i)) + Pins(i)
BY DEF RefcntExact, Users, Pins

\* A buffer that bget() may recycle is nobody's.
LEMMA ReusableIsUnused ==
    ASSUME CacheInv, NEW i \in Buf, Reusable(i)
    PROVE  i \notin pinned /\ \A u \in User : mine[u] # i
<1>1. Cardinality(Users(i)) + Pins(i) = 0
  BY RefcntIs DEF CacheInv, Reusable
<1>2. Cardinality(Users(i)) = 0 /\ Pins(i) = 0
  BY <1>1, UsersFinite DEF Pins
<1>3. Users(i) = {}
  BY <1>2, UsersFinite, FS_EmptySet
<1> QED
  BY <1>2, <1>3 DEF Users, Pins

LEMMA InitCacheInv == Init => CacheInv
<1> SUFFICES ASSUME Init PROVE CacheInv
  OBVIOUS
<1> USE BcacheAssumption DEF Init, Buf
<1>1. Types
  BY DEF Types, Control
<1>2. HasBuffer /\ LockOwned /\ UnpinsPinned /\ RightBlock /\ OneBufferPerBlock
  BY DEF HasBuffer, LockOwned, UnpinsPinned, RightBlock, OneBufferPerBlock, Holding
<1>3. RefcntExact
  <2> SUFFICES ASSUME NEW i \in Buf
               PROVE  refcnt[i] = Cardinality({u \in User : mine[u] = i})
                                    + IF i \in pinned THEN 1 ELSE 0
    BY DEF RefcntExact
  <2>1. {u \in User : mine[u] = i} = {}
    OBVIOUS
  <2>2. Cardinality({u \in User : mine[u] = i}) = 0
    BY <2>1, FS_EmptySet
  <2>3. refcnt[i] = 0 /\ i \notin pinned
    OBVIOUS
  <2> QED
    BY <2>2, <2>3
<1> QED
  BY <1>1, <1>2, <1>3 DEF CacheInv
-----------------------------------------------------------------------------
(* How the counts move.                                                    *)

\* bget() gives buffer i to u, which had none.
LEMMA TakeBuffer ==
    ASSUME CacheInv, NEW u \in User, NEW i \in Buf, mine[u] = 0,
           mine' = [mine EXCEPT ![u] = i], pinned' = pinned,
           refcnt' = [refcnt EXCEPT ![i] = @ + 1]
    PROVE  RefcntExact'
<1> SUFFICES ASSUME NEW j \in Buf
             PROVE  refcnt'[j] = Cardinality(Users(j)') + Pins(j)
  BY DEF RefcntExact, Users, Pins
<1>1. refcnt[j] = Cardinality(Users(j)) + Pins(j)
  BY RefcntIs DEF CacheInv
<1>2. CASE j = i
  <2>1. Users(j)' = Users(j) \union {u}
    BY <1>2 DEF Users, CacheInv, Types
  <2>2. u \notin Users(j)
    BY <1>2 DEF Users, Buf
  <2>3. Cardinality(Users(j)') = Cardinality(Users(j)) + 1
    BY <2>1, <2>2, UsersFinite, FS_AddElement
  <2> QED
    BY <1>1, <1>2, <2>3, UsersFinite DEF CacheInv, Types, Pins
<1>3. CASE j # i
  <2>1. Users(j)' = Users(j)
    BY <1>3 DEF Users, CacheInv, Types, Buf
  <2> QED
    BY <1>1, <1>3, <2>1 DEF CacheInv, Types
<1> QED
  BY <1>2, <1>3

\* brelse() gives u's buffer back.
LEMMA GiveBuffer ==
    ASSUME CacheInv, NEW u \in User, mine[u] \in Buf,
           mine' = [mine EXCEPT ![u] = 0], pinned' = pinned,
           refcnt' = [refcnt EXCEPT ![mine[u]] = @ - 1]
    PROVE  RefcntExact'
<1> SUFFICES ASSUME NEW j \in Buf
             PROVE  refcnt'[j] = Cardinality(Users(j)') + Pins(j)
  BY DEF RefcntExact, Users, Pins
<1>1. refcnt[j] = Cardinality(Users(j)) + Pins(j)
  BY RefcntIs DEF CacheInv
<1>2. CASE j = mine[u]
  <2>1. Users(j)' = Users(j) \ {u}
    BY <1>2 DEF Users, CacheInv, Types, Buf
  <2>2. u \in Users(j)
    BY <1>2 DEF Users
  <2>3. Cardinality(Users(j)') = Cardinality(Users(j)) - 1
    BY <2>1, <2>2, UsersFinite, FS_RemoveElement
  <2> QED
    BY <1>1, <1>2, <2>3, UsersFinite DEF CacheInv, Types, Pins
<1>3. CASE j # mine[u]
  <2>1. Users(j)' = Users(j)
    BY <1>3 DEF Users, CacheInv, Types, Buf
  <2> QED
    BY <1>1, <1>3, <2>1 DEF CacheInv, Types
<1> QED
  BY <1>2, <1>3
-----------------------------------------------------------------------------
\* The holder of a buffer goes on using it.
LEMMA HolderMove ==
    ASSUME CacheInv, NEW u \in User, NEW l \in {"have", "dirty", "copied", "unpin"},
           pc[u] \in Holding, pc' = [pc EXCEPT ![u] = l],
           l = "unpin" => mine[u] \in pinned,
           UNCHANGED <<lru, blockno, refcnt, owner, pinned, want, mine>>
    PROVE  CacheInv'
<1> USE DEF CacheInv
<1>1. Types'
  BY DEF Types, Control
<1>2. RefcntExact' /\ OneBufferPerBlock'
  BY DEF RefcntExact, OneBufferPerBlock
<1>3. HasBuffer' /\ LockOwned' /\ UnpinsPinned' /\ RightBlock'
  BY DEF Types, HasBuffer, LockOwned, UnpinsPinned, RightBlock, Holding
<1> QED
  BY <1>1, <1>2, <1>3

LEMMA NextCacheInv == CacheInv /\ [Next]_vars => CacheInv'
<1> SUFFICES ASSUME CacheInv, [Next]_vars PROVE CacheInv'
  OBVIOUS
<1> USE BcacheAssumption DEF Goto
<1>t. /\ Types /\ HasBuffer /\ LockOwned /\ UnpinsPinned /\ RightBlock
      /\ RefcntExact /\ OneBufferPerBlock
  BY DEF CacheInv
<1>m. \A u \in User : pc[u] # "idle" => mine[u] \in Buf
  BY <1>t DEF HasBuffer, Types, Buf
<1>1. ASSUME NEW u \in User, NEW k \in BlockNo, BgetHit(u, k) PROVE CacheInv'
  <2>1. PICK i \in Buf : /\ blockno[i] = k
                         /\ mine' = [mine EXCEPT ![u] = i]
                         /\ refcnt' = [refcnt EXCEPT ![i] = @ + 1]
    BY <1>1 DEF BgetHit, Cached
  <2>2. Types'
    <3>1. i \in 0..NBUF /\ refcnt[i] + 1 \in Int /\ "lock" \in Control
      BY <2>1, <1>t DEF Types, Buf, Control
    <3> QED
      BY <1>1, <2>1, <3>1, <1>t DEF BgetHit, Types
  <2>3. RefcntExact'
    BY <1>1, <1>t, <2>1, TakeBuffer DEF BgetHit, MayAsk, HasBuffer
  <2>i. i # 0
    BY DEF Buf
  <2>4. HasBuffer' /\ LockOwned' /\ UnpinsPinned' /\ RightBlock' /\ OneBufferPerBlock'
    BY <1>1, <1>t, <2>1, <2>i
       DEF BgetHit, MayAsk, Types, HasBuffer, LockOwned, UnpinsPinned, RightBlock,
           OneBufferPerBlock, Holding
  <2> QED
    BY <2>2, <2>3, <2>4 DEF CacheInv
<1>2. ASSUME NEW u \in User, NEW k \in BlockNo, BgetMiss(u, k) PROVE CacheInv'
  <2>1. PICK n \in Buf : /\ LeastRecent(n)
                         /\ blockno' = [blockno EXCEPT ![lru[n]] = k]
                         /\ refcnt' = [refcnt EXCEPT ![lru[n]] = 1]
                         /\ mine' = [mine EXCEPT ![u] = lru[n]]
    BY <1>2 DEF BgetMiss
  <2> DEFINE i == lru[n]
  <2>2. i \in Buf /\ refcnt[i] = 0 /\ i \notin pinned /\ \A v \in User : mine[v] # i
    BY <2>1, <1>t, ReusableIsUnused DEF LeastRecent, Reusable, Types
  <2>3. Types'
    <3>1. i \in 0..NBUF /\ 1 \in Int /\ "lock" \in Control
      BY <2>2 DEF Buf, Control
    <3> QED
      BY <1>2, <2>1, <2>2, <3>1, <1>t DEF BgetMiss, Types
  <2>4. RefcntExact'
    <3>1. refcnt' = [refcnt EXCEPT ![i] = @ + 1]
      BY <2>1, <2>2, <1>t DEF Types
    <3>2. mine[u] = 0 /\ pinned' = pinned
      BY <1>2, <1>t DEF BgetMiss, MayAsk, HasBuffer
    <3> QED
      BY <2>1, <2>2, <3>1, <3>2, TakeBuffer
  <2>5. HasBuffer' /\ LockOwned' /\ UnpinsPinned'
    <3>1. i # 0
      BY <2>2 DEF Buf
    <3> QED
      BY <1>2, <1>t, <2>1, <2>2, <3>1
         DEF BgetMiss, MayAsk, Types, HasBuffer, LockOwned, UnpinsPinned, Holding
  <2>6. RightBlock'
    BY <1>2, <1>t, <1>m, <2>1, <2>2 DEF BgetMiss, MayAsk, Types, RightBlock
  <2>7. OneBufferPerBlock'
    BY <1>2, <1>t, <2>1, <2>2 DEF BgetMiss, Cached, Types, OneBufferPerBlock
  <2> QED
    BY <2>3, <2>4, <2>5, <2>6, <2>7 DEF CacheInv
<1>3. ASSUME NEW u \in User, NEW k \in BlockNo, BgetPanic(u, k) PROVE CacheInv'
  BY <1>3, <1>t
     DEF BgetPanic, CacheInv, Types, HasBuffer, LockOwned, UnpinsPinned,
         RightBlock, RefcntExact, OneBufferPerBlock
<1>4. ASSUME NEW u \in User, Lock(u) PROVE CacheInv'
  <2>1. Types'
    BY <1>4, <1>t DEF Lock, Types, Control
  <2>2. RefcntExact' /\ OneBufferPerBlock'
    BY <1>4, <1>t DEF Lock, RefcntExact, OneBufferPerBlock
  <2>3. HasBuffer' /\ LockOwned' /\ UnpinsPinned' /\ RightBlock'
    BY <1>4, <1>t, <1>m
       DEF Lock, Types, HasBuffer, LockOwned, UnpinsPinned, RightBlock, Holding
  <2> QED
    BY <2>1, <2>2, <2>3 DEF CacheInv
<1>6. ASSUME NEW u \in User, Fill(u) PROVE CacheInv'
  BY <1>6, HolderMove DEF Fill, Holding
<1>7. ASSUME NEW u \in User, NEW d \in Data, Modify(u, d) PROVE CacheInv'
  BY <1>7, HolderMove DEF Modify, Holding
<1>5. ASSUME NEW u \in User, Copy(u) PROVE CacheInv'
  BY <1>5, HolderMove DEF Copy, Holding
<1>8. ASSUME NEW u \in User, Bwrite(u) PROVE CacheInv'
  BY <1>8, HolderMove DEF Bwrite, Holding
<1>9. ASSUME NEW u \in User, InstallWrite(u) PROVE CacheInv'
  BY <1>9, HolderMove DEF InstallWrite, Holding
<1>10. ASSUME NEW u \in User, LogWrite(u) PROVE CacheInv'
  <2>1. Types'
    BY <1>10, <1>t, <1>m DEF LogWrite, Types, Control
  <2>2. RefcntExact'
    <3> SUFFICES ASSUME NEW j \in Buf
                 PROVE  refcnt'[j] = Cardinality(Users(j)) + Pins(j)'
      BY <1>10 DEF LogWrite, RefcntExact, Users, Pins
    <3>1. refcnt[j] = Cardinality(Users(j)) + Pins(j) /\ mine[u] \in Buf
      BY <1>10, <1>t, <1>m, RefcntIs DEF LogWrite
    <3> QED
      BY <1>10, <1>t, <3>1, UsersFinite DEF LogWrite, Types, Pins
  <2>3. HasBuffer' /\ LockOwned' /\ UnpinsPinned' /\ RightBlock' /\ OneBufferPerBlock'
    BY <1>10, <1>t
       DEF LogWrite, Types, HasBuffer, LockOwned, UnpinsPinned, RightBlock,
           OneBufferPerBlock, Holding
  <2> QED
    BY <2>1, <2>2, <2>3 DEF CacheInv
<1>11. ASSUME NEW u \in User, Bunpin(u) PROVE CacheInv'
  <2>0. mine[u] \in Buf /\ mine[u] \in pinned
    BY <1>11, <1>t, <1>m DEF Bunpin, UnpinsPinned
  <2>1. Types'
    BY <1>11, <1>t, <2>0 DEF Bunpin, Unpinned, Types, Control
  <2>2. RefcntExact'
    <3> SUFFICES ASSUME NEW j \in Buf
                 PROVE  refcnt'[j] = Cardinality(Users(j)) + Pins(j)'
      BY <1>11 DEF Bunpin, RefcntExact, Users, Pins
    <3>1. refcnt[j] = Cardinality(Users(j)) + Pins(j)
      BY <1>t, RefcntIs
    <3> QED
      BY <1>11, <1>t, <2>0, <3>1, UsersFinite DEF Bunpin, Unpinned, Types, Pins
  <2>3. HasBuffer' /\ LockOwned' /\ RightBlock' /\ OneBufferPerBlock'
    BY <1>11, <1>t
       DEF Bunpin, Types, HasBuffer, LockOwned, RightBlock, OneBufferPerBlock, Holding
  <2>4. UnpinsPinned'
    BY <1>11, <1>t DEF Bunpin, Types, LockOwned, UnpinsPinned, Holding
  <2> QED
    BY <2>1, <2>2, <2>3, <2>4 DEF CacheInv
<1>12. ASSUME NEW u \in User, Unlock(u) PROVE CacheInv'
  <2>1. Types'
    BY <1>12, <1>t, <1>m DEF Unlock, Types, Control
  <2>2. RefcntExact' /\ OneBufferPerBlock'
    BY <1>12, <1>t DEF Unlock, RefcntExact, OneBufferPerBlock
  <2>3. HasBuffer' /\ UnpinsPinned' /\ RightBlock'
    BY <1>12, <1>t DEF Unlock, Types, HasBuffer, UnpinsPinned, RightBlock
  <2>4. LockOwned'
    BY <1>12, <1>t, <1>m DEF Unlock, Types, LockOwned, Holding
  <2> QED
    BY <2>1, <2>2, <2>3, <2>4 DEF CacheInv
<1>13. ASSUME NEW u \in User, Put(u) PROVE CacheInv'
  <2>0. mine[u] \in Buf
    BY <1>13, <1>m DEF Put
  <2>1. ToFront(mine[u]) \in [Buf -> Buf]
    <3> DEFINE at == CHOOSE n \in Buf : lru[n] = mine[u]
    <3>1. \A n \in Buf : n # 1 => n - 1 \in Buf
      BY DEF Buf
    <3>2. \A n \in Buf : (IF n = 1 THEN mine[u] ELSE IF n <= at THEN lru[n - 1]
                                                     ELSE lru[n]) \in Buf
      <4> HIDE DEF at
      <4> QED
        BY <2>0, <3>1, <1>t DEF Types
    <3> QED
      BY <3>2 DEF ToFront
  <2>2. Types'
    <3>1. 0 \in 0..NBUF /\ refcnt[mine[u]] - 1 \in Int /\ "idle" \in Control
      BY <2>0, <1>t DEF Types, Control
    <3>2. lru' \in [Buf -> Buf]
      BY <1>13, <1>t, <2>1 DEF Put, Types
    <3>3. refcnt' \in [Buf -> Int] /\ mine' \in [User -> 0..NBUF]
      BY <1>13, <1>t, <3>1 DEF Put, Types
    <3> QED
      BY <1>13, <1>t, <3>1, <3>2, <3>3 DEF Put, Types
  <2>3. RefcntExact'
    BY <1>13, <2>0, GiveBuffer DEF Put
  <2>4. HasBuffer' /\ LockOwned' /\ UnpinsPinned' /\ RightBlock' /\ OneBufferPerBlock'
    BY <1>13, <1>t, <2>0
       DEF Put, Types, HasBuffer, LockOwned, UnpinsPinned, RightBlock,
           OneBufferPerBlock, Holding
  <2> QED
    BY <2>2, <2>3, <2>4 DEF CacheInv
<1>14. CASE UNCHANGED vars
  BY <1>14, <1>t
     DEF vars, CacheInv, Types, HasBuffer, LockOwned, UnpinsPinned,
         RightBlock, RefcntExact, OneBufferPerBlock
<1>15. CASE Next
  BY <1>15, <1>1, <1>2, <1>3, <1>4, <1>5, <1>6, <1>7, <1>8, <1>9, <1>10,
     <1>11, <1>12, <1>13 DEF Next
<1> QED
  BY <1>14, <1>15

LEMMA CacheInvariant == Spec => []CacheInv
BY InitCacheInv, NextCacheInv, PTL DEF Spec
-----------------------------------------------------------------------------
\* b->refcnt counts the users and the pin of the buffer, always.
THEOREM CountsExact == Spec => []RefcntExact
<1>1. CacheInv => RefcntExact
  BY DEF CacheInv
<1> QED
  BY <1>1, CacheInvariant, PTL

\* bget() never gives one block two buffers.
THEOREM BlockHasOneBuffer == Spec => []OneBufferPerBlock
<1>1. CacheInv => OneBufferPerBlock
  BY DEF CacheInv
<1> QED
  BY <1>1, CacheInvariant, PTL
-----------------------------------------------------------------------------
(* Running out of buffers.                                                 *)

\* A buffer that bget() may not recycle is pinned or has a user.
LEMMA AllTaken ==
    ASSUME CacheInv, \A i \in Buf : ~Reusable(i)
    PROVE  NBUF <= Cardinality(InUse) + Cardinality(pinned)
<1> USE BcacheAssumption
<1> DEFINE Loose == Buf \ pinned
<1>1. \A i \in Loose : \E u \in InUse : mine[u] = i
  <2> SUFFICES ASSUME NEW i \in Loose PROVE \E u \in InUse : mine[u] = i
    OBVIOUS
  <2>1. Cardinality(Users(i)) # 0
    <3>1. refcnt[i] = Cardinality(Users(i)) + Pins(i) /\ Pins(i) = 0 /\ refcnt[i] # 0
      BY RefcntIs DEF CacheInv, Reusable, Pins
    <3> QED
      BY <3>1, UsersFinite
  <2>2. PICK u \in User : mine[u] = i
    BY <2>1, UsersFinite, FS_EmptySet DEF Users
  <2> QED
    BY <2>2 DEF InUse, Buf
<1> DEFINE f == [i \in Loose |-> CHOOSE u \in InUse : mine[u] = i]
<1>2. f \in [Loose -> InUse] /\ \A i \in Loose : mine[f[i]] = i
  BY <1>1
<1>3. \A i, j \in Loose : f[i] = f[j] => i = j
  BY <1>2
<1>4. IsFiniteSet(Buf) /\ Cardinality(Buf) = NBUF
  BY FS_Interval DEF Buf
<1>5. IsFiniteSet(Loose) /\ Cardinality(Loose) = NBUF - Cardinality(Buf \cap pinned)
  BY <1>4, FS_Difference
<1>6. Buf \cap pinned = pinned
  BY DEF CacheInv, Types
<1>7. IsFiniteSet(InUse) /\ Cardinality(InUse) \in Nat
  BY FS_Subset, FS_CardinalityType DEF InUse
<1>8. Cardinality(pinned) \in Nat /\ Cardinality(Loose) \in Nat
  BY <1>4, <1>5, FS_CardinalityType, FS_Subset DEF CacheInv, Types
<1> HIDE DEF f, Loose
<1>9. ~(Cardinality(InUse) < Cardinality(Loose))
  BY <1>2, <1>3, <1>5, <1>7, FS_PigeonHole
<1>10. NBUF \in Nat /\ Cardinality(Loose) = NBUF - Cardinality(pinned)
  BY <1>5, <1>6
<1> QED
  BY <1>7, <1>8, <1>9, <1>10

\* The panic leaves every buffer taken, and the user that asked without one.
Exhausted ==
    panicked => /\ \A i \in Buf : ~Reusable(i)
                /\ \E u \in User : mine[u] = 0

LEMMA ExhaustedInvariant == Spec => []Exhausted
<1>1. Init => Exhausted
  BY DEF Init, Exhausted
<1>2. CacheInv /\ Exhausted /\ [Next]_vars => Exhausted'
  <2> SUFFICES ASSUME CacheInv, Exhausted, [Next]_vars PROVE Exhausted'
    OBVIOUS
  <2>1. CASE UNCHANGED vars
    BY <2>1 DEF vars, Exhausted, Reusable
  <2>2. ASSUME NEW u \in User, NEW k \in BlockNo, BgetPanic(u, k)
        PROVE  Exhausted'
    <3>1. mine[u] = 0 /\ UNCHANGED <<refcnt, mine>> /\ \A i \in Buf : ~Reusable(i)
      BY <2>2 DEF BgetPanic, MayAsk, CacheInv, HasBuffer
    <3> QED
      BY <3>1 DEF Exhausted, Reusable
  <2>3. CASE Next
    <3>1. CASE \E u \in User, k \in BlockNo : BgetPanic(u, k)
      BY <2>2, <3>1
    <3>2. CASE ~panicked'
      BY <3>2 DEF Exhausted
    <3> QED
      BY <2>3, <3>1, <3>2
         DEF Next, BgetHit, BgetMiss, Lock, Fill, Modify, Copy, Bwrite, LogWrite,
             InstallWrite, Bunpin, Unlock, Put
  <2> QED
    BY <2>1, <2>3
<1> QED
  BY <1>1, <1>2, CacheInvariant, PTL DEF Spec

\* bget() reaches its panic only when the buffers in use, several for one
\* process, and the pinned ones are all there are.
THEOREM PanicMeansFull == Spec => []PanicOnlyWhenFull
<1>1. CacheInv /\ Exhausted => PanicOnlyWhenFull
  BY AllTaken DEF Exhausted, PanicOnlyWhenFull
<1> QED
  BY <1>1, CacheInvariant, ExhaustedInvariant, PTL

\* Whatever has gone before, bget() has not panicked while there is a buffer
\* for every one that the processes can have at a time, two for each of them,
\* besides those that are pinned now.
THEOREM BuffersSuffice ==
    Spec => [](Cardinality(User) + Cardinality(pinned) <= NBUF => ~panicked)
<1>1. ASSUME CacheInv, Exhausted, Cardinality(User) + Cardinality(pinned) <= NBUF,
             panicked
      PROVE  FALSE
  <2>1. PICK u \in User : mine[u] = 0
    BY <1>1 DEF Exhausted
  <2>2. /\ InUse \in SUBSET (User \ {u})
        /\ IsFiniteSet(User \ {u})
        /\ Cardinality(User \ {u}) = Cardinality(User) - 1
    BY <2>1, BcacheAssumption, FS_RemoveElement DEF InUse
  <2>3. IsFiniteSet(InUse) /\ Cardinality(InUse) <= Cardinality(User \ {u})
    BY <2>2, FS_Subset
  <2>4. NBUF <= Cardinality(InUse) + Cardinality(pinned)
    BY <1>1, AllTaken DEF Exhausted
  <2>5. /\ Cardinality(User) \in Nat /\ Cardinality(InUse) \in Nat
        /\ Cardinality(pinned) \in Nat /\ NBUF \in Nat
    <3>1. pinned \in SUBSET Buf /\ IsFiniteSet(Buf)
      BY <1>1, BcacheAssumption, FS_Interval DEF CacheInv, Types, Buf
    <3> QED
      BY <2>3, <3>1, BcacheAssumption, FS_Subset, FS_CardinalityType
  <2> QED
    BY <1>1, <2>2, <2>3, <2>4, <2>5
<1>2. CacheInv /\ Exhausted
        => (Cardinality(User) + Cardinality(pinned) <= NBUF => ~panicked)
  BY <1>1
<1> QED
  BY <1>2, CacheInvariant, ExhaustedInvariant, PTL
-----------------------------------------------------------------------------
(* Waiting for a buffer while holding another.  WaitInv says that a        *)
(* process moves with one of its users at a time, and that the one that    *)
(* waits is after a block below all it holds.                              *)

Rest == {"idle", "have"}

\* Of the users of a process, one at most is inside a call.
OneAtATime ==
    \A u \in User : \A v \in Others(u) : pc[u] \in Rest \/ pc[v] \in Rest

\* A process waits for a block that ranks below those it has.
AsksBelow ==
    \A u \in User : \A v \in Others(u) :
        pc[u] = "lock" /\ pc[v] # "idle" => Rank[want[u]] < Rank[want[v]]

\* A sleep lock that is held is held by a user of the buffer.
OwnerUses ==
    \A i \in Buf :
        owner[i] # None => pc[owner[i]] \in Holding /\ mine[owner[i]] = i

\* Every user but an idle one has asked for a block.
AsksForBlock == \A u \in User : pc[u] # "idle" => want[u] \in BlockNo

WaitInv == OneAtATime /\ AsksBelow /\ OwnerUses /\ AsksForBlock

\* A user moves while the other users of its process are at rest.
LEMMA UserMoves ==
    ASSUME CacheInv, WaitInv, NEW u \in User, NEW l \in Control, Goto(u, l),
           \A v \in Others(u) : pc[v] \in Rest,
           \A v \in User : v # u => want'[v] = want[v],
           l # "idle" => want'[u] \in BlockNo,
           l = "lock" => \A v \in Others(u) :
                             pc[v] = "idle" \/ Rank[want'[u]] < Rank[want[v]],
           OwnerUses'
    PROVE  WaitInv'
<1>1. pc'[u] = l /\ \A v \in User : v # u => pc'[v] = pc[v]
  BY DEF Goto, CacheInv, Types
<1>2. \A x, y \in User : y \in Others(x) <=> x \in Others(y)
  BY DEF Others
<1>3. \A x \in User : x \notin Others(x)
  BY DEF Others
<1>4. OneAtATime'
  <2> SUFFICES ASSUME NEW x \in User, NEW y \in Others(x)
               PROVE  pc'[x] \in Rest \/ pc'[y] \in Rest
    BY DEF OneAtATime, Others
  <2>0. y \in User /\ x # y
    BY DEF Others
  <2>1. CASE x = u
    BY <1>1, <2>0, <2>1
  <2>2. CASE y = u
    BY <1>1, <1>2, <2>0, <2>2
  <2>3. CASE x # u /\ y # u
    BY <1>1, <2>0, <2>3 DEF WaitInv, OneAtATime
  <2> QED
    BY <2>1, <2>2, <2>3
<1>5. AsksBelow'
  <2> SUFFICES ASSUME NEW x \in User, NEW y \in Others(x),
                      pc'[x] = "lock", pc'[y] # "idle"
               PROVE  Rank[want'[x]] < Rank[want'[y]]
    BY DEF AsksBelow, Others
  <2>0. y \in User /\ x # y
    BY DEF Others
  <2>1. CASE x = u
    BY <1>1, <2>0, <2>1
  <2>2. CASE x # u /\ y = u
    BY <1>1, <1>2, <2>0, <2>2 DEF Rest
  <2>3. CASE x # u /\ y # u
    BY <1>1, <2>0, <2>3 DEF WaitInv, AsksBelow
  <2> QED
    BY <2>1, <2>2, <2>3
<1>6. AsksForBlock'
  BY <1>1 DEF WaitInv, AsksForBlock
<1> QED
  BY <1>4, <1>5, <1>6 DEF WaitInv

\* One that is inside a call finds the others at rest.
LEMMA OthersRest ==
    ASSUME WaitInv, NEW u \in User, pc[u] \notin Rest
    PROVE  \A v \in Others(u) : pc[v] \in Rest
BY DEF WaitInv, OneAtATime

\* The sleep locks stay with their owners when a user moves on.
LEMMA OwnersStay ==
    ASSUME CacheInv, WaitInv, NEW u \in User, NEW l \in Control, Goto(u, l),
           owner' = owner, \A v \in User : v # u => mine'[v] = mine[v],
           pc[u] \in Holding => l \in Holding /\ mine'[u] = mine[u]
    PROVE  OwnerUses'
<1> SUFFICES ASSUME NEW i \in Buf, owner[i] # None
             PROVE  pc'[owner[i]] \in Holding /\ mine'[owner[i]] = i
  BY DEF OwnerUses
<1>1. owner[i] \in User
  BY DEF CacheInv, Types
<1>2. pc[owner[i]] \in Holding /\ mine[owner[i]] = i
  BY DEF WaitInv, OwnerUses
<1>3. pc'[u] = l /\ \A v \in User : v # u => pc'[v] = pc[v]
  BY DEF Goto, CacheInv, Types
<1> QED
  BY <1>1, <1>2, <1>3

LEMMA NextWaitInv == CacheInv /\ WaitInv /\ [Next]_vars => WaitInv'
<1> SUFFICES ASSUME CacheInv, WaitInv, [Next]_vars PROVE WaitInv'
  OBVIOUS
<1>w. \A u \in User : pc[u] # "idle" => want[u] \in BlockNo
  BY DEF WaitInv, AsksForBlock
<1>t. Types
  BY DEF CacheInv
<1>1. ASSUME NEW u \in User, NEW k \in BlockNo, BgetHit(u, k) \/ BgetMiss(u, k)
      PROVE  WaitInv'
  <2>1. /\ MayAsk(u, k) /\ Goto(u, "lock") /\ owner' = owner
        /\ want' = [want EXCEPT ![u] = k]
        /\ \A v \in User : v # u => mine'[v] = mine[v]
    BY <1>1, <1>t DEF BgetHit, BgetMiss, Types
  <2>2. want'[u] = k /\ \A v \in User : v # u => want'[v] = want[v]
    BY <2>1, <1>t DEF Types
  <2>3. \A v \in Others(u) : pc[v] \in Rest /\ (pc[v] = "idle" \/ Rank[k] < Rank[want[v]])
    BY <2>1 DEF MayAsk, Rest
  <2>4. OwnerUses'
    BY <2>1, OwnersStay DEF MayAsk, Holding, Control
  <2> QED
    BY <2>1, <2>2, <2>3, <2>4, UserMoves DEF Control
<1>2. ASSUME NEW u \in User, NEW l \in Holding, pc[u] \in Holding, Goto(u, l),
             \A v \in Others(u) : pc[v] \in Rest, UNCHANGED <<owner, want, mine>>
      PROVE  WaitInv'
  <2>1. l \in Control /\ l # "idle" /\ l # "lock" /\ want[u] \in BlockNo
    BY <1>2, <1>w DEF Holding, Control
  <2>2. OwnerUses'
    BY <1>2, <2>1, OwnersStay
  <2> QED
    BY <1>2, <2>1, <2>2, UserMoves
<1>3. ASSUME NEW u \in User, Fill(u) \/ Bwrite(u) \/ LogWrite(u) \/ InstallWrite(u) \/ Bunpin(u)
      PROVE  WaitInv'
  <2>1. /\ pc[u] \in Holding /\ pc[u] \notin Rest /\ UNCHANGED <<owner, want, mine>>
        /\ \E l \in Holding : Goto(u, l)
    BY <1>3 DEF Fill, Bwrite, LogWrite, InstallWrite, Bunpin, Holding, Rest
  <2> QED
    BY <1>2, <2>1, OthersRest
<1>4. ASSUME NEW u \in User, Copy(u) \/ \E d \in Data : Modify(u, d)
      PROVE  WaitInv'
  <2>1. /\ pc[u] \in Holding /\ AtRest(u) /\ UNCHANGED <<owner, want, mine>>
        /\ \E l \in Holding : Goto(u, l)
    BY <1>4 DEF Copy, Modify, Holding
  <2>2. \A v \in Others(u) : pc[v] \in Rest
    BY <2>1 DEF AtRest, Rest
  <2> QED
    BY <1>2, <2>1, <2>2
<1>5. ASSUME NEW u \in User, Lock(u) PROVE WaitInv'
  <2>1. /\ pc[u] = "lock" /\ Goto(u, "locked") /\ UNCHANGED <<want, mine>>
        /\ owner' = [owner EXCEPT ![mine[u]] = u]
    BY <1>5 DEF Lock
  <2>2. pc'[u] = "locked" /\ \A v \in User : v # u => pc'[v] = pc[v]
    BY <2>1, <1>t DEF Goto, Types
  <2>3. OwnerUses'
    <3> SUFFICES ASSUME NEW i \in Buf, owner'[i] # None
                 PROVE  pc'[owner'[i]] \in Holding /\ mine[owner'[i]] = i
      BY <2>1 DEF OwnerUses
    <3>1. CASE i = mine[u]
      <4>1. owner'[i] = u
        BY <2>1, <3>1, <1>t DEF Types
      <4> QED
        BY <2>2, <3>1, <4>1 DEF Holding
    <3>2. CASE i # mine[u]
      <4>1. owner'[i] = owner[i] /\ owner[i] \in User
        BY <2>1, <3>2, <1>t DEF Types
      <4>2. pc[owner[i]] \in Holding /\ mine[owner[i]] = i
        BY <4>1 DEF WaitInv, OwnerUses
      <4> QED
        BY <2>2, <3>2, <4>1, <4>2
    <3> QED
      BY <3>1, <3>2
  <2> QED
    BY <1>w, <2>1, <2>3, OthersRest, UserMoves DEF Control, Rest
<1>6. ASSUME NEW u \in User, Unlock(u) PROVE WaitInv'
  <2>1. /\ pc[u] = "have" /\ AtRest(u) /\ Goto(u, "put") /\ UNCHANGED <<want, mine>>
        /\ owner' = [owner EXCEPT ![mine[u]] = None]
    BY <1>6 DEF Unlock
  <2>2. \A v \in User : v # u => pc'[v] = pc[v]
    BY <2>1, <1>t DEF Goto, Types
  <2>3. OwnerUses'
    <3> SUFFICES ASSUME NEW i \in Buf, owner'[i] # None
                 PROVE  pc'[owner'[i]] \in Holding /\ mine[owner'[i]] = i
      BY <2>1 DEF OwnerUses
    <3>1. i # mine[u] /\ owner'[i] = owner[i] /\ owner[i] \in User
      BY <2>1, <1>t DEF Types
    <3>2. pc[owner[i]] \in Holding /\ mine[owner[i]] = i
      BY <3>1 DEF WaitInv, OwnerUses
    <3> QED
      BY <2>2, <3>1, <3>2
  <2>4. \A v \in Others(u) : pc[v] \in Rest
    BY <2>1 DEF AtRest, Rest
  <2> QED
    BY <1>w, <2>1, <2>3, <2>4, UserMoves DEF Control
<1>7. ASSUME NEW u \in User, Put(u) PROVE WaitInv'
  <2>1. /\ pc[u] = "put" /\ Goto(u, "idle") /\ owner' = owner
        /\ \A v \in User : v # u => mine'[v] = mine[v] /\ want'[v] = want[v]
    BY <1>7, <1>t DEF Put, Types
  <2>2. OwnerUses'
    BY <2>1, OwnersStay DEF Holding, Control
  <2> QED
    BY <2>1, <2>2, OthersRest, UserMoves DEF Control, Rest
<1>8. ASSUME UNCHANGED <<owner, pc, want, mine>> PROVE WaitInv'
  BY <1>8 DEF WaitInv, OneAtATime, AsksBelow, OwnerUses, AsksForBlock, Others
<1>9. ASSUME NEW u \in User, NEW k \in BlockNo, BgetPanic(u, k) PROVE WaitInv'
  BY <1>8, <1>9 DEF BgetPanic
<1>10. CASE UNCHANGED vars
  BY <1>8, <1>10 DEF vars
<1>11. CASE Next
  BY <1>11, <1>1, <1>3, <1>4, <1>5, <1>6, <1>7, <1>9 DEF Next
<1> QED
  BY <1>10, <1>11

LEMMA WaitInvariant == Spec => []WaitInv
<1>1. Init => WaitInv
  BY BcacheAssumption
     DEF Init, WaitInv, OneAtATime, AsksBelow, OwnerUses, AsksForBlock, Others, Rest
<1> QED
  BY <1>1, NextWaitInv, CacheInvariant, PTL DEF Spec

\* The block a process waits for ranks above the one its holder waits for.
LEMMA WaitsDown ==
    ASSUME CacheInv, WaitInv, NEW u \in User, NEW w \in User, pc[u] = "lock",
           pc[w] = "lock", WaitsFor(Process[u], Process[w])
    PROVE  Rank[want[w]] < Rank[want[u]]
<1>1. PICK x, v \in User : /\ Process[x] = Process[u] /\ pc[x] = "lock"
                           /\ Process[v] = Process[w] /\ owner[mine[x]] = v
  BY DEF WaitsFor
<1>2. x = u
  BY <1>1 DEF WaitInv, OneAtATime, Others, Rest
<1>3. mine[u] \in Buf /\ v # None
  <2>1. mine[u] \in 0..NBUF /\ mine[u] # 0
    BY DEF CacheInv, Types, HasBuffer
  <2> QED
    BY <2>1, BcacheAssumption DEF Buf
<1>4. pc[v] \in Holding /\ mine[v] = mine[u]
  BY <1>1, <1>2, <1>3 DEF WaitInv, OwnerUses
<1>5. want[v] = want[u]
  BY <1>4 DEF CacheInv, RightBlock, Holding
<1>6. v \in Others(w)
  BY <1>1, <1>4 DEF Others, Holding
<1> QED
  BY <1>4, <1>5, <1>6 DEF WaitInv, AsksBelow, Holding

\* Processes that hold one buffer while they wait for another never wait for
\* each other in a circle.
THEOREM WaitsEnd == Spec => []NoCircularWait
<1>1. ASSUME CacheInv, WaitInv PROVE NoCircularWait
  <2> SUFFICES ASSUME NEW S \in (SUBSET Proc) \ {{}}, S # {},
                      \A p \in S : \E q \in S : WaitsFor(p, q)
               PROVE  FALSE
    BY DEF NoCircularWait
  <2> DEFINE Waiting(u) == pc[u] = "lock" /\ Process[u] \in S
  <2>1. \A p \in S : \E u \in User : Waiting(u) /\ Process[u] = p
    BY DEF WaitsFor
  <2>2. ASSUME NEW u \in User, Waiting(u)
        PROVE  \E w \in User : Waiting(w) /\ Rank[want[w]] < Rank[want[u]]
    <3>1. PICK q \in S : WaitsFor(Process[u], q)
      BY <2>2
    <3>2. PICK w \in User : Waiting(w) /\ Process[w] = q
      BY <2>1
    <3> QED
      BY <1>1, <2>2, <3>1, <3>2, WaitsDown
  <2>3. \A u \in User : Waiting(u) => Rank[want[u]] \in 0..2
    BY <1>1, BcacheAssumption DEF WaitInv, AsksForBlock
  <2>4. \E u \in User : Waiting(u)
    BY <2>1
  <2> HIDE DEF Waiting
  <2>5. \A u \in User : ~(Waiting(u) /\ Rank[want[u]] = 0)
    BY <2>2, <2>3
  <2>6. \A u \in User : ~(Waiting(u) /\ Rank[want[u]] = 1)
    BY <2>2, <2>3, <2>5
  <2>7. \A u \in User : ~(Waiting(u) /\ Rank[want[u]] = 2)
    BY <2>2, <2>3, <2>5, <2>6
  <2> QED
    BY <2>3, <2>4, <2>5, <2>6, <2>7
<1>2. CacheInv /\ WaitInv => NoCircularWait
  BY <1>1
<1> QED
  BY <1>2, CacheInvariant, WaitInvariant, PTL
-----------------------------------------------------------------------------
(* The cache implements one variable per block.  StoreInv adds to CacheInv *)
(* where the contents of a block are: a buffer that bget() may recycle     *)
(* holds nothing that the disk does not.                                   *)

StoreTypes ==
    /\ valid \in [Buf -> BOOLEAN]
    /\ data \in [Buf -> Data]
    /\ disk \in [BlockNo -> Data]
    /\ \A u \in User : pc[u] # "idle" => want[u] \in BlockNo
    /\ \A i \in Buf : valid[i] => blockno[i] \in BlockNo

\* bread() has filled the buffer of its caller.
FilledBuffers == \A u \in User : pc[u] \in HolderPC => valid[mine[u]]

\* What is only in a buffer is pinned, or its holder is about to write it.
CleanBuffers ==
    \A i \in Buf :
        valid[i] /\ i \notin pinned /\ (\A u \in User : pc[u] \in Changed => mine[u] # i)
            => data[i] = disk[blockno[i]]

\* install_trans() unpins what it has written.
WrittenUnpins ==
    \A u \in User : pc[u] = "unpin" => data[mine[u]] = disk[blockno[mine[u]]]

StoreInv ==
    /\ StoreTypes
    /\ FilledBuffers
    /\ CleanBuffers
    /\ WrittenUnpins

\* The value and the holder of block k, read off the cache.
Value(bn, vd, dt, dk, k) ==
    IF \E i \in Buf : bn[i] = k /\ vd[i]
      THEN dt[CHOOSE i \in Buf : bn[i] = k /\ vd[i]]
      ELSE dk[k]

HolderOf(c, w, k) ==
    IF \E u \in User : c[u] \in HolderPC /\ w[u] = k
      THEN CHOOSE u \in User : c[u] \in HolderPC /\ w[u] = k
      ELSE None

Val == [k \in BlockNo |-> Value(blockno, valid, data, disk, k)]
Holder == [k \in BlockNo |-> HolderOf(pc, want, k)]

LEMMA ValueAt ==
    ASSUME NEW bn, NEW vd, NEW dt, NEW dk, NEW k,
           \A i, j \in Buf : bn[i] = k /\ bn[j] = k => i = j
    PROVE  /\ \A i \in Buf : bn[i] = k =>
                  Value(bn, vd, dt, dk, k) = IF vd[i] THEN dt[i] ELSE dk[k]
           /\ (\A i \in Buf : bn[i] # k) => Value(bn, vd, dt, dk, k) = dk[k]
<1>1. ASSUME NEW i \in Buf, bn[i] = k, vd[i]
      PROVE  Value(bn, vd, dt, dk, k) = dt[i]
  <2>1. (CHOOSE j \in Buf : bn[j] = k /\ vd[j]) = i
    BY <1>1
  <2> QED
    BY <1>1, <2>1 DEF Value
<1>2. ASSUME \A i \in Buf : ~(bn[i] = k /\ vd[i])
      PROVE  Value(bn, vd, dt, dk, k) = dk[k]
  BY <1>2 DEF Value
<1>3. ASSUME NEW i \in Buf, bn[i] = k, ~vd[i]
      PROVE  Value(bn, vd, dt, dk, k) = dk[k]
  <2>1. \A j \in Buf : ~(bn[j] = k /\ vd[j])
    BY <1>3
  <2> QED
    BY <1>2, <2>1
<1> QED
  BY <1>1, <1>2, <1>3

LEMMA HolderAt ==
    ASSUME NEW c, NEW w, NEW k,
           \A u, v \in User : /\ c[u] \in HolderPC /\ w[u] = k
                             /\ c[v] \in HolderPC /\ w[v] = k => u = v
    PROVE  /\ \A u \in User : c[u] \in HolderPC /\ w[u] = k => HolderOf(c, w, k) = u
           /\ (\A u \in User : ~(c[u] \in HolderPC /\ w[u] = k))
                 => HolderOf(c, w, k) = None
<1>1. ASSUME NEW u \in User, c[u] \in HolderPC, w[u] = k
      PROVE  HolderOf(c, w, k) = u
  <2>1. (CHOOSE v \in User : c[v] \in HolderPC /\ w[v] = k) = u
    BY <1>1
  <2> QED
    BY <1>1, <2>1 DEF HolderOf
<1>2. ASSUME \A u \in User : ~(c[u] \in HolderPC /\ w[u] = k)
      PROVE  HolderOf(c, w, k) = None
  BY <1>2 DEF HolderOf
<1> QED
  BY <1>1, <1>2

\* Of the processes that asked for a block one at most has been given it.
LEMMA OneHolder ==
    ASSUME CacheInv, StoreTypes, NEW u \in User, NEW v \in User,
           pc[u] \in Holding, pc[v] \in Holding, want[u] = want[v]
    PROVE  u = v
<1>1. /\ pc[u] # "idle" /\ pc[v] # "idle"
      /\ want[u] \in BlockNo /\ want[u] # NoBlock
  BY BcacheAssumption DEF Holding, StoreTypes
<1>2. mine[u] \in Buf /\ mine[v] \in Buf
  BY <1>1 DEF CacheInv, HasBuffer, Types, Buf
<1>3. blockno[mine[u]] = want[u] /\ blockno[mine[v]] = want[v]
  BY <1>1 DEF CacheInv, RightBlock
<1>4. mine[u] = mine[v]
  BY <1>1, <1>2, <1>3 DEF CacheInv, OneBufferPerBlock
<1>5. owner[mine[u]] = u /\ owner[mine[v]] = v
  BY DEF CacheInv, LockOwned
<1> QED
  BY <1>4, <1>5

LEMMA ValueNow ==
    ASSUME CacheInv, NEW k \in BlockNo
    PROVE  /\ \A i \in Buf : blockno[i] = k =>
                  Value(blockno, valid, data, disk, k)
                      = IF valid[i] THEN data[i] ELSE disk[k]
           /\ (\A i \in Buf : blockno[i] # k)
                  => Value(blockno, valid, data, disk, k) = disk[k]
<1>1. \A i, j \in Buf : blockno[i] = k /\ blockno[j] = k => i = j
  BY BcacheAssumption DEF CacheInv, OneBufferPerBlock
<1> QED
  BY <1>1, ValueAt

LEMMA ValueThen ==
    ASSUME CacheInv', NEW k \in BlockNo
    PROVE  /\ \A i \in Buf : blockno'[i] = k =>
                  Value(blockno', valid', data', disk', k)
                      = IF valid'[i] THEN data'[i] ELSE disk'[k]
           /\ (\A i \in Buf : blockno'[i] # k)
                  => Value(blockno', valid', data', disk', k) = disk'[k]
<1>1. \A i, j \in Buf : blockno'[i] = k /\ blockno'[j] = k => i = j
  BY BcacheAssumption DEF CacheInv, OneBufferPerBlock
<1> QED
  BY <1>1, ValueAt

\* A block keeps its value as long as the buffer that carries it does.
LEMMA ValueKept ==
    ASSUME CacheInv, CacheInv', NEW k \in BlockNo, blockno' = blockno,
           \A i \in Buf : blockno[i] = k =>
               (IF valid'[i] THEN data'[i] ELSE disk'[k])
                   = (IF valid[i] THEN data[i] ELSE disk[k]),
           (\A i \in Buf : blockno[i] # k) => disk'[k] = disk[k]
    PROVE  Value(blockno', valid', data', disk', k)
               = Value(blockno, valid, data, disk, k)
<1>1. ASSUME NEW i \in Buf, blockno[i] = k
      PROVE  Value(blockno', valid', data', disk', k)
                 = Value(blockno, valid, data, disk, k)
  <2>1. Value(blockno, valid, data, disk, k) = IF valid[i] THEN data[i] ELSE disk[k]
    BY <1>1, ValueNow
  <2>2. blockno'[i] = k
    BY <1>1
  <2>3. Value(blockno', valid', data', disk', k)
            = IF valid'[i] THEN data'[i] ELSE disk'[k]
    BY <2>2, ValueThen
  <2> QED
    BY <1>1, <2>1, <2>3
<1>2. ASSUME \A i \in Buf : blockno[i] # k
      PROVE  Value(blockno', valid', data', disk', k)
                 = Value(blockno, valid, data, disk, k)
  <2>1. Value(blockno, valid, data, disk, k) = disk[k]
    BY <1>2, ValueNow
  <2>2. \A i \in Buf : blockno'[i] # k
    BY <1>2
  <2>3. Value(blockno', valid', data', disk', k) = disk'[k]
    BY <2>2, ValueThen
  <2> QED
    BY <1>2, <2>1, <2>3
<1> QED
  BY <1>1, <1>2

\* Who holds a block is unchanged as long as the same processes qualify.
LEMMA HolderSame ==
    ASSUME CacheInv, StoreTypes, NEW k \in BlockNo,
           \A v \in User : pc'[v] \in HolderPC /\ want'[v] = k
                              <=> pc[v] \in HolderPC /\ want[v] = k
    PROVE  HolderOf(pc', want', k) = HolderOf(pc, want, k)
<1>1. \A u, v \in User : /\ pc[u] \in HolderPC /\ want[u] = k
                        /\ pc[v] \in HolderPC /\ want[v] = k => u = v
  BY OneHolder DEF HolderPC, Holding
<1>2. CASE \E u \in User : pc[u] \in HolderPC /\ want[u] = k
  BY <1>1, <1>2, HolderAt
<1>3. CASE \A u \in User : ~(pc[u] \in HolderPC /\ want[u] = k)
  BY <1>1, <1>3, HolderAt
<1> QED
  BY <1>2, <1>3

LEMMA MineIs ==
    ASSUME CacheInv, StoreTypes, NEW u \in User, pc[u] # "idle"
    PROVE  mine[u] \in Buf /\ want[u] \in BlockNo /\ blockno[mine[u]] = want[u]
BY DEF CacheInv, HasBuffer, Types, Buf, StoreTypes, RightBlock

LEMMA InitStore ==
    ASSUME Init
    PROVE  StoreInv /\ BS!BSInit
<1>1. StoreInv
  BY DEF Init, StoreInv, StoreTypes, FilledBuffers, CleanBuffers, WrittenUnpins, HolderPC
<1>2. Val = disk
  <2>1. \A k \in BlockNo : Value(blockno, valid, data, disk, k) = disk[k]
    BY BcacheAssumption, ValueAt DEF Init
  <2> QED
    BY <2>1 DEF Val, Init
<1>3. Holder = [k \in BlockNo |-> None]
  <2>1. \A k \in BlockNo : HolderOf(pc, want, k) = None
    BY DEF Init, HolderOf, HolderPC
  <2> QED
    BY <2>1 DEF Holder
<1>4. Val \in [BlockNo -> Data]
  BY <1>2 DEF Init
<1> QED
  BY <1>1, <1>3, <1>4 DEF BS!BSInit, Val, Value, Holder, HolderOf

\* Steps of a process that neither holds a block before nor after.
LEMMA AwayStep ==
    ASSUME CacheInv, StoreInv, UNCHANGED <<valid, data, disk, blockno, pinned>>,
           \A v \in User : \/ pc'[v] = pc[v] /\ want'[v] = want[v] /\ mine'[v] = mine[v]
                          \/ /\ pc[v] \notin HolderPC /\ pc'[v] \notin HolderPC
                             /\ pc'[v] # "idle" => want'[v] \in BlockNo
    PROVE  StoreInv' /\ UNCHANGED BS!bsvars
<1>1. StoreTypes'
  BY DEF StoreInv, StoreTypes
<1>2. FilledBuffers' /\ WrittenUnpins'
  BY DEF StoreInv, FilledBuffers, WrittenUnpins, HolderPC, Changed
<1>3. CleanBuffers'
  <2>1. \A v \in User : pc[v] \in Changed => pc'[v] \in Changed /\ mine'[v] = mine[v]
    BY DEF Changed, HolderPC
  <2> QED
    BY <2>1 DEF StoreInv, CleanBuffers
<1>4. Val' = Val
  BY DEF Val
<1>5. Holder' = Holder
  <2>1. ASSUME NEW k \in BlockNo
        PROVE  HolderOf(pc', want', k) = HolderOf(pc, want, k)
    BY HolderSame DEF StoreInv
  <2> QED
    BY <2>1 DEF Holder
<1> QED
  BY <1>1, <1>2, <1>3, <1>4, <1>5
     DEF StoreInv, BS!bsvars, Val, Value, Holder, HolderOf

\* Steps of the holder of a block that keep its value.
LEMMA SameHolder ==
    ASSUME CacheInv, CacheInv', StoreInv, NEW u \in User, pc[u] \in HolderPC,
           pc' = [pc EXCEPT ![u] = pc'[u]], pc'[u] \in HolderPC,
           UNCHANGED <<blockno, valid, data, want, mine>>,
           \/ disk' = disk
           \/ disk' = [disk EXCEPT ![blockno[mine[u]]] = data[mine[u]]]
    PROVE  StoreTypes' /\ FilledBuffers' /\ UNCHANGED BS!bsvars
<1> DEFINE i == mine[u]
           k == want[u]
<1>1. i \in Buf /\ k \in BlockNo /\ blockno[i] = k /\ valid[i]
  BY MineIs DEF HolderPC, StoreInv, FilledBuffers
<1>2. StoreTypes /\ Types /\ FilledBuffers
  BY DEF StoreInv, CacheInv
<1>3. disk' \in [BlockNo -> Data] /\ \A m \in BlockNo : m # k => disk'[m] = disk[m]
  BY <1>1, <1>2 DEF StoreTypes
<1>4. \A v \in User : v # u => pc'[v] = pc[v]
  BY <1>2 DEF Types
<1>5. StoreTypes'
  BY <1>2, <1>3, <1>4 DEF StoreTypes, HolderPC
<1>6. FilledBuffers'
  BY <1>1, <1>2, <1>4 DEF FilledBuffers
<1>7. Val' = Val
  <2>1. ASSUME NEW m \in BlockNo
        PROVE  Value(blockno', valid', data', disk', m)
                   = Value(blockno, valid, data, disk, m)
    <3>1. ASSUME NEW j \in Buf, blockno[j] = m
          PROVE  (IF valid'[j] THEN data'[j] ELSE disk'[m])
                     = (IF valid[j] THEN data[j] ELSE disk[m])
      <4>1. CASE m = k
        <5>1. j = i
          BY <1>1, <3>1, <4>1, BcacheAssumption DEF CacheInv, OneBufferPerBlock
        <5> QED
          BY <1>1, <5>1
      <4>2. CASE m # k
        BY <1>3, <4>2
      <4> QED
        BY <4>1, <4>2
    <3>2. (\A j \in Buf : blockno[j] # m) => disk'[m] = disk[m]
      BY <1>1, <1>3
    <3> QED
      BY <3>1, <3>2, ValueKept
  <2> QED
    BY <2>1 DEF Val
<1>8. Holder' = Holder
  <2>1. ASSUME NEW m \in BlockNo
        PROVE  HolderOf(pc', want', m) = HolderOf(pc, want, m)
    BY <1>2, <1>4, HolderSame
  <2> QED
    BY <2>1 DEF Holder
<1> QED
  BY <1>5, <1>6, <1>7, <1>8 DEF BS!bsvars, Val, Value, Holder, HolderOf

LEMMA FillHolds ==
    ASSUME CacheInv, CacheInv', StoreInv, NEW u \in User, Fill(u),
           NEW k \in BlockNo, want[u] = k
    PROVE  StoreInv' /\ BS!Hold(u, k)
<1> DEFINE i == mine[u]
<1>1. /\ want[u] = k
      /\ pc[u] = "locked" /\ pc' = [pc EXCEPT ![u] = "have"]
      /\ valid' = [valid EXCEPT ![i] = TRUE]
      /\ data' = IF valid[i] THEN data ELSE [data EXCEPT ![i] = disk[blockno[i]]]
      /\ UNCHANGED <<blockno, disk, pinned, want, mine>>
  BY DEF Fill, Goto
<1>2. StoreTypes /\ Types /\ FilledBuffers /\ CleanBuffers /\ WrittenUnpins
  BY DEF StoreInv, CacheInv
<1>3. i \in Buf /\ k \in BlockNo /\ blockno[i] = k
  BY <1>1, <1>2, MineIs
<1>4. /\ valid' \in [Buf -> BOOLEAN] /\ valid'[i] = TRUE
      /\ \A j \in Buf : j # i => valid'[j] = valid[j] /\ data'[j] = data[j]
      /\ data'[i] = (IF valid[i] THEN data[i] ELSE disk[k])
      /\ data' \in [Buf -> Data]
  <2>1. /\ valid \in [Buf -> BOOLEAN] /\ data \in [Buf -> Data]
        /\ disk[k] \in Data
    BY <1>2, <1>3 DEF StoreTypes
  <2>2. /\ valid' \in [Buf -> BOOLEAN] /\ valid'[i] = TRUE
        /\ \A j \in Buf : j # i => valid'[j] = valid[j]
    BY <1>1, <1>3, <2>1
  <2>3. CASE valid[i]
    BY <1>1, <2>1, <2>2, <2>3
  <2>4. CASE ~valid[i]
    <3>1. data' = [data EXCEPT ![i] = disk[k]]
      BY <1>1, <1>3, <2>4
    <3> QED
      BY <1>3, <2>1, <2>2, <2>4, <3>1
  <2> QED
    BY <2>3, <2>4
<1>5. pc'[u] = "have" /\ \A v \in User : v # u => pc'[v] = pc[v]
  BY <1>1, <1>2 DEF Types
<1>6. StoreTypes'
  BY <1>1, <1>2, <1>3, <1>4, <1>5 DEF StoreTypes
<1>7. FilledBuffers'
  BY <1>1, <1>2, <1>3, <1>4, <1>5, MineIs DEF FilledBuffers, HolderPC
<1>8. CleanBuffers'
  <2> SUFFICES ASSUME NEW j \in Buf, valid'[j], j \notin pinned,
                      \A v \in User : pc'[v] \in Changed => mine[v] # j
               PROVE  data'[j] = disk[blockno[j]]
    BY <1>1 DEF CleanBuffers
  <2>1. \A v \in User : pc[v] \in Changed => mine[v] # j
    BY <1>1, <1>5 DEF Changed
  <2>2. valid[j] => data[j] = disk[blockno[j]]
    BY <1>2, <2>1 DEF CleanBuffers
  <2> QED
    BY <1>3, <1>4, <2>2
<1>9. WrittenUnpins'
  <2> SUFFICES ASSUME NEW v \in User, pc'[v] = "unpin"
               PROVE  data'[mine[v]] = disk[blockno[mine[v]]]
    BY <1>1 DEF WrittenUnpins
  <2>1. pc[v] = "unpin" /\ v # u
    BY <1>5
  <2>2. mine[v] \in Buf /\ data[mine[v]] = disk[blockno[mine[v]]]
    BY <1>2, <2>1, MineIs DEF WrittenUnpins
  <2>3. mine[v] # i
    <3>1. owner[mine[v]] = v /\ owner[i] = u
      BY <1>1, <2>1 DEF CacheInv, LockOwned, Holding
    <3> QED
      BY <2>1, <3>1
  <2> QED
    BY <1>4, <2>2, <2>3
<1>10. Val' = Val
  <2>1. ASSUME NEW m \in BlockNo
        PROVE  Value(blockno', valid', data', disk', m)
                   = Value(blockno, valid, data, disk, m)
    <3>1. ASSUME NEW j \in Buf, blockno[j] = m
          PROVE  (IF valid'[j] THEN data'[j] ELSE disk'[m])
                     = (IF valid[j] THEN data[j] ELSE disk[m])
      <4>1. CASE j = i
        BY <1>1, <1>3, <1>4, <3>1, <4>1
      <4>2. CASE j # i
        BY <1>1, <1>4, <4>2
      <4> QED
        BY <4>1, <4>2
    <3> QED
      BY <1>1, <3>1, ValueKept
  <2> QED
    BY <2>1 DEF Val
<1>11. \A v \in User : ~(pc[v] \in HolderPC /\ want[v] = k)
  <2> SUFFICES ASSUME NEW v \in User, pc[v] \in HolderPC, want[v] = k
               PROVE  FALSE
    OBVIOUS
  <2>1. v = u
    BY <1>1, <1>2, OneHolder DEF HolderPC, Holding
  <2> QED
    BY <1>1, <2>1 DEF HolderPC
<1>12. HolderOf(pc, want, k) = None
  BY <1>11, HolderAt
<1>13. HolderOf(pc', want', k) = u
  <2>1. \A v \in User : pc'[v] \in HolderPC /\ want'[v] = k => v = u
    BY <1>1, <1>5, <1>11
  <2>2. pc'[u] \in HolderPC /\ want'[u] = k
    BY <1>1, <1>5 DEF HolderPC
  <2> QED
    BY <2>1, <2>2, HolderAt
<1>14. ASSUME NEW m \in BlockNo, m # k
       PROVE  HolderOf(pc', want', m) = HolderOf(pc, want, m)
  <2>1. \A v \in User : pc'[v] \in HolderPC /\ want'[v] = m
                           <=> pc[v] \in HolderPC /\ want[v] = m
    BY <1>1, <1>5, <1>14
  <2> QED
    BY <1>2, <2>1, HolderSame
<1>15. Holder[k] = None /\ Holder' = [Holder EXCEPT ![k] = u]
  BY <1>3, <1>12, <1>13, <1>14 DEF Holder
<1>16. BS!Hold(u, k)
  BY <1>10, <1>15 DEF BS!Hold, Val, Value, Holder, HolderOf
<1>17. StoreInv'
  BY <1>6, <1>7, <1>8, <1>9 DEF StoreInv
<1> QED
  BY <1>16, <1>17

\* Two processes never use one buffer.
LEMMA OtherBuffer ==
    ASSUME CacheInv, NEW u \in User, NEW v \in User, u # v,
           pc[u] \in Holding, pc[v] \in Holding
    PROVE  mine[u] # mine[v]
<1>1. owner[mine[u]] = u /\ owner[mine[v]] = v
  BY DEF CacheInv, LockOwned
<1> QED
  BY <1>1

LEMMA HolderIs ==
    ASSUME CacheInv, StoreTypes, NEW u \in User, pc[u] \in HolderPC
    PROVE  HolderOf(pc, want, want[u]) = u
<1>1. \A v, x \in User : /\ pc[v] \in HolderPC /\ want[v] = want[u]
                        /\ pc[x] \in HolderPC /\ want[x] = want[u] => v = x
  BY OneHolder DEF HolderPC, Holding
<1> QED
  BY <1>1, HolderAt

\* The holder changes the contents of its buffer.
LEMMA ModifyUpdates ==
    ASSUME CacheInv, CacheInv', StoreInv, NEW u \in User, NEW d \in Data,
           NEW l \in Changed, pc[u] = "have", Goto(u, l),
           data' = [data EXCEPT ![mine[u]] = d],
           UNCHANGED <<blockno, valid, disk, pinned, want, mine>>,
           NEW k \in BlockNo, want[u] = k
    PROVE  StoreInv' /\ BS!Update(u, k, d)
<1> DEFINE i == mine[u]
<1>1. /\ want[u] = k
      /\ pc[u] = "have" /\ pc' = [pc EXCEPT ![u] = l]
      /\ data' = [data EXCEPT ![i] = d]
      /\ UNCHANGED <<blockno, valid, disk, pinned, want, mine>>
  BY DEF Goto
<1>2. StoreTypes /\ Types /\ FilledBuffers /\ CleanBuffers /\ WrittenUnpins
  BY DEF StoreInv, CacheInv
<1>3. i \in Buf /\ k \in BlockNo /\ blockno[i] = k /\ valid[i]
  BY <1>1, <1>2, MineIs DEF FilledBuffers, HolderPC
<1>4. /\ data' \in [Buf -> Data] /\ data'[i] = d
      /\ \A j \in Buf : j # i => data'[j] = data[j]
  BY <1>1, <1>2, <1>3 DEF StoreTypes
<1>5. pc'[u] = l /\ \A v \in User : v # u => pc'[v] = pc[v]
  BY <1>1, <1>2 DEF Types
<1>6. StoreTypes'
  BY <1>1, <1>2, <1>4, <1>5 DEF StoreTypes
<1>7. FilledBuffers'
  BY <1>1, <1>2, <1>5 DEF FilledBuffers, HolderPC
<1>8. CleanBuffers'
  <2> SUFFICES ASSUME NEW j \in Buf, valid[j], j \notin pinned,
                      \A v \in User : pc'[v] \in Changed => mine[v] # j
               PROVE  data'[j] = disk[blockno[j]]
    BY <1>1 DEF CleanBuffers
  <2>1. j # i /\ \A v \in User : pc[v] \in Changed => mine[v] # j
    BY <1>1, <1>5
  <2> QED
    BY <1>2, <1>4, <2>1 DEF CleanBuffers
<1>9. WrittenUnpins'
  <2> SUFFICES ASSUME NEW v \in User, pc'[v] = "unpin"
               PROVE  data'[mine[v]] = disk[blockno[mine[v]]]
    BY <1>1 DEF WrittenUnpins
  <2>1. pc[v] = "unpin" /\ v # u
    BY <1>5 DEF Changed
  <2>2. mine[v] \in Buf /\ mine[v] # i
    BY <1>1, <1>2, <2>1, MineIs, OtherBuffer DEF Holding
  <2> QED
    BY <1>2, <1>4, <2>1, <2>2 DEF WrittenUnpins
<1>10. Value(blockno', valid', data', disk', k) = d
  <2>1. blockno'[i] = k /\ valid'[i]
    BY <1>1, <1>3
  <2>2. Value(blockno', valid', data', disk', k) = IF valid'[i] THEN data'[i] ELSE disk'[k]
    BY <1>3, <2>1, ValueThen
  <2> QED
    BY <1>4, <2>1, <2>2
<1>11. ASSUME NEW m \in BlockNo, m # k
       PROVE  Value(blockno', valid', data', disk', m)
                  = Value(blockno, valid, data, disk, m)
  <2>1. ASSUME NEW j \in Buf, blockno[j] = m
        PROVE  (IF valid'[j] THEN data'[j] ELSE disk'[m])
                   = (IF valid[j] THEN data[j] ELSE disk[m])
    BY <1>1, <1>3, <1>4, <1>11, <2>1
  <2> QED
    BY <1>1, <2>1, ValueKept
<1>12. Val' = [Val EXCEPT ![k] = d]
  BY <1>3, <1>10, <1>11 DEF Val
<1>13. Holder' = Holder
  <2>1. ASSUME NEW m \in BlockNo
        PROVE  HolderOf(pc', want', m) = HolderOf(pc, want, m)
    <3>1. \A v \in User : pc'[v] \in HolderPC /\ want'[v] = m
                             <=> pc[v] \in HolderPC /\ want[v] = m
      BY <1>1, <1>5 DEF HolderPC, Changed
    <3> QED
      BY <1>2, <3>1, HolderSame
  <2> QED
    BY <2>1 DEF Holder
<1>14. Holder[k] = u
  BY <1>1, <1>2, <1>3, HolderIs DEF Holder, HolderPC
<1>15. BS!Update(u, k, d)
  BY <1>12, <1>13, <1>14 DEF BS!Update, Val, Value, Holder, HolderOf
<1>16. StoreInv'
  BY <1>6, <1>7, <1>8, <1>9 DEF StoreInv
<1> QED
  BY <1>15, <1>16

\* bwrite(), of the caller or of install_trans().
LEMMA WriteKeeps ==
    ASSUME CacheInv, CacheInv', StoreInv, NEW u \in User, pc[u] \in HolderPC,
           NEW l \in HolderPC, pc' = [pc EXCEPT ![u] = l],
           disk' = [disk EXCEPT ![blockno[mine[u]]] = data[mine[u]]],
           UNCHANGED <<blockno, valid, data, pinned, want, mine>>
    PROVE  StoreInv' /\ UNCHANGED BS!bsvars
<1> DEFINE i == mine[u]
           k == want[u]
<1>2. StoreTypes /\ Types /\ FilledBuffers /\ CleanBuffers /\ WrittenUnpins
  BY DEF StoreInv, CacheInv
<1>3. i \in Buf /\ k \in BlockNo /\ blockno[i] = k
  BY <1>2, MineIs DEF HolderPC
<1>4. pc'[u] = l /\ \A v \in User : v # u => pc'[v] = pc[v]
  BY <1>2 DEF Types
<1>5. /\ disk'[k] = data[i]
      /\ \A j \in Buf : j # i /\ blockno[j] \in BlockNo
                            => disk'[blockno[j]] = disk[blockno[j]]
  <2>1. disk'[k] = data[i] /\ \A m \in BlockNo : m # k => disk'[m] = disk[m]
    BY <1>2, <1>3 DEF StoreTypes
  <2>2. \A j \in Buf : j # i => blockno[j] # k
    BY <1>3, BcacheAssumption DEF CacheInv, OneBufferPerBlock
  <2> QED
    BY <2>1, <2>2
<1>6. StoreTypes' /\ FilledBuffers' /\ UNCHANGED BS!bsvars
  <2>1. pc' = [pc EXCEPT ![u] = pc'[u]] /\ pc'[u] \in HolderPC
    BY <1>4
  <2> QED
    BY <2>1, SameHolder
<1>7. CleanBuffers'
  <2> SUFFICES ASSUME NEW j \in Buf, valid[j], j \notin pinned,
                      \A v \in User : pc'[v] \in Changed => mine[v] # j
               PROVE  data[j] = disk'[blockno[j]]
    BY DEF CleanBuffers
  <2>1. CASE j = i
    BY <1>3, <1>5, <2>1
  <2>2. CASE j # i
    <3>1. \A v \in User : pc[v] \in Changed => mine[v] # j
      BY <1>4, <2>2
    <3>2. blockno[j] \in BlockNo
      BY <1>2 DEF StoreTypes
    <3> QED
      BY <1>2, <1>5, <2>2, <3>1, <3>2 DEF CleanBuffers
  <2> QED
    BY <2>1, <2>2
<1>8. WrittenUnpins'
  <2> SUFFICES ASSUME NEW v \in User, pc'[v] = "unpin"
               PROVE  data[mine[v]] = disk'[blockno[mine[v]]]
    BY DEF WrittenUnpins
  <2>1. CASE v = u
    BY <1>3, <1>5, <2>1
  <2>2. CASE v # u
    <3>1. pc[v] = "unpin"
      BY <1>4, <2>2
    <3>2. mine[v] \in Buf /\ blockno[mine[v]] \in BlockNo
      BY <1>2, <3>1, MineIs
    <3>3. mine[v] # i
      BY <2>2, <3>1, OtherBuffer DEF Holding, HolderPC
    <3> QED
      BY <1>2, <1>5, <3>1, <3>2, <3>3 DEF WrittenUnpins
  <2> QED
    BY <2>1, <2>2
<1> QED
  BY <1>6, <1>7, <1>8 DEF StoreInv

LEMMA PinKeeps ==
    ASSUME CacheInv, CacheInv', StoreInv, NEW u \in User, LogWrite(u)
    PROVE  StoreInv' /\ UNCHANGED BS!bsvars
<1>1. /\ pc[u] = "dirty" /\ pc' = [pc EXCEPT ![u] = "have"]
      /\ pinned' = pinned \union {mine[u]}
      /\ UNCHANGED <<blockno, valid, data, disk, want, mine>>
  BY DEF LogWrite, Goto
<1>2. StoreTypes /\ Types /\ FilledBuffers /\ CleanBuffers /\ WrittenUnpins
  BY DEF StoreInv, CacheInv
<1>3. pc'[u] = "have" /\ \A v \in User : v # u => pc'[v] = pc[v]
  BY <1>1, <1>2 DEF Types
<1>4. StoreTypes' /\ FilledBuffers' /\ UNCHANGED BS!bsvars
  <2>1. pc' = [pc EXCEPT ![u] = pc'[u]] /\ pc[u] \in HolderPC /\ pc'[u] \in HolderPC
    BY <1>1, <1>3 DEF HolderPC
  <2> QED
    BY <1>1, <2>1, SameHolder
<1>5. CleanBuffers'
  <2> SUFFICES ASSUME NEW j \in Buf, valid[j], j \notin pinned',
                      \A v \in User : pc'[v] \in Changed => mine[v] # j
               PROVE  data[j] = disk[blockno[j]]
    BY <1>1 DEF CleanBuffers
  <2>1. j \notin pinned /\ j # mine[u]
    BY <1>1
  <2>2. \A v \in User : pc[v] \in Changed => mine[v] # j
    BY <1>3, <2>1
  <2> QED
    BY <1>2, <2>1, <2>2 DEF CleanBuffers
<1>6. WrittenUnpins'
  BY <1>1, <1>2, <1>3 DEF WrittenUnpins
<1> QED
  BY <1>4, <1>5, <1>6 DEF StoreInv

LEMMA UnpinKeeps ==
    ASSUME CacheInv, CacheInv', StoreInv, NEW u \in User, Bunpin(u)
    PROVE  StoreInv' /\ UNCHANGED BS!bsvars
<1>1. /\ pc[u] = "unpin" /\ pc' = [pc EXCEPT ![u] = "have"]
      /\ pinned' = pinned \ {mine[u]}
      /\ UNCHANGED <<blockno, valid, data, disk, want, mine>>
  BY DEF Bunpin, Goto
<1>2. StoreTypes /\ Types /\ FilledBuffers /\ CleanBuffers /\ WrittenUnpins
  BY DEF StoreInv, CacheInv
<1>3. pc'[u] = "have" /\ \A v \in User : v # u => pc'[v] = pc[v]
  BY <1>1, <1>2 DEF Types
<1>4. StoreTypes' /\ FilledBuffers' /\ UNCHANGED BS!bsvars
  <2>1. pc' = [pc EXCEPT ![u] = pc'[u]] /\ pc[u] \in HolderPC /\ pc'[u] \in HolderPC
    BY <1>1, <1>3 DEF HolderPC
  <2> QED
    BY <1>1, <2>1, SameHolder
<1>5. CleanBuffers'
  <2> SUFFICES ASSUME NEW j \in Buf, valid[j], j \notin pinned',
                      \A v \in User : pc'[v] \in Changed => mine[v] # j
               PROVE  data[j] = disk[blockno[j]]
    BY <1>1 DEF CleanBuffers
  <2>1. CASE j = mine[u]
    BY <1>1, <1>2, <2>1 DEF WrittenUnpins
  <2>2. CASE j # mine[u]
    <3>1. j \notin pinned /\ \A v \in User : pc[v] \in Changed => mine[v] # j
      BY <1>1, <1>3, <2>2
    <3> QED
      BY <1>2, <3>1 DEF CleanBuffers
  <2> QED
    BY <2>1, <2>2
<1>6. WrittenUnpins'
  BY <1>1, <1>2, <1>3 DEF WrittenUnpins
<1> QED
  BY <1>4, <1>5, <1>6 DEF StoreInv

\* brelse() lets go of the block.
LEMMA UnlockDrops ==
    ASSUME CacheInv, CacheInv', StoreInv, NEW u \in User, Unlock(u),
           NEW k \in BlockNo, want[u] = k
    PROVE  StoreInv' /\ BS!Drop(u, k)
<1>1. /\ pc[u] = "have" /\ pc' = [pc EXCEPT ![u] = "put"]
      /\ UNCHANGED <<blockno, valid, data, disk, pinned, want, mine>>
  BY DEF Unlock, Goto
<1>2. StoreTypes /\ Types /\ FilledBuffers /\ CleanBuffers /\ WrittenUnpins
  BY DEF StoreInv, CacheInv
<1>3. pc'[u] = "put" /\ \A v \in User : v # u => pc'[v] = pc[v]
  BY <1>1, <1>2 DEF Types
<1>4. StoreTypes' /\ FilledBuffers' /\ WrittenUnpins'
  BY <1>1, <1>2, <1>3 DEF StoreTypes, FilledBuffers, WrittenUnpins, HolderPC
<1>5. CleanBuffers'
  <2>1. \A v \in User : pc[v] \in Changed => pc'[v] \in Changed
    BY <1>1, <1>3 DEF Changed
  <2> QED
    BY <1>1, <1>2, <2>1 DEF CleanBuffers
<1>6. Val' = Val
  BY <1>1 DEF Val
<1>7. HolderOf(pc, want, k) = u
  BY <1>1, <1>2, HolderIs DEF HolderPC
<1>8. HolderOf(pc', want', k) = None
  <2>1. \A v \in User : ~(pc'[v] \in HolderPC /\ want'[v] = k)
    <3> SUFFICES ASSUME NEW v \in User, pc'[v] \in HolderPC, want'[v] = k
                 PROVE  FALSE
      OBVIOUS
    <3>1. v # u
      BY <1>3 DEF HolderPC
    <3>2. pc[v] \in HolderPC /\ want[v] = k
      BY <1>1, <1>3, <3>1
    <3> QED
      BY <1>1, <1>2, <3>1, <3>2, OneHolder DEF HolderPC, Holding
  <2> QED
    BY <2>1, HolderAt
<1>9. ASSUME NEW m \in BlockNo, m # k
      PROVE  HolderOf(pc', want', m) = HolderOf(pc, want, m)
  <2>1. \A v \in User : pc'[v] \in HolderPC /\ want'[v] = m
                           <=> pc[v] \in HolderPC /\ want[v] = m
    BY <1>1, <1>3, <1>9
  <2> QED
    BY <1>2, <2>1, HolderSame
<1>10. Holder[k] = u /\ Holder' = [Holder EXCEPT ![k] = None]
  BY <1>7, <1>8, <1>9 DEF Holder
<1>11. BS!Drop(u, k)
  BY <1>6, <1>10 DEF BS!Drop, Val, Value, Holder, HolderOf
<1>12. StoreInv'
  BY <1>4, <1>5 DEF StoreInv
<1> QED
  BY <1>11, <1>12

\* bget() recycles a buffer: what it held is on the disk, and the block it is
\* for was in no other.
LEMMA MissKeeps ==
    ASSUME CacheInv, CacheInv', StoreInv, NEW u \in User, NEW k \in BlockNo,
           BgetMiss(u, k)
    PROVE  StoreInv' /\ UNCHANGED BS!bsvars
<1>1. PICK n \in Buf : /\ LeastRecent(n)
                       /\ blockno' = [blockno EXCEPT ![lru[n]] = k]
                       /\ valid' = [valid EXCEPT ![lru[n]] = FALSE]
                       /\ mine' = [mine EXCEPT ![u] = lru[n]]
  BY DEF BgetMiss, StaleFlag
<1>2. /\ pc[u] = "idle" /\ pc' = [pc EXCEPT ![u] = "lock"]
      /\ want' = [want EXCEPT ![u] = k]
      /\ \A j \in Buf : blockno[j] # k
      /\ UNCHANGED <<data, disk, pinned>>
  BY DEF BgetMiss, MayAsk, Cached, Goto
<1>3. StoreTypes /\ Types /\ FilledBuffers /\ CleanBuffers /\ WrittenUnpins
  BY DEF StoreInv, CacheInv
<1>4. PICK i \in Buf : i = lru[n]
  BY <1>1, <1>3 DEF Types
<1>5. i \notin pinned /\ \A v \in User : mine[v] # i
  BY <1>1, <1>4, ReusableIsUnused DEF LeastRecent
<1>6. /\ blockno'[i] = k /\ ~valid'[i]
      /\ \A j \in Buf : j # i => blockno'[j] = blockno[j] /\ valid'[j] = valid[j]
      /\ valid' \in [Buf -> BOOLEAN]
  BY <1>1, <1>3, <1>4 DEF Types, StoreTypes
<1>7. /\ pc'[u] = "lock" /\ want'[u] = k
      /\ \A v \in User : v # u => /\ pc'[v] = pc[v] /\ want'[v] = want[v]
                                 /\ mine'[v] = mine[v] /\ mine[v] # i
  BY <1>1, <1>2, <1>3, <1>5 DEF Types
<1>8. StoreTypes'
  BY <1>2, <1>3, <1>6, <1>7 DEF StoreTypes
<1>9. \A v \in User : pc'[v] \in HolderPC =>
          /\ v # u /\ pc[v] \in HolderPC /\ mine'[v] = mine[v]
          /\ mine[v] \in Buf /\ mine[v] # i
  BY <1>3, <1>7, MineIs DEF HolderPC
<1>10. FilledBuffers'
  <2> SUFFICES ASSUME NEW v \in User, pc'[v] \in HolderPC
               PROVE  valid'[mine'[v]]
    BY DEF FilledBuffers, HolderPC
  <2> QED
    BY <1>3, <1>6, <1>9 DEF FilledBuffers
<1>11. CleanBuffers'
  <2> SUFFICES ASSUME NEW j \in Buf, valid'[j], j \notin pinned,
                      \A v \in User : pc'[v] \in Changed => mine'[v] # j
               PROVE  data[j] = disk[blockno'[j]]
    BY <1>2 DEF CleanBuffers
  <2>1. j # i /\ valid[j] /\ blockno'[j] = blockno[j]
    BY <1>6
  <2>2. \A v \in User : pc[v] \in Changed => mine[v] # j
    BY <1>2, <1>7 DEF Changed
  <2> QED
    BY <1>3, <2>1, <2>2 DEF CleanBuffers
<1>12. WrittenUnpins'
  <2> SUFFICES ASSUME NEW v \in User, pc'[v] = "unpin"
               PROVE  data[mine'[v]] = disk[blockno'[mine'[v]]]
    BY <1>2 DEF WrittenUnpins
  <2>1. v # u /\ pc[v] = "unpin"
    BY <1>7
  <2> QED
    BY <1>3, <1>6, <1>9, <2>1 DEF WrittenUnpins, HolderPC
<1>13. Val' = Val
  <2>1. ASSUME NEW m \in BlockNo
        PROVE  Value(blockno', valid', data', disk', m)
                   = Value(blockno, valid, data, disk, m)
    <3>1. CASE m = k
      <4>1. Value(blockno, valid, data, disk, m) = disk[m]
        BY <1>2, <3>1, ValueNow
      <4>2. Value(blockno', valid', data', disk', m) = disk'[m]
        BY <1>6, <3>1, ValueThen
      <4> QED
        BY <1>2, <4>1, <4>2
    <3>2. CASE m # k /\ blockno[i] = m
      <4>1. Value(blockno, valid, data, disk, m) = IF valid[i] THEN data[i] ELSE disk[m]
        BY <3>2, ValueNow
      <4>2. valid[i] => data[i] = disk[m]
        BY <1>3, <1>5, <3>2 DEF CleanBuffers
      <4>3. \A j \in Buf : blockno'[j] # m
        BY <1>6, <3>2, BcacheAssumption DEF CacheInv, OneBufferPerBlock
      <4>4. Value(blockno', valid', data', disk', m) = disk'[m]
        BY <4>3, ValueThen
      <4> QED
        BY <1>2, <4>1, <4>2, <4>4
    <3>3. ASSUME m # k, NEW j \in Buf, j # i, blockno[j] = m
          PROVE  Value(blockno', valid', data', disk', m)
                     = Value(blockno, valid, data, disk, m)
      <4>1. Value(blockno, valid, data, disk, m) = IF valid[j] THEN data[j] ELSE disk[m]
        BY <3>3, ValueNow
      <4>2. blockno'[j] = m /\ valid'[j] = valid[j]
        BY <1>6, <3>3
      <4>3. Value(blockno', valid', data', disk', m)
                = IF valid'[j] THEN data'[j] ELSE disk'[m]
        BY <4>2, ValueThen
      <4> QED
        BY <1>2, <4>1, <4>2, <4>3
    <3>4. CASE m # k /\ \A j \in Buf : blockno[j] # m
      <4>1. Value(blockno, valid, data, disk, m) = disk[m]
        BY <3>4, ValueNow
      <4>2. \A j \in Buf : blockno'[j] # m
        BY <1>6, <3>4
      <4>3. Value(blockno', valid', data', disk', m) = disk'[m]
        BY <4>2, ValueThen
      <4> QED
        BY <1>2, <4>1, <4>3
    <3> QED
      BY <3>1, <3>2, <3>3, <3>4
  <2> QED
    BY <2>1 DEF Val
<1>14. Holder' = Holder
  <2>1. ASSUME NEW m \in BlockNo
        PROVE  HolderOf(pc', want', m) = HolderOf(pc, want, m)
    <3>1. \A v \in User : pc'[v] \in HolderPC /\ want'[v] = m
                             <=> pc[v] \in HolderPC /\ want[v] = m
      BY <1>2, <1>7 DEF HolderPC
    <3> QED
      BY <1>3, <3>1, HolderSame
  <2> QED
    BY <2>1 DEF Holder
<1> QED
  BY <1>8, <1>10, <1>11, <1>12, <1>13, <1>14
     DEF StoreInv, BS!bsvars, Val, Value, Holder, HolderOf

\* Every step is one of a block's variable, or changes none of them.
LEMMA NextStore ==
    ASSUME CacheInv, StoreInv, [Next]_vars
    PROVE  StoreInv' /\ [BS!BSNext]_BS!bsvars
<1>i. CacheInv'
  BY NextCacheInv
<1>t. StoreTypes /\ Types
  BY DEF StoreInv, CacheInv
<1>w. \A u \in User : pc[u] # "idle" => want[u] \in BlockNo
  BY <1>t DEF StoreTypes
<1>1. ASSUME NEW u \in User, NEW k \in BlockNo, BgetHit(u, k)
      PROVE  StoreInv' /\ UNCHANGED BS!bsvars
  <2>1. /\ pc[u] = "idle" /\ pc'[u] = "lock" /\ want'[u] = k
        /\ \A v \in User : v # u => /\ pc'[v] = pc[v] /\ want'[v] = want[v]
                                   /\ mine'[v] = mine[v]
        /\ UNCHANGED <<valid, data, disk, blockno, pinned>>
    BY <1>1, <1>t DEF BgetHit, MayAsk, Goto, Types
  <2> QED
    BY <2>1, AwayStep DEF HolderPC
<1>2. ASSUME NEW u \in User, NEW k \in BlockNo, BgetPanic(u, k)
      PROVE  StoreInv' /\ UNCHANGED BS!bsvars
  <2>1. UNCHANGED <<valid, data, disk, blockno, pinned, pc, want, mine>>
    BY <1>2 DEF BgetPanic
  <2> QED
    BY <2>1, AwayStep
<1>3. ASSUME NEW u \in User, Lock(u)
      PROVE  StoreInv' /\ UNCHANGED BS!bsvars
  <2>1. /\ pc[u] = "lock" /\ pc'[u] = "locked" /\ want'[u] \in BlockNo
        /\ \A v \in User : v # u => pc'[v] = pc[v]
        /\ UNCHANGED <<valid, data, disk, blockno, pinned, want, mine>>
    BY <1>3, <1>t, <1>w DEF Lock, Goto, Types
  <2> QED
    BY <2>1, AwayStep DEF HolderPC
<1>4. ASSUME NEW u \in User, Put(u)
      PROVE  StoreInv' /\ UNCHANGED BS!bsvars
  <2>1. /\ pc[u] = "put" /\ pc'[u] = "idle"
        /\ \A v \in User : v # u => /\ pc'[v] = pc[v] /\ want'[v] = want[v]
                                   /\ mine'[v] = mine[v]
        /\ UNCHANGED <<valid, data, disk, blockno, pinned>>
    BY <1>4, <1>t DEF Put, Goto, Types
  <2> QED
    BY <2>1, AwayStep DEF HolderPC
<1>5. ASSUME NEW u \in User, NEW l \in {"have", "unpin"}, pc[u] \in HolderPC,
             pc' = [pc EXCEPT ![u] = l],
             disk' = [disk EXCEPT ![blockno[mine[u]]] = data[mine[u]]],
             UNCHANGED <<blockno, valid, data, pinned, want, mine>>
      PROVE  StoreInv' /\ UNCHANGED BS!bsvars
  BY <1>i, <1>5, WriteKeeps DEF HolderPC
<1>6. ASSUME NEW u \in User, Bwrite(u) \/ InstallWrite(u)
      PROVE  StoreInv' /\ UNCHANGED BS!bsvars
  BY <1>5, <1>6 DEF Bwrite, InstallWrite, Goto, HolderPC
<1>7. ASSUME NEW u \in User, Fill(u)
      PROVE  StoreInv' /\ BS!BSNext
  <2>1. PICK k \in BlockNo : want[u] = k
    BY <1>7, <1>w DEF Fill
  <2>2. StoreInv' /\ BS!Hold(u, k)
    BY <1>i, <1>7, <2>1, FillHolds
  <2> QED
    BY <2>2 DEF BS!BSNext
<1>8. ASSUME NEW u \in User, NEW d \in Data, NEW l \in Changed, pc[u] = "have",
             Goto(u, l), data' = [data EXCEPT ![mine[u]] = d],
             UNCHANGED <<blockno, valid, disk, pinned, want, mine>>
      PROVE  StoreInv' /\ BS!BSNext
  <2>1. PICK k \in BlockNo : want[u] = k
    BY <1>8, <1>w
  <2>2. StoreInv' /\ BS!Update(u, k, d)
    BY <1>i, <1>8, <2>1, ModifyUpdates
  <2> QED
    BY <2>2 DEF BS!BSNext
<1>12. ASSUME NEW u \in User, NEW d \in Data, Modify(u, d)
       PROVE  StoreInv' /\ BS!BSNext
  BY <1>8, <1>12 DEF Modify, Changed
<1>13. ASSUME NEW u \in User, Copy(u)
       PROVE  StoreInv' /\ BS!BSNext
  <2>1. PICK v \in User : pc[v] = "have" /\ data' = [data EXCEPT ![mine[u]] = data[mine[v]]]
    BY <1>13 DEF Copy, Others
  <2>2. data[mine[v]] \in Data
    BY <2>1, MineIs DEF StoreInv, StoreTypes
  <2> QED
    BY <1>8, <1>13, <2>1, <2>2 DEF Copy, Changed
<1>9. ASSUME NEW u \in User, Unlock(u)
      PROVE  StoreInv' /\ BS!BSNext
  <2>1. PICK k \in BlockNo : want[u] = k
    BY <1>9, <1>w DEF Unlock
  <2>2. StoreInv' /\ BS!Drop(u, k)
    BY <1>i, <1>9, <2>1, UnlockDrops
  <2> QED
    BY <2>2 DEF BS!BSNext
<1>10. CASE UNCHANGED vars
  <2>1. UNCHANGED <<valid, data, disk, blockno, pinned, pc, want, mine>>
    BY <1>10 DEF vars
  <2> QED
    BY <2>1, AwayStep
<1>11. CASE Next
  BY <1>i, <1>11, <1>1, <1>2, <1>3, <1>4, <1>6, <1>7, <1>12, <1>13, <1>9, MissKeeps,
     PinKeeps, UnpinKeeps DEF Next
<1> QED
  BY <1>10, <1>11

\* bread() gives a block's last contents to one process at a time, through
\* any recycling of buffers, writing back and pinning.
THEOREM BlocksCoherent == Spec => CoherentBlocks
<1>1. Init => StoreInv /\ BS!BSInit
  BY InitStore
<1>2. CacheInv /\ StoreInv /\ [Next]_vars => StoreInv' /\ [BS!BSNext]_BS!bsvars
  BY NextStore
<1> QED
  BY <1>1, <1>2, CacheInvariant, PTL DEF Spec, CoherentBlocks, BS!BSSpec
=============================================================================
