----------------------------- MODULE LogProofs -----------------------------
(***************************************************************************)
(* Proofs about module Log, for every value of its constants.              *)
(***************************************************************************)
EXTENDS Log, FiniteSetTheorems, SequenceTheorems, TLAPS

-----------------------------------------------------------------------------
(* The inductive invariant.                                                *)

\* log.outstanding and log.committing describe what the processes are doing:
\* the calls in progress are counted exactly, and the process in commit()
\* is alone, with no call in progress beside it.
Control ==
    /\ outstanding = Cardinality(InOp)
    /\ committing => InOp = {}
    /\ \A p \in Proc : pc[p] \in CommitPC => committing
    /\ \A p, q \in Proc : pc[p] \in CommitPC /\ pc[q] \in CommitPC => p = q
    /\ \A p \in Proc : pc[p] = "modified" => buf[p] \in Block
    /\ phase \in {"read_head", "install"} => \A p \in Proc : pc[p] = "idle"

\* The log space accounting, with what ties a call's writes to the header.
Space ==
    /\ \A p \in Proc : IsFiniteSet(wrote[p])
    /\ \A p \in InOp : wrote[p] \subseteq RangeOf(lh)
    /\ \A p \in Proc : pc[p] = "modified" =>
          Cardinality(wrote[p] \union {buf[p]}) <= OpBlocks
    /\ LogReservation

IndInv == TypeOK /\ Control /\ Space
-----------------------------------------------------------------------------
(* Counting the calls in progress.                                         *)

LEMMA InOpFinite == IsFiniteSet(InOp) /\ Cardinality(InOp) \in Nat
  <1>1. InOp \in SUBSET Proc
    BY DEF InOp
  <1> QED
    BY <1>1, LogAssumption, FS_Subset, FS_CardinalityType

LEMMA InOpNonEmpty ==
  ASSUME NEW p \in InOp
  PROVE  /\ Cardinality(InOp) >= 1
         /\ Cardinality(InOp) = 1 => InOp = {p}
  <1>1. IsFiniteSet(InOp) /\ Cardinality(InOp) \in Nat
    BY InOpFinite
  <1>2. Cardinality(InOp) # 0
    BY <1>1, FS_EmptySet
  <1>3. ASSUME Cardinality(InOp) = 1 PROVE InOp = {p}
    BY <1>1, <1>3, FS_Singleton
  <1> QED
    BY <1>1, <1>2, <1>3
-----------------------------------------------------------------------------
(* Type correctness.                                                       *)

LEMMA InitType == Init => TypeOK
  <1> SUFFICES ASSUME Init PROVE TypeOK
    OBVIOUS
  <1>1. committing \in BOOLEAN
    BY DEF Init
  <1>2. pc \in [Proc -> PC]
    BY DEF Init, PC
  <1> QED
    BY <1>1, <1>2, LogAssumption, EmptySeq DEF Init, TypeOK

LEMMA TypeStep == TypeOK /\ Control /\ [Next]_vars => TypeOK'
  <1> SUFFICES ASSUME TypeOK, Control, [Next]_vars
               PROVE  TypeOK'
    OBVIOUS
  <1> USE LogAssumption DEF TypeOK, diskVars, bufVars, logVars, opVars,
          syncVars, PC, OpPC, CommitPC, SyncPC, Goto, Wakeup
  <1>1. CASE ReadHead
    BY <1>1 DEF ReadHead
  <1>2. CASE RecoverInstall
    BY <1>2 DEF RecoverInstall, InstallBlock
  <1>3. CASE RecoverErase
    BY <1>3 DEF RecoverErase, EraseLog
  <1>4. CASE Crash
    <2>1. committing' \in BOOLEAN
      BY <1>4 DEF Crash
    <2> QED
      BY <1>4, <2>1 DEF Crash
  <1>5. ASSUME NEW b \in Block, Load(b)
        PROVE  TypeOK'
    BY <1>5 DEF Load
  <1>6. ASSUME NEW b \in Block, Evict(b)
        PROVE  TypeOK'
    BY <1>6 DEF Evict
  <1>7. ASSUME NEW p \in Proc, CallBeginOp(p)
        PROVE  TypeOK'
    BY <1>7 DEF CallBeginOp
  <1>8. ASSUME NEW p \in Proc, BeginOpWait(p)
        PROVE  TypeOK'
    BY <1>8 DEF BeginOpWait
  <1>9. ASSUME NEW p \in Proc, BeginOp(p)
        PROVE  TypeOK'
    BY <1>9 DEF BeginOp, CountIn
  <1>10. ASSUME NEW p \in Proc, NEW b \in Block, NEW v \in Data, Modify(p, b, v)
        PROVE  TypeOK'
    BY <1>10 DEF Modify
  <1>11. ASSUME NEW p \in Proc, LogWrite(p)
        PROVE  TypeOK'
    <2>1. buf[p] \in Block
      BY <1>11 DEF LogWrite, Control
    <2> QED
      BY <1>11, <2>1 DEF LogWrite, LogFull, PinLogged, Absorbed
  <1>12. ASSUME NEW p \in Proc, EndOp(p)
        PROVE  TypeOK'
    <2>1. outstanding >= 1
      BY <1>12, InOpNonEmpty DEF EndOp, Control, InOp
    <2>2. committing' \in BOOLEAN
      BY <1>12 DEF EndOp
    <2>3. pc' \in [Proc -> PC] /\ sleeping' \subseteq Proc
      BY <1>12 DEF EndOp
    <2> QED
      BY <1>12, <2>1, <2>2, <2>3 DEF EndOp
  <1>13. ASSUME NEW p \in Proc, Panic(p)
        PROVE  TypeOK'
    BY <1>13 DEF Panic
  <1>14. ASSUME NEW p \in Proc, Commit(p)
        PROVE  TypeOK'
    <2>1. /\ pc' \in [Proc -> PC]
          /\ pending' \subseteq Proc
          /\ owed' \in [Proc -> SUBSET Proc]
      BY <1>14 DEF Commit, Settled
    <2> QED
      BY <1>14, <2>1 DEF Commit
  <1>15. ASSUME NEW p \in Proc, WriteLog(p)
        PROVE  TypeOK'
    BY <1>15 DEF WriteLog, Bread
  <1>16. ASSUME NEW p \in Proc, WriteHead(p)
        PROVE  TypeOK'
    BY <1>16 DEF WriteHead, Settled, HeadOut
  <1>17. ASSUME NEW p \in Proc, Install(p)
        PROVE  TypeOK'
    BY <1>17 DEF Install, InstallBlock
  <1>18. ASSUME NEW p \in Proc, Erase(p)
        PROVE  TypeOK'
    BY <1>18 DEF Erase, EraseLog
  <1>19. ASSUME NEW p \in Proc, Finish(p)
        PROVE  TypeOK'
    <2>1. committing' \in BOOLEAN
      BY <1>19 DEF Finish
    <2> QED
      BY <1>19, <2>1 DEF Finish, CountCommit
  <1>20. ASSUME NEW p \in Proc, CallSync(p)
        PROVE  TypeOK'
    BY <1>20 DEF CallSync
  <1>21. ASSUME NEW p \in Proc, SyncWait(p)
        PROVE  TypeOK'
    BY <1>21 DEF SyncWait, SyncGoal
  <1>22. ASSUME NEW p \in Proc, SyncAgain(p)
        PROVE  TypeOK'
    BY <1>22 DEF SyncAgain
  <1>23. ASSUME NEW p \in Proc, SyncReturn(p)
        PROVE  TypeOK'
    BY <1>23 DEF SyncReturn
  <1>24. CASE UNCHANGED vars
    BY <1>24 DEF vars
  <1> QED
    BY <1>1, <1>2, <1>3, <1>4, <1>5, <1>6, <1>7, <1>8, <1>9, <1>10, <1>11,
       <1>12, <1>13, <1>14, <1>15, <1>16, <1>17, <1>18, <1>19, <1>20, <1>21,
       <1>22, <1>23, <1>24 DEF Next, Recovery, Step
-----------------------------------------------------------------------------
(* The control part.                                                       *)

LEMMA InitControl == Init => Control
  <1> SUFFICES ASSUME Init PROVE Control
    OBVIOUS
  <1>1. InOp = {}
    BY DEF Init, InOp, OpPC
  <1> QED
    BY <1>1, FS_EmptySet DEF Init, Control, CommitPC

LEMMA ControlStep == TypeOK /\ Control /\ [Next]_vars => Control'
  <1> SUFFICES ASSUME TypeOK, Control, [Next]_vars
               PROVE  Control'
    OBVIOUS
  <1> USE DEF diskVars, bufVars, logVars, opVars, syncVars, OpPC, CommitPC,
              SyncPC, Goto, Wakeup
  <1>a. pc \in [Proc -> PC] /\ buf \in [Proc -> Block \union {NoBlock}]
    BY DEF TypeOK
  \* Most steps leave the set of calls in progress alone.
  <1>b. ASSUME InOp' = InOp, outstanding' = outstanding
        PROVE  outstanding' = Cardinality(InOp')
    BY <1>b DEF Control
  <1>1. CASE ReadHead
    BY <1>1, <1>b DEF ReadHead, Control, InOp
  <1>2. CASE RecoverInstall
    BY <1>2, <1>b DEF RecoverInstall, Control, InOp
  <1>3. CASE RecoverErase
    BY <1>3, <1>b DEF RecoverErase, Control, InOp
  <1>4. CASE Crash
    <2>1. InOp' = {}
      BY <1>4 DEF Crash, InOp
    <2> QED
      BY <1>4, <2>1, FS_EmptySet DEF Crash, Control
  <1>5. ASSUME NEW b \in Block, Load(b)
        PROVE  Control'
    BY <1>5, <1>b DEF Load, Control, InOp
  <1>6. ASSUME NEW b \in Block, Evict(b)
        PROVE  Control'
    BY <1>6, <1>b DEF Evict, Control, InOp
  <1>7. ASSUME NEW p \in Proc, BeginOp(p)
        PROVE  Control'
    <2>1. p \notin InOp /\ InOp' = InOp \union {p}
      BY <1>7, <1>a DEF BeginOp, CountIn, InOp
    <2>2. outstanding' = Cardinality(InOp')
      BY <1>7, <2>1, InOpFinite, FS_AddElement DEF BeginOp, CountIn, Control
    <2> QED
      BY <1>7, <1>a, <2>2 DEF BeginOp, CountIn, Control
  <1>8. ASSUME NEW p \in Proc, NEW b \in Block, NEW v \in Data, Modify(p, b, v)
        PROVE  Control'
    <2>1. InOp' = InOp
      BY <1>8, <1>a DEF Modify, InOp
    <2> QED
      BY <1>8, <1>a, <1>b, <2>1 DEF Modify, Control
  <1>9. ASSUME NEW p \in Proc, EndOp(p)
        PROVE  Control'
    <2>1. p \in InOp /\ InOp' = InOp \ {p}
      BY <1>9, <1>a DEF EndOp, InOp
    <2>2. outstanding' = Cardinality(InOp')
      BY <1>9, <2>1, InOpFinite, FS_RemoveElement DEF EndOp, Control
    <2>3. committing' => InOp' = {}
      BY <1>9, <2>1, InOpNonEmpty DEF EndOp, Control
    <2> QED
      BY <1>9, <1>a, <2>2, <2>3 DEF EndOp, Control
  <1>10. ASSUME NEW p \in Proc, Finish(p)
         PROVE  Control'
    <2>1. InOp' = InOp
      BY <1>10, <1>a DEF Finish, InOp
    <2> QED
      BY <1>10, <1>a, <1>b, <2>1 DEF Finish, Control
  <1>11. ASSUME NEW p \in Proc, CallBeginOp(p)
         PROVE  Control'
    <2>1. InOp' = InOp
      BY <1>11, <1>a DEF CallBeginOp, InOp
    <2> QED
      BY <1>11, <1>a, <1>b, <2>1 DEF CallBeginOp, Control
  <1>12. ASSUME NEW p \in Proc, BeginOpWait(p)
         PROVE  Control'
    <2>1. InOp' = InOp
      BY <1>12, <1>a DEF BeginOpWait, InOp
    <2> QED
      BY <1>12, <1>a, <1>b, <2>1 DEF BeginOpWait, Control
  <1>13. ASSUME NEW p \in Proc, LogWrite(p)
         PROVE  Control'
    <2>1. InOp' = InOp
      BY <1>13, <1>a DEF LogWrite, InOp
    <2> QED
      BY <1>13, <1>a, <1>b, <2>1 DEF LogWrite, Control
  <1>14. ASSUME NEW p \in Proc, Panic(p)
         PROVE  Control'
    <2>1. InOp' = InOp
      BY <1>14, <1>a DEF Panic, InOp
    <2> QED
      BY <1>14, <1>a, <1>b, <2>1 DEF Panic, Control
  <1>15. ASSUME NEW p \in Proc, Commit(p)
         PROVE  Control'
    <2>1. InOp' = InOp
      BY <1>15, <1>a DEF Commit, InOp
    <2> QED
      BY <1>15, <1>a, <1>b, <2>1 DEF Commit, Control
  <1>16. ASSUME NEW p \in Proc, WriteLog(p)
         PROVE  Control'
    <2>1. InOp' = InOp
      BY <1>16, <1>a DEF WriteLog, InOp
    <2> QED
      BY <1>16, <1>a, <1>b, <2>1 DEF WriteLog, Control
  <1>17. ASSUME NEW p \in Proc, WriteHead(p)
         PROVE  Control'
    <2>1. InOp' = InOp
      BY <1>17, <1>a DEF WriteHead, InOp
    <2> QED
      BY <1>17, <1>a, <1>b, <2>1 DEF WriteHead, Control
  <1>18. ASSUME NEW p \in Proc, Install(p)
         PROVE  Control'
    <2>1. InOp' = InOp
      BY <1>18, <1>a DEF Install, InOp
    <2> QED
      BY <1>18, <1>a, <1>b, <2>1 DEF Install, Control, InstallBlock
  <1>19. ASSUME NEW p \in Proc, Erase(p)
         PROVE  Control'
    <2>1. InOp' = InOp
      BY <1>19, <1>a DEF Erase, InOp
    <2> QED
      BY <1>19, <1>a, <1>b, <2>1 DEF Erase, Control, EraseLog
  <1>20. ASSUME NEW p \in Proc, CallSync(p)
         PROVE  Control'
    <2>1. InOp' = InOp
      BY <1>20, <1>a DEF CallSync, InOp
    <2> QED
      BY <1>20, <1>a, <1>b, <2>1 DEF CallSync, Control
  <1>21. ASSUME NEW p \in Proc, SyncWait(p)
         PROVE  Control'
    <2>1. InOp' = InOp
      BY <1>21, <1>a DEF SyncWait, SyncGoal, InOp
    <2> QED
      BY <1>21, <1>a, <1>b, <2>1 DEF SyncWait, SyncGoal, Control
  <1>22. ASSUME NEW p \in Proc, SyncAgain(p)
         PROVE  Control'
    <2>1. InOp' = InOp
      BY <1>22, <1>a DEF SyncAgain, InOp
    <2> QED
      BY <1>22, <1>a, <1>b, <2>1 DEF SyncAgain, Control
  <1>23. ASSUME NEW p \in Proc, SyncReturn(p)
         PROVE  Control'
    <2>1. InOp' = InOp
      BY <1>23, <1>a DEF SyncReturn, InOp
    <2> QED
      BY <1>23, <1>a, <1>b, <2>1 DEF SyncReturn, Control
  <1>24. CASE UNCHANGED vars
    BY <1>24, <1>b DEF vars, Control, InOp
  <1> QED
    BY <1>1, <1>2, <1>3, <1>4, <1>5, <1>6, <1>7, <1>8, <1>9, <1>10, <1>11,
       <1>12, <1>13, <1>14, <1>15, <1>16, <1>17, <1>18, <1>19, <1>20, <1>21,
       <1>22, <1>23, <1>24 DEF Next, Recovery, Step
-----------------------------------------------------------------------------
(* The space accounting.                                                   *)

LEMMA TokenCount ==
  ASSUME NEW S \in SUBSET Proc, NEW w
  PROVE  /\ IsFiniteSet(Tokens(S, w))
         /\ Cardinality(Tokens(S, w)) \in Nat
         /\ Cardinality(Tokens(S, w)) <= Cardinality(S) * MAXOPBLOCKS
         /\ S = {} => Cardinality(Tokens(S, w)) = 0
  <1>1. /\ IsFiniteSet(1..MAXOPBLOCKS)
        /\ Cardinality(1..MAXOPBLOCKS) = MAXOPBLOCKS
    BY FS_Interval, LogAssumption
  <1>2. IsFiniteSet(S)
    BY LogAssumption, FS_Subset
  <1>3. /\ IsFiniteSet(S \X (1..MAXOPBLOCKS))
        /\ Cardinality(S \X (1..MAXOPBLOCKS)) = Cardinality(S) * MAXOPBLOCKS
    BY <1>1, <1>2, FS_Product
  <1>4. Tokens(S, w) \in SUBSET (S \X (1..MAXOPBLOCKS))
    BY DEF Tokens
  <1>5. S = {} => Tokens(S, w) = {}
    BY DEF Tokens
  <1> QED
    BY <1>3, <1>4, <1>5, FS_Subset, FS_CardinalityType, FS_EmptySet

LEMMA InitSpace == Init => Space
  <1> SUFFICES ASSUME Init PROVE Space
    OBVIOUS
  <1>1. InOp = {}
    BY DEF Init, InOp, OpPC
  <1>2. Cardinality(Reserved) = 0
    BY <1>1, TokenCount DEF Reserved
  <1>3. LogReservation
    BY <1>2, LogAssumption DEF Init, LogReservation
  <1> QED
    BY <1>1, <1>3, FS_EmptySet DEF Init, Space, OpPC

\* A step that leaves the calls, their writes and the header alone.
LEMMA SpaceUntouched ==
  ASSUME Space, InOp' = InOp, UNCHANGED <<wrote, lh>>,
         \A p \in Proc : pc'[p] = "modified" =>
             Cardinality(wrote[p] \union {buf'[p]}) <= OpBlocks
  PROVE  Space'
  <1>1. Reserved' = Reserved
    BY DEF Reserved, Tokens
  <1> QED
    BY <1>1 DEF Space, LogReservation

LEMMA SpaceStep == TypeOK /\ Control /\ Space /\ [Next]_vars => Space'
  <1> SUFFICES ASSUME TypeOK, Control, Space, [Next]_vars
               PROVE  Space'
    OBVIOUS
  <1> USE DEF diskVars, bufVars, logVars, opVars, syncVars, OpPC, CommitPC,
              SyncPC, Goto, Wakeup
  <1>a. pc \in [Proc -> PC] /\ buf \in [Proc -> Block \union {NoBlock}]
    BY DEF TypeOK
  <1>b. lh \in Seq(Block) /\ Len(lh) \in Nat
    BY LenProperties DEF TypeOK
  \* A step after which no call is in progress.
  <1>c. ASSUME InOp' = {}, Len(lh') \in Nat, Len(lh') <= LOGSIZE,
               \A p \in Proc : IsFiniteSet(wrote'[p])
        PROVE  Space'
    <2>0. Cardinality(Reserved') = 0
      BY <1>c, TokenCount DEF Reserved
    <2>1. LogReservation'
      BY <1>c, <2>0, LogAssumption DEF LogReservation
    <2>2. \A p \in Proc : pc'[p] # "modified"
      BY <1>c DEF InOp
    <2> QED
      BY <1>c, <2>1, <2>2 DEF Space
  <1>1. CASE ReadHead
    <2>1. InOp' = {}
      BY <1>1 DEF ReadHead, Control, InOp
    <2>2. Len(lh') \in Nat /\ Len(lh') <= LOGSIZE
      BY <1>1, LenProperties DEF ReadHead, TypeOK
    <2> QED
      BY <1>1, <1>c, <2>1, <2>2 DEF ReadHead, Space
  <1>2. CASE RecoverInstall
    <2>1. InOp' = InOp
      BY <1>2 DEF RecoverInstall, InOp
    <2> QED
      BY <1>2, <2>1, SpaceUntouched DEF RecoverInstall, Space
  <1>3. CASE RecoverErase
    <2>1. InOp' = {}
      BY <1>3 DEF RecoverErase, Control, InOp
    <2> QED
      BY <1>3, <1>c, <2>1, LogAssumption DEF RecoverErase, EraseLog, Space
  <1>4. CASE Crash
    <2>1. InOp' = {}
      BY <1>4 DEF Crash, InOp
    <2> QED
      BY <1>4, <1>c, <2>1, LogAssumption, FS_EmptySet DEF Crash
  <1>5. ASSUME NEW b \in Block, Load(b)
        PROVE  Space'
    <2>1. InOp' = InOp
      BY <1>5 DEF Load, InOp
    <2> QED
      BY <1>5, <2>1, SpaceUntouched DEF Load, Space
  <1>6. ASSUME NEW b \in Block, Evict(b)
        PROVE  Space'
    <2>1. InOp' = InOp
      BY <1>6 DEF Evict, InOp
    <2> QED
      BY <1>6, <2>1, SpaceUntouched DEF Evict, Space
  <1>7. ASSUME NEW p \in Proc, BeginOp(p)
        PROVE  Space'
    <2>1. p \notin InOp /\ InOp' = InOp \union {p}
      BY <1>7, <1>a DEF BeginOp, CountIn, InOp
    <2>2. Cardinality(InOp') = outstanding + 1
      BY <2>1, InOpFinite, FS_AddElement DEF Control
    <2>3. /\ Cardinality(Reserved') \in Nat
          /\ Cardinality(Reserved') <= Cardinality(InOp') * MAXOPBLOCKS
      BY <2>1, TokenCount DEF Reserved, InOp
    <2>4. lh' = lh
      BY <1>7 DEF BeginOp, CountIn
    <2>5. LogReservation'
      BY <1>7, <1>b, <2>2, <2>3, <2>4, LogAssumption
         DEF BeginOp, CountIn, NoRoom, LogReservation, TypeOK
    <2>6. /\ wrote' = [wrote EXCEPT ![p] = {}]
          /\ wrote \in [Proc -> SUBSET Block]
      BY <1>7 DEF BeginOp, CountIn, TypeOK
    <2>7. \A q \in Proc : IsFiniteSet(wrote'[q])
      BY <2>6, FS_EmptySet DEF Space
    <2>8. \A q \in InOp' : wrote'[q] \subseteq RangeOf(lh')
      BY <2>1, <2>4, <2>6 DEF Space, InOp, RangeOf
    <2>9. \A q \in Proc : pc'[q] = "modified" =>
             Cardinality(wrote'[q] \union {buf'[q]}) <= OpBlocks
      BY <1>7, <1>a, <2>6 DEF BeginOp, CountIn, Space
    <2> QED
      BY <2>5, <2>7, <2>8, <2>9 DEF Space
  <1>8. ASSUME NEW p \in Proc, NEW b \in Block, NEW v \in Data, Modify(p, b, v)
        PROVE  Space'
    <2>1. InOp' = InOp
      BY <1>8, <1>a DEF Modify, InOp
    <2>2. \A q \in Proc : pc'[q] = "modified" =>
             Cardinality(wrote[q] \union {buf'[q]}) <= OpBlocks
      BY <1>8, <1>a DEF Modify, Space
    <2> QED
      BY <1>8, <2>1, <2>2, SpaceUntouched DEF Modify
  <1>9. ASSUME NEW p \in Proc, LogWrite(p)
        PROVE  Space'
    <2> DEFINE b == buf[p]
               n == Cardinality(wrote[p])
    <2>1. InOp' = InOp /\ p \in InOp
      BY <1>9, <1>a DEF LogWrite, InOp
    <2>2. /\ wrote' = [wrote EXCEPT ![p] = @ \union {b}]
          /\ wrote \in [Proc -> SUBSET Block]
      BY <1>9 DEF LogWrite, TypeOK
    <2>3. b \in Block /\ Cardinality(wrote[p] \union {b}) <= OpBlocks
      BY <1>9 DEF LogWrite, Control, Space
    <2>4. /\ n \in Nat
          /\ IsFiniteSet(wrote[p] \union {b})
          /\ b \notin wrote[p] => Cardinality(wrote[p] \union {b}) = n + 1
      BY FS_CardinalityType, FS_AddElement DEF Space
    <2>5. /\ lh' \in Seq(Block)
          /\ Len(lh') = IF b \in RangeOf(lh) THEN Len(lh) ELSE Len(lh) + 1
          /\ RangeOf(lh') = RangeOf(lh) \union {b}
      <3>1. CASE b \in RangeOf(lh)
        BY <1>9, <1>b, <3>1 DEF LogWrite, Absorbed
      <3>2. CASE b \notin RangeOf(lh)
        <4>1. lh' = Append(lh, b)
          BY <1>9, <3>2 DEF LogWrite, Absorbed
        <4>2. /\ lh' \in Seq(Block)
              /\ Len(lh') = Len(lh) + 1
              /\ DOMAIN lh = 1..Len(lh)
              /\ DOMAIN lh' = 1..(Len(lh) + 1)
              /\ lh'[Len(lh) + 1] = b
              /\ \A i \in 1..Len(lh) : lh'[i] = lh[i]
          BY <1>b, <2>3, <4>1, AppendProperties, LenProperties
        <4> QED
          BY <1>b, <3>2, <4>2 DEF RangeOf
      <3> QED
        BY <3>1, <3>2
    <2>6. CASE b \in wrote[p]
      <3>1. wrote' = wrote
        BY <2>2, <2>6
      <3>2. Len(lh') = Len(lh)
        BY <2>1, <2>5, <2>6 DEF Space
      <3>3. LogReservation'
        BY <2>1, <3>1, <3>2 DEF LogReservation, Reserved, Space
      <3>4. \A q \in Proc : pc'[q] = "modified" =>
               Cardinality(wrote[q] \union {buf'[q]}) <= OpBlocks
        BY <1>9, <1>a DEF LogWrite, Space
      <3> QED
        BY <2>1, <2>5, <3>1, <3>3, <3>4 DEF Space
    <2>7. CASE b \notin wrote[p]
      <3> DEFINE t == <<p, n + 1>>
      <3>1. \A q \in Proc : q # p => wrote'[q] = wrote[q]
        BY <2>2
      <3>2. Cardinality(wrote'[p]) = n + 1
        BY <2>2, <2>4, <2>7
      <3>3. t \in Reserved
        BY <2>1, <2>3, <2>4, <2>7, LogAssumption DEF Reserved, Tokens
      <3>4. Reserved' \in SUBSET (Reserved \ {t})
        <4> SUFFICES ASSUME NEW u \in Reserved'
                     PROVE  u \in Reserved \ {t}
          OBVIOUS
        <4>1. /\ u \in InOp \X (1..MAXOPBLOCKS)
              /\ u[1] \in Proc
              /\ u[2] > Cardinality(wrote'[u[1]])
          BY <2>1 DEF Reserved, Tokens, InOp
        <4>2. CASE u[1] = p
          BY <2>4, <3>2, <4>1, <4>2 DEF Reserved, Tokens
        <4>3. CASE u[1] # p
          BY <3>1, <4>1, <4>3 DEF Reserved, Tokens
        <4> QED
          BY <4>2, <4>3
      <3>5. /\ IsFiniteSet(Reserved)
            /\ Cardinality(Reserved) \in Nat
        BY TokenCount DEF Reserved, InOp
      <3>6. /\ IsFiniteSet(Reserved \ {t})
            /\ Cardinality(Reserved \ {t}) = Cardinality(Reserved) - 1
        BY <3>3, <3>5, FS_RemoveElement
      <3>7. /\ Cardinality(Reserved') <= Cardinality(Reserved) - 1
            /\ Cardinality(Reserved') \in Nat
        BY <3>4, <3>6, FS_Subset, FS_CardinalityType
      <3>8. LogReservation'
        BY <1>b, <2>5, <3>5, <3>7, LogAssumption DEF LogReservation, Space
      <3>9. \A q \in Proc : IsFiniteSet(wrote'[q])
        BY <2>2, <2>4 DEF Space
      <3>10. \A q \in InOp' : wrote'[q] \subseteq RangeOf(lh')
        BY <2>1, <2>2, <2>5 DEF Space, InOp
      <3>11. \A q \in Proc : pc'[q] = "modified" =>
                Cardinality(wrote'[q] \union {buf'[q]}) <= OpBlocks
        BY <1>9, <1>a, <3>1 DEF LogWrite, Space
      <3> QED
        BY <3>8, <3>9, <3>10, <3>11 DEF Space
    <2> QED
      BY <2>6, <2>7
  <1>10. ASSUME NEW p \in Proc, EndOp(p)
         PROVE  Space'
    <2>1. InOp' \subseteq InOp /\ lh' = lh /\ wrote' = wrote /\ buf' = buf
      BY <1>10, <1>a DEF EndOp, InOp
    <2>2. Reserved' \in SUBSET Reserved
      BY <2>1 DEF Reserved, Tokens
    <2>3. /\ IsFiniteSet(Reserved)
          /\ Cardinality(Reserved) \in Nat
      BY TokenCount DEF Reserved, InOp
    <2>4. /\ Cardinality(Reserved') \in Nat
          /\ Cardinality(Reserved') <= Cardinality(Reserved)
      BY <2>2, <2>3, FS_Subset, FS_CardinalityType
    <2>5. LogReservation'
      BY <1>b, <2>1, <2>3, <2>4, LogAssumption DEF LogReservation, Space
    <2>6. \A q \in Proc : pc'[q] = "modified" => pc[q] = "modified"
      BY <1>10, <1>a DEF EndOp
    <2> QED
      BY <2>1, <2>5, <2>6 DEF Space
  <1>11. ASSUME NEW p \in Proc, Erase(p)
         PROVE  Space'
    <2>1. InOp' = {}
      BY <1>11, <1>a DEF Erase, Control, InOp
    <2> QED
      BY <1>11, <1>c, <2>1, LogAssumption DEF Erase, EraseLog, Space
  <1>12. ASSUME NEW p \in Proc, CallBeginOp(p)
         PROVE  Space'
    <2>1. InOp' = InOp
      BY <1>12, <1>a DEF CallBeginOp, InOp
    <2>2. \A q \in Proc : pc'[q] = "modified" => pc[q] = "modified"
      BY <1>12, <1>a DEF CallBeginOp
    <2> QED
      BY <1>12, <2>1, <2>2, SpaceUntouched DEF CallBeginOp, Space
  <1>13. ASSUME NEW p \in Proc, BeginOpWait(p)
         PROVE  Space'
    <2>1. InOp' = InOp
      BY <1>13, <1>a DEF BeginOpWait, InOp
    <2>2. \A q \in Proc : pc'[q] = "modified" => pc[q] = "modified"
      BY <1>13, <1>a DEF BeginOpWait
    <2> QED
      BY <1>13, <2>1, <2>2, SpaceUntouched DEF BeginOpWait, Space
  <1>14. ASSUME NEW p \in Proc, Panic(p)
         PROVE  Space'
    <2>1. InOp' = InOp
      BY <1>14, <1>a DEF Panic, InOp
    <2>2. \A q \in Proc : pc'[q] = "modified" => pc[q] = "modified"
      BY <1>14, <1>a DEF Panic
    <2> QED
      BY <1>14, <2>1, <2>2, SpaceUntouched DEF Panic, Space
  <1>15. ASSUME NEW p \in Proc, Commit(p)
         PROVE  Space'
    <2>1. InOp' = InOp
      BY <1>15, <1>a DEF Commit, InOp
    <2>2. \A q \in Proc : pc'[q] = "modified" => pc[q] = "modified"
      BY <1>15, <1>a DEF Commit
    <2> QED
      BY <1>15, <2>1, <2>2, SpaceUntouched DEF Commit, Space
  <1>16. ASSUME NEW p \in Proc, WriteLog(p)
         PROVE  Space'
    <2>1. InOp' = InOp
      BY <1>16, <1>a DEF WriteLog, InOp
    <2>2. \A q \in Proc : pc'[q] = "modified" => pc[q] = "modified"
      BY <1>16, <1>a DEF WriteLog
    <2> QED
      BY <1>16, <2>1, <2>2, SpaceUntouched DEF WriteLog, Space
  <1>17. ASSUME NEW p \in Proc, WriteHead(p)
         PROVE  Space'
    <2>1. InOp' = InOp
      BY <1>17, <1>a DEF WriteHead, InOp
    <2>2. \A q \in Proc : pc'[q] = "modified" => pc[q] = "modified"
      BY <1>17, <1>a DEF WriteHead
    <2> QED
      BY <1>17, <2>1, <2>2, SpaceUntouched DEF WriteHead, Space
  <1>18. ASSUME NEW p \in Proc, Install(p)
         PROVE  Space'
    <2>1. InOp' = InOp
      BY <1>18, <1>a DEF Install, InOp
    <2>2. \A q \in Proc : pc'[q] = "modified" => pc[q] = "modified"
      BY <1>18, <1>a DEF Install
    <2> QED
      BY <1>18, <2>1, <2>2, SpaceUntouched DEF Install, Space
  <1>19. ASSUME NEW p \in Proc, Finish(p)
         PROVE  Space'
    <2>1. InOp' = InOp
      BY <1>19, <1>a DEF Finish, InOp
    <2>2. \A q \in Proc : pc'[q] = "modified" => pc[q] = "modified"
      BY <1>19, <1>a DEF Finish
    <2> QED
      BY <1>19, <2>1, <2>2, SpaceUntouched DEF Finish, Space
  <1>20. ASSUME NEW p \in Proc, CallSync(p)
         PROVE  Space'
    <2>1. InOp' = InOp
      BY <1>20, <1>a DEF CallSync, InOp
    <2>2. \A q \in Proc : pc'[q] = "modified" => pc[q] = "modified"
      BY <1>20, <1>a DEF CallSync
    <2> QED
      BY <1>20, <2>1, <2>2, SpaceUntouched DEF CallSync, Space
  <1>21. ASSUME NEW p \in Proc, SyncWait(p)
         PROVE  Space'
    <2>1. InOp' = InOp
      BY <1>21, <1>a DEF SyncWait, SyncGoal, InOp
    <2>2. \A q \in Proc : pc'[q] = "modified" => pc[q] = "modified"
      BY <1>21, <1>a DEF SyncWait, SyncGoal
    <2> QED
      BY <1>21, <2>1, <2>2, SpaceUntouched DEF SyncWait, SyncGoal, Space
  <1>22. ASSUME NEW p \in Proc, SyncAgain(p)
         PROVE  Space'
    <2>1. InOp' = InOp
      BY <1>22, <1>a DEF SyncAgain, InOp
    <2>2. \A q \in Proc : pc'[q] = "modified" => pc[q] = "modified"
      BY <1>22, <1>a DEF SyncAgain
    <2> QED
      BY <1>22, <2>1, <2>2, SpaceUntouched DEF SyncAgain, Space
  <1>23. ASSUME NEW p \in Proc, SyncReturn(p)
         PROVE  Space'
    <2>1. InOp' = InOp
      BY <1>23, <1>a DEF SyncReturn, InOp
    <2>2. \A q \in Proc : pc'[q] = "modified" => pc[q] = "modified"
      BY <1>23, <1>a DEF SyncReturn
    <2> QED
      BY <1>23, <2>1, <2>2, SpaceUntouched DEF SyncReturn, Space
  <1>24. CASE UNCHANGED vars
    <2>1. InOp' = InOp
      BY <1>24 DEF vars, InOp
    <2> QED
      BY <1>24, <2>1, SpaceUntouched DEF vars, Space
  <1> QED
    BY <1>1, <1>2, <1>3, <1>4, <1>5, <1>6, <1>7, <1>8, <1>9, <1>10, <1>11,
       <1>12, <1>13, <1>14, <1>15, <1>16, <1>17, <1>18, <1>19, <1>20, <1>21,
       <1>22, <1>23, <1>24 DEF Next, Recovery, Step
-----------------------------------------------------------------------------
(* The theorems.                                                           *)

THEOREM IndInvariant == Spec => []IndInv
  <1>1. Init => IndInv
    BY InitType, InitControl, InitSpace DEF IndInv
  <1>2. IndInv /\ [Next]_vars => IndInv'
    BY TypeStep, ControlStep, SpaceStep DEF IndInv
  <1> QED
    BY <1>1, <1>2, PTL DEF Spec

\* Every variable of the log keeps its type; in particular log.outstanding
\* never goes negative and the in-memory and the on-disk header never list
\* more than LOGSIZE blocks.
THEOREM TypeCorrect == Spec => []TypeOK
  BY IndInvariant, PTL DEF IndInv

\* begin_op() admits no more calls than the log has room for.
THEOREM ReservationHolds == Spec => []LogReservation
  <1>1. IndInv => LogReservation
    BY DEF IndInv, Space
  <1> QED
    BY <1>1, IndInvariant, PTL

\* If every call dirties fewer than MAXOPBLOCKS blocks and the on-disk log
\* has room for a full header, neither log_write() nor end_op() ever panics.
THEOREM PanicFree ==
  ASSUME OpBlocks < MAXOPBLOCKS, NLOG > LOGSIZE
  PROVE  Spec => []NoPanic
  <1>1. ASSUME IndInv, NEW p \in Panicking PROVE FALSE
    <2>0. TypeOK /\ Control /\ Space /\ p \in Panicking
      BY <1>1 DEF IndInv
    <2>1. p \in Proc /\ pc[p] \in OpPC
      BY <2>0 DEF Panicking, OpPC
    <2>2. p \in InOp
      BY <2>1 DEF InOp
    <2>3. ~committing /\ outstanding >= 1
      BY <2>0, <2>2, InOpNonEmpty DEF Control
    <2>4. pc[p] = "modified" /\ LogFull
      BY <2>0, <2>2, <2>3 DEF Panicking, TypeOK
    <2>5. Cardinality(wrote[p]) \in Nat /\ Cardinality(wrote[p]) <= OpBlocks
      <3>1. IsFiniteSet(wrote[p]) /\ IsFiniteSet(wrote[p] \union {buf[p]})
        BY <2>0, <2>1, FS_AddElement DEF Space
      <3>2. wrote[p] \in SUBSET (wrote[p] \union {buf[p]})
        OBVIOUS
      <3>3. /\ Cardinality(wrote[p]) <= Cardinality(wrote[p] \union {buf[p]})
            /\ Cardinality(wrote[p]) \in Nat
            /\ Cardinality(wrote[p] \union {buf[p]}) \in Nat
        BY <3>1, <3>2, FS_Subset, FS_CardinalityType
      <3> QED
        BY <2>0, <2>1, <2>4, <3>3, LogAssumption DEF Space
    <2>6. <<p, MAXOPBLOCKS>> \in Reserved
      BY <2>2, <2>5, LogAssumption DEF Reserved, Tokens
    <2>7. /\ IsFiniteSet(Reserved)
          /\ Cardinality(Reserved) \in Nat
      BY TokenCount DEF Reserved, InOp
    <2>8. Cardinality(Reserved) >= 1
      BY <2>6, <2>7, FS_EmptySet
    <2>9. Len(lh) < LOGSIZE
      BY <2>0, <2>7, <2>8, LogAssumption, LenProperties DEF Space, LogReservation, TypeOK
    <2> QED
      BY <2>0, <2>4, <2>9, LogAssumption, LenProperties DEF LogFull, TypeOK
  <1>2. Init => NoPanic
    BY DEF Init, NoPanic
  <1>3. IndInv /\ NoPanic /\ [Next]_vars => NoPanic'
    <2> SUFFICES ASSUME IndInv, NoPanic, [Next]_vars
                 PROVE  NoPanic'
      OBVIOUS
    <2>1. ASSUME NEW p \in Proc, Panic(p) PROVE FALSE
      BY <1>1, <2>1 DEF Panic
    <2> QED
      BY <2>1 DEF NoPanic, Next, Recovery, Step, vars, ReadHead, RecoverInstall,
         RecoverErase, Crash, Load, Evict, CallBeginOp, BeginOpWait, BeginOp,
         Modify, LogWrite, EndOp, Commit, WriteLog, WriteHead, Install, Erase,
         Finish, CallSync, SyncWait, SyncAgain, SyncReturn
  <1> QED
    BY <1>2, <1>3, IndInvariant, PTL DEF Spec
-----------------------------------------------------------------------------
(***************************************************************************)
(* Crash atomicity, for any number of processes and blocks and any size of *)
(* the log: Log implements AtomicDisk, so a group commit survives a crash  *)
(* at any disk write, or a crash in recovery, whole or not at all; a       *)
(* logged block stays pinned until it is installed; sync() is durable.     *)
(*                                                                         *)
(* AtomicInv relates the four copies of a block, the home location, the    *)
(* log block, the buffer and the two headers that list it, to the progress *)
(* of commit() and of recover_from_log().                                  *)
(***************************************************************************)

Running == phase \in {"run", "panic"}

At(l) == \E p \in Proc : pc[p] = l

Distinct(s) == \A i, j \in DOMAIN s : s[i] = s[j] => i = j

\* The buffer of b, if it has one, agrees with its home location.
Clean(b) == cache[b] \in {NotCached, disk[b]}

\* No block is listed twice; the on-disk header is empty except while
\* install_trans() runs.
Headers ==
    /\ Distinct(lh)
    /\ Distinct(dhead)
    /\ phase = "install" => lh = dhead
    /\ Running => dhead = IF At("install") THEN lh ELSE <<>>
    /\ phase = "install" \/ At("install") \/ At("write_log") => tail <= Len(lh)

\* What the log's copies are copies of.
Copies ==
    /\ phase = "install" \/ At("install") =>
           \A k \in 1..tail : disk[lh[k]] = logblk[k]
    /\ At("install") => \A k \in (tail + 1)..Len(lh) : logblk[k] = cache[lh[k]]
    /\ At("write_log") => \A k \in 1..tail : logblk[k] = cache[lh[k]]

\* A buffer differs from its home location only while a call has it locked
\* or it is pinned, and then it stays in the cache.
Buffers ==
    /\ ~Running => \A b \in Block : Clean(b)
    /\ Running => \A b \in Block \ Unflushed :
                      (\A p \in Proc : buf[p] # b) => Clean(b)
    /\ Running => \A b \in Block \intersect Unflushed : cache[b] # NotCached
    /\ \A p \in Proc : buf[p] # NoBlock => pc[p] = "modified"
    /\ \A p \in Proc : pc[p] = "modified" => cache[buf[p]] # NotCached

\* bpin() and bunpin() balance.
Pins ==
    /\ ~Running => \A b \in Block : pin[b] = 0
    /\ PinnedUntilInstalled

\* A finished call that is not durable waits for a commit that is still to
\* come, and sync() waits for that commit.
Syncs ==
    /\ \A p \in Proc : owed[p] \subseteq pending
    /\ pending # {} => InOp # {} \/ At("commit") \/ At("write_log")
    /\ \A p \in Proc : pc[p] = "sync_wait" /\ owed[p] # {} => ncommit < target[p]

DataInv == Headers /\ Copies /\ Buffers /\ Pins

AtomicInv == DataInv /\ Syncs
-----------------------------------------------------------------------------
(* The copies of a block.                                                  *)

\* The process in commit() is the only one there, and no call is in progress.
LEMMA OnlyCommitter ==
    ASSUME TypeOK, Control, NEW p \in Proc, pc[p] \in CommitPC
    PROVE  \A q \in Proc \ {p} : pc[q] \notin CommitPC \union OpPC
BY DEF TypeOK, Control, InOp, CommitPC, OpPC

LEMMA NoCommitter ==
    ASSUME TypeOK, Control, NEW p \in Proc, pc[p] \in OpPC
    PROVE  \A q \in Proc : pc[q] \notin CommitPC
BY DEF TypeOK, Control, InOp, CommitPC, OpPC

LEMMA InitData == Init => DataInv
<1> SUFFICES ASSUME Init PROVE DataInv
  OBVIOUS
<1>1. ~Running /\ phase # "install" /\ \A l : At(l) => l = "idle"
  BY DEF Init, Running, At
<1>2. Headers
  BY <1>1 DEF Init, Headers, Distinct
<1>3. Copies
  BY <1>1 DEF Copies
<1>4. Buffers
  BY <1>1 DEF Init, Buffers, Clean
<1>5. Pins
  BY <1>1 DEF Init, Pins, PinnedUntilInstalled, Running
<1> QED
  BY <1>2, <1>3, <1>4, <1>5 DEF DataInv

\* A step of a call or of sync() that touches no copy and no header.
LEMMA DataUntouched ==
    ASSUME DataInv, UNCHANGED <<disk, logblk, dhead, cache, pin, lh, tail, buf>>,
           phase' = phase \/ (phase = "run" /\ phase' = "panic"),
           \A p \in Proc : \A l \in {"install", "write_log", "modified"} :
               pc'[p] = l <=> pc[p] = l
    PROVE  DataInv'
<1>1. /\ At("install")' <=> At("install")
      /\ At("write_log")' <=> At("write_log")
      /\ Running' <=> Running
      /\ (phase = "install")' <=> phase = "install"
  BY DEF At, Running
<1>2. Unflushed' = Unflushed
  BY <1>1 DEF Unflushed, At, RangeOf
<1>3. Headers'
  BY <1>1 DEF DataInv, Headers, Distinct
<1>4. Copies'
  BY <1>1 DEF DataInv, Copies
<1>5. Buffers'
  BY <1>1, <1>2 DEF DataInv, Buffers, Clean
<1>6. Pins'
  BY <1>1, <1>2 DEF DataInv, Pins, PinnedUntilInstalled, Running
<1> QED
  BY <1>3, <1>4, <1>5, <1>6 DEF DataInv

LEMMA DataQuiet ==
    ASSUME TypeOK, Control, DataInv, NEW p \in Proc,
           \/ CallBeginOp(p) \/ BeginOpWait(p) \/ BeginOp(p) \/ EndOp(p)
           \/ Panic(p) \/ Finish(p) \/ CallSync(p) \/ SyncWait(p)
           \/ SyncAgain(p) \/ SyncReturn(p)
    PROVE  DataInv'
<1> USE DEF TypeOK, diskVars, bufVars, logVars, opVars, Goto
<1>1. CASE CallBeginOp(p)
  BY <1>1, DataUntouched DEF CallBeginOp
<1>2. CASE BeginOpWait(p)
  BY <1>2, DataUntouched DEF BeginOpWait
<1>3. CASE BeginOp(p)
  BY <1>3, DataUntouched DEF BeginOp
<1>4. CASE EndOp(p)
  BY <1>4, DataUntouched DEF EndOp
<1>5. CASE Panic(p)
  BY <1>5, DataUntouched DEF Panic
<1>6. CASE Finish(p)
  BY <1>6, DataUntouched DEF Finish
<1>7. CASE CallSync(p)
  BY <1>7, DataUntouched DEF CallSync
<1>8. CASE SyncWait(p)
  BY <1>8, DataUntouched DEF SyncWait
<1>9. CASE SyncAgain(p)
  BY <1>9, DataUntouched DEF SyncAgain
<1>10. CASE SyncReturn(p)
  BY <1>10, DataUntouched DEF SyncReturn
<1> QED
  BY <1>1, <1>2, <1>3, <1>4, <1>5, <1>6, <1>7, <1>8, <1>9, <1>10

LEMMA DataCrash ==
    ASSUME TypeOK, DataInv, Crash
    PROVE  DataInv'
<1>1. ~Running' /\ phase' # "install" /\ ~At("install")' /\ ~At("write_log")'
  BY DEF Crash, Running, At
<1>2. Headers'
  BY <1>1 DEF Crash, diskVars, DataInv, Headers, Distinct
<1>3. Copies'
  BY <1>1 DEF Copies
<1>4. Buffers'
  BY <1>1 DEF Crash, Buffers, Clean
<1>5. Pins'
  BY <1>1 DEF Crash, Pins, PinnedUntilInstalled, Running
<1> QED
  BY <1>2, <1>3, <1>4, <1>5 DEF DataInv

LEMMA DataReadHead ==
    ASSUME TypeOK, Control, DataInv, ReadHead
    PROVE  DataInv'
<1>1. /\ ~Running /\ ~Running' /\ ~At("install")' /\ ~At("write_log")'
      /\ tail' = 0 /\ lh' = dhead /\ dhead' = dhead
  BY DEF ReadHead, Running, At, Control, diskVars
<1>2. Headers'
  BY <1>1, LenProperties DEF DataInv, Headers, Distinct, TypeOK
<1>3. Copies'
  BY <1>1 DEF Copies
<1>4. Buffers'
  BY <1>1 DEF ReadHead, bufVars, diskVars, opVars, DataInv, Buffers, Clean
<1>5. Pins'
  BY <1>1 DEF ReadHead, bufVars, DataInv, Pins, PinnedUntilInstalled, Running
<1> QED
  BY <1>2, <1>3, <1>4, <1>5 DEF DataInv

\* One turn of install_trans(), in recovery or in commit().
LEMMA InstallTurn ==
    ASSUME TypeOK, Distinct(lh), InstallBlock,
           \A k \in 1..tail : disk[lh[k]] = logblk[k]
    PROVE  /\ lh[tail + 1] \in Block
           /\ tail + 1 \in DOMAIN lh
           /\ tail' = tail + 1 /\ tail' <= Len(lh)
           /\ cache'[lh[tail + 1]] = logblk[tail + 1]
           /\ disk'[lh[tail + 1]] = logblk[tail + 1]
           /\ \A c \in Block : c # lh[tail + 1] =>
                  cache'[c] = cache[c] /\ disk'[c] = disk[c]
           /\ \A k \in 1..tail' : disk'[lh[k]] = logblk[k]
<1>1. /\ tail \in Nat /\ Len(lh) \in Nat /\ DOMAIN lh = 1..Len(lh)
      /\ tail < Len(lh) /\ Len(lh) <= LOGSIZE
  BY LenProperties, LogAssumption DEF TypeOK, InstallBlock
<1>2. tail + 1 \in DOMAIN lh /\ lh[tail + 1] \in Block
  BY <1>1, ElementOfSeq DEF TypeOK
<1>3. \A k \in 1..tail : k \in DOMAIN lh /\ lh[k] \in Block /\ lh[k] # lh[tail + 1]
  <2> SUFFICES ASSUME NEW k \in 1..tail
               PROVE  k \in DOMAIN lh /\ lh[k] \in Block /\ lh[k] # lh[tail + 1]
    OBVIOUS
  <2>1. k \in DOMAIN lh /\ k # tail + 1
    BY <1>1
  <2> QED
    BY <1>1, <1>2, <2>1, ElementOfSeq DEF TypeOK, Distinct
<1>4. \A c \in Block : /\ cache'[c] = IF c = lh[tail + 1] THEN logblk[tail + 1] ELSE cache[c]
                       /\ disk'[c] = IF c = lh[tail + 1] THEN logblk[tail + 1] ELSE disk[c]
  BY <1>2 DEF TypeOK, InstallBlock
<1>5. tail' = tail + 1 /\ tail' <= Len(lh)
  BY <1>1 DEF InstallBlock
<1>6. \A k \in 1..tail' : k = tail + 1 \/ k \in 1..tail
  BY <1>1, <1>5
<1>7. \A k \in 1..tail' : disk'[lh[k]] = logblk[k]
  BY <1>2, <1>3, <1>4, <1>6
<1> QED
  BY <1>2, <1>4, <1>5, <1>7

LEMMA DataRecoverInstall ==
    ASSUME TypeOK, Control, DataInv, RecoverInstall
    PROVE  DataInv'
<1>1. /\ phase = "install" /\ phase' = "install" /\ ~Running /\ ~Running'
      /\ ~At("install")' /\ ~At("write_log")'
      /\ UNCHANGED <<lh, dhead, logblk, pin, buf, pc>> /\ InstallBlock
  BY DEF RecoverInstall, InstallBlock, Running, At, Control, opVars
<1>2. /\ lh[tail + 1] \in Block /\ tail' <= Len(lh)
      /\ cache'[lh[tail + 1]] = disk'[lh[tail + 1]]
      /\ \A c \in Block : c # lh[tail + 1] =>
             cache'[c] = cache[c] /\ disk'[c] = disk[c]
      /\ \A k \in 1..tail' : disk'[lh[k]] = logblk[k]
  BY <1>1, InstallTurn DEF DataInv, Headers, Copies
<1>3. Headers'
  BY <1>1, <1>2 DEF DataInv, Headers, Distinct
<1>4. Copies'
  BY <1>1, <1>2 DEF Copies
<1>5. Buffers'
  <2>1. \A b \in Block : Clean(b)'
    BY <1>1, <1>2 DEF DataInv, Buffers, Clean
  <2>2. \A p \in Proc : pc'[p] # "modified"
    BY <1>1 DEF Control
  <2> QED
    BY <1>1, <2>1, <2>2 DEF DataInv, Buffers
<1>6. Pins'
  BY <1>1 DEF DataInv, Pins, PinnedUntilInstalled, Running
<1> QED
  BY <1>3, <1>4, <1>5, <1>6 DEF DataInv

LEMMA DataRecoverErase ==
    ASSUME TypeOK, Control, DataInv, RecoverErase
    PROVE  DataInv'
<1>1. /\ ~Running /\ Running' /\ phase' # "install"
      /\ ~At("install")' /\ ~At("write_log")'
      /\ lh' = <<>> /\ dhead' = <<>>
      /\ UNCHANGED <<cache, disk, pin, buf, pc>>
  BY DEF RecoverErase, EraseLog, Running, At, Control, opVars, bufVars
<1>2. Unflushed' = {}
  BY <1>1 DEF Unflushed, At, RangeOf
<1>3. Headers'
  BY <1>1 DEF Headers, Distinct
<1>4. Copies'
  BY <1>1 DEF Copies
<1>5. Buffers'
  BY <1>1, <1>2 DEF DataInv, Buffers, Clean
<1>6. Pins'
  BY <1>1, <1>2 DEF DataInv, Pins, PinnedUntilInstalled
<1> QED
  BY <1>3, <1>4, <1>5, <1>6 DEF DataInv

\* Which listed blocks are still to be installed.
LEMMA UnflushedCases ==
    ASSUME TypeOK, Control
    PROVE  /\ Unflushed \subseteq Block
           /\ ~At("install") => Unflushed = RangeOf(lh)
           /\ At("install") => \A k \in (tail + 1)..Len(lh) : lh[k] \in Unflushed
           /\ At("write_log") => \A k \in 1..Len(lh) : lh[k] \in Unflushed
<1>1. DOMAIN lh = 1..Len(lh) /\ tail \in Nat /\ Len(lh) \in Nat
      /\ \A k \in 1..Len(lh) : lh[k] \in Block
  BY LenProperties, ElementOfSeq, LogAssumption DEF TypeOK
<1>2. At("write_log") => ~At("install")
  BY OnlyCommitter DEF At, CommitPC
<1> QED
  BY <1>1, <1>2 DEF Unflushed, At, RangeOf

\* bread() brings in, or bget() recycles, a buffer that nobody relies on.
LEMMA DataBuffer ==
    ASSUME TypeOK, Control, DataInv, phase = "run", NEW b \in Block \ Unflushed,
           \A p \in Proc : buf[p] # b,
           NEW v \in {NotCached, disk[b]}, cache' = [cache EXCEPT ![b] = v],
           UNCHANGED <<disk, logblk, dhead, phase, pin, lh, tail, buf, pc>>
    PROVE  DataInv'
<1>1. \A l : At(l)' <=> At(l)
  BY DEF At
<1>2. Running /\ Running' /\ Unflushed' = Unflushed
  BY <1>1 DEF Running, Unflushed, At, RangeOf
<1>3. \A c \in Block : c # b => cache'[c] = cache[c]
  BY DEF TypeOK
<1>4. cache'[b] \in {NotCached, disk[b]}
  BY DEF TypeOK
<1>5. Headers'
  BY <1>1, <1>2 DEF DataInv, Headers, Distinct
<1>6. Copies'
  <2>1. \A c \in Unflushed : cache'[c] = cache[c]
    BY <1>3, UnflushedCases
  <2>2. At("install") => \A k \in (tail + 1)..Len(lh) : logblk[k] = cache'[lh[k]]
    BY <2>1, UnflushedCases DEF DataInv, Copies
  <2>3. At("write_log") => \A k \in 1..tail : logblk[k] = cache'[lh[k]]
    <3> SUFFICES ASSUME At("write_log"), NEW k \in 1..tail
                 PROVE  logblk[k] = cache'[lh[k]]
      OBVIOUS
    <3>1. k \in 1..Len(lh)
      BY LogAssumption, LenProperties DEF DataInv, Headers, TypeOK
    <3> QED
      BY <2>1, <3>1, UnflushedCases DEF DataInv, Copies
  <2> QED
    BY <1>1, <2>2, <2>3 DEF DataInv, Copies
<1>7. Buffers'
  <2>1. \A c \in Block \ Unflushed' : (\A p \in Proc : buf'[p] # c) => Clean(c)'
    BY <1>2, <1>3, <1>4 DEF DataInv, Buffers, Clean
  <2>2. \A c \in Block \intersect Unflushed' : cache'[c] # NotCached
    BY <1>2, <1>3 DEF DataInv, Buffers
  <2>3. \A p \in Proc : pc'[p] = "modified" => cache'[buf'[p]] # NotCached
    BY <1>3 DEF DataInv, Buffers, Control
  <2> QED
    BY <1>2, <2>1, <2>2, <2>3 DEF DataInv, Buffers
<1>8. Pins'
  BY <1>2 DEF DataInv, Pins, PinnedUntilInstalled, Running
<1> QED
  BY <1>5, <1>6, <1>7, <1>8 DEF DataInv

LEMMA DataLoadEvict ==
    ASSUME TypeOK, Control, DataInv, NEW b \in Block, Load(b) \/ Evict(b)
    PROVE  DataInv'
<1> USE DEF diskVars, logVars, opVars
<1>1. CASE Load(b)
  <2>1. b \notin Unflushed /\ \A p \in Proc : buf[p] # b
    BY <1>1, LogAssumption DEF Load, DataInv, Buffers, Running
  <2> QED
    BY <1>1, <2>1, DataBuffer DEF Load
<1>2. CASE Evict(b)
  <2>1. b \notin Unflushed /\ \A p \in Proc : buf[p] # b
    BY <1>2 DEF Evict, Recyclable, DataInv, Pins, PinnedUntilInstalled
  <2> QED
    BY <1>2, <2>1, DataBuffer DEF Evict
<1> QED
  BY <1>1, <1>2

LEMMA DataModify ==
    ASSUME TypeOK, Control, DataInv, NEW p \in Proc, NEW b \in Block,
           NEW v \in Data, Modify(p, b, v)
    PROVE  DataInv'
<1>1. /\ ~At("install") /\ ~At("write_log")
      /\ ~At("install")' /\ ~At("write_log")'
  BY NoCommitter DEF Modify, Goto, TypeOK, At, CommitPC, OpPC
<1>2. /\ phase = "run" /\ Running /\ Running' /\ Unflushed' = Unflushed
      /\ UNCHANGED <<disk, logblk, dhead, phase, pin, lh, tail>>
  BY <1>1 DEF Modify, Running, Unflushed, At, RangeOf, diskVars, logVars
<1>3. /\ \A c \in Block : cache'[c] = IF c = b THEN v ELSE cache[c]
      /\ \A q \in Proc : buf'[q] = IF q = p THEN b ELSE buf[q]
      /\ \A q \in Proc : pc'[q] = IF q = p THEN "modified" ELSE pc[q]
      /\ buf[p] = NoBlock /\ v # NotCached
  BY LogAssumption DEF Modify, Goto, TypeOK, DataInv, Buffers
<1>4. Headers'
  BY <1>1, <1>2 DEF DataInv, Headers, Distinct
<1>5. Copies'
  BY <1>1, <1>2 DEF Copies
<1>6. Buffers'
  <2>1. \A c \in Block \ Unflushed' : (\A q \in Proc : buf'[q] # c) => Clean(c)'
    BY <1>2, <1>3, LogAssumption DEF DataInv, Buffers, Clean
  <2>2. \A c \in Block \intersect Unflushed' : cache'[c] # NotCached
    BY <1>2, <1>3 DEF DataInv, Buffers
  <2>3. \A q \in Proc : pc'[q] = "modified" => cache'[buf'[q]] # NotCached
    BY <1>3 DEF DataInv, Buffers, Control
  <2> QED
    BY <1>2, <1>3, <2>1, <2>2, <2>3 DEF DataInv, Buffers
<1>7. Pins'
  BY <1>2 DEF DataInv, Pins, PinnedUntilInstalled, Running
<1> QED
  BY <1>4, <1>5, <1>6, <1>7 DEF DataInv

LEMMA DataLogWrite ==
    ASSUME TypeOK, Control, DataInv, NEW p \in Proc, LogWrite(p)
    PROVE  DataInv'
<1> DEFINE b == buf[p]
<1>1. /\ ~At("install") /\ ~At("write_log")
      /\ ~At("install")' /\ ~At("write_log")'
  BY NoCommitter DEF LogWrite, Goto, TypeOK, At, CommitPC, OpPC
<1>2. /\ phase = "run" /\ Running /\ Running'
      /\ UNCHANGED <<disk, logblk, dhead, phase, cache, tail>>
      /\ lh' = IF b \in RangeOf(lh) THEN lh ELSE Append(lh, b)
      /\ pin' = IF b \in RangeOf(lh) THEN pin ELSE [pin EXCEPT ![b] = @ + 1]
      /\ b \in Block
  BY DEF LogWrite, Running, diskVars, Control, Absorbed, PinLogged
<1>3. /\ \A q \in Proc : buf'[q] = IF q = p THEN NoBlock ELSE buf[q]
      /\ \A q \in Proc : pc'[q] = IF q = p THEN "op" ELSE pc[q]
      /\ cache[b] # NotCached
  BY DEF LogWrite, Goto, TypeOK, DataInv, Buffers
<1> HIDE DEF b
<1>4. RangeOf(lh') = RangeOf(lh) \union {b} /\ Distinct(lh')
  <2>0. DOMAIN lh = 1..Len(lh) /\ lh \in Seq(Block) /\ Len(lh) \in Nat
    BY LenProperties DEF TypeOK
  <2>1. CASE b \in RangeOf(lh)
    BY <1>2, <2>1 DEF DataInv, Headers
  <2>2. CASE b \notin RangeOf(lh)
    <3>1. /\ DOMAIN lh' = 1..(Len(lh) + 1)
          /\ \A k \in 1..Len(lh) : lh'[k] = lh[k]
          /\ lh'[Len(lh) + 1] = b
      BY <1>2, <2>0, <2>2, AppendProperties, LenProperties
    <3>2. \A k \in DOMAIN lh : lh[k] # b
      BY <2>2 DEF RangeOf
    <3>3. \A k \in DOMAIN lh' : k = Len(lh) + 1 \/ k \in DOMAIN lh
      BY <2>0, <3>1
    <3>4. Distinct(lh')
      BY <2>0, <3>1, <3>2, <3>3 DEF DataInv, Headers, Distinct
    <3>5. RangeOf(lh') = RangeOf(lh) \union {b}
      BY <2>0, <3>1, <3>3 DEF RangeOf
    <3> QED
      BY <3>4, <3>5
  <2> QED
    BY <2>1, <2>2
<1>5. Unflushed = RangeOf(lh) /\ Unflushed' = RangeOf(lh) \union {b}
  BY <1>1, <1>4 DEF Unflushed, At
<1>6. Headers'
  BY <1>1, <1>2, <1>4 DEF DataInv, Headers, Running
<1>7. Copies'
  BY <1>1, <1>2 DEF Copies
<1>8. Buffers'
  <2>1. \A c \in Block \ Unflushed' : (\A q \in Proc : buf'[q] # c) => Clean(c)'
    BY <1>2, <1>3, <1>5 DEF DataInv, Buffers, Clean, b
  <2>2. \A c \in Block \intersect Unflushed' : cache'[c] # NotCached
    BY <1>2, <1>3, <1>5 DEF DataInv, Buffers
  <2> QED
    BY <1>2, <1>3, <2>1, <2>2 DEF DataInv, Buffers
<1>9. Pins'
  <2> SUFFICES ASSUME NEW c \in Block
               PROVE  pin'[c] = IF c \in Unflushed' THEN 1 ELSE 0
    BY <1>2 DEF Pins, PinnedUntilInstalled
  <2>1. pin[c] = IF c \in Unflushed THEN 1 ELSE 0
    BY <1>2 DEF DataInv, Pins, PinnedUntilInstalled
  <2> QED
    BY <1>2, <1>5, <2>1 DEF TypeOK
<1> QED
  BY <1>6, <1>7, <1>8, <1>9 DEF DataInv

\* commit() begins: nothing is copied yet.
LEMMA DataCommit ==
    ASSUME TypeOK, Control, DataInv, NEW p \in Proc, Commit(p)
    PROVE  DataInv'
<1>1. /\ ~At("install") /\ ~At("write_log") /\ ~At("install")'
      /\ \A q \in Proc : q # p => pc'[q] = pc[q]
      /\ pc[p] = "commit" /\ pc'[p] \in {"write_log", "finish"}
  <2>1. \A q \in Proc : q # p => pc[q] \notin CommitPC
    BY OnlyCommitter DEF Commit, CommitPC
  <2>2. /\ \A q \in Proc : q # p => pc'[q] = pc[q]
        /\ pc[p] = "commit" /\ pc'[p] \in {"write_log", "finish"}
    BY DEF Commit, Goto, TypeOK
  <2> QED
    BY <2>1, <2>2 DEF At, CommitPC
<1>2. /\ phase = "run" /\ Running /\ Running' /\ tail' = 0
      /\ UNCHANGED <<disk, logblk, dhead, phase, cache, pin, lh, buf>>
  BY DEF Commit, Running, diskVars, bufVars, opVars
<1>3. Unflushed' = Unflushed
  BY <1>1, <1>2 DEF Unflushed, At, RangeOf
<1>4. Headers'
  BY <1>1, <1>2, LenProperties DEF DataInv, Headers, Distinct, TypeOK
<1>5. Copies'
  BY <1>1, <1>2 DEF Copies
<1>6. Buffers'
  BY <1>1, <1>2, <1>3 DEF DataInv, Buffers, Clean
<1>7. Pins'
  BY <1>2, <1>3 DEF DataInv, Pins, PinnedUntilInstalled
<1> QED
  BY <1>4, <1>5, <1>6, <1>7 DEF DataInv

LEMMA DataWriteLog ==
    ASSUME TypeOK, Control, DataInv, NEW p \in Proc, WriteLog(p)
    PROVE  DataInv'
<1> DEFINE b == lh[tail + 1]
<1>1. At("write_log") /\ ~At("install") /\ ~At("install")'
  BY OnlyCommitter DEF WriteLog, At, CommitPC
<1>2. /\ phase = "run" /\ Running /\ Running'
      /\ UNCHANGED <<disk, dhead, phase, pin, lh, buf, pc>>
      /\ tail' = tail + 1 /\ tail < Len(lh)
      /\ logblk' = [logblk EXCEPT ![tail + 1] = Bread(b)]
      /\ cache' = [cache EXCEPT ![b] = Bread(b)]
  BY DEF WriteLog, Running, opVars
<1>3. /\ DOMAIN lh = 1..Len(lh) /\ Len(lh) \in Nat /\ tail \in Nat
      /\ tail + 1 \in 1..Len(lh) /\ tail + 1 \in 1..LOGSIZE
  BY <1>2, LenProperties, LogAssumption DEF TypeOK
<1>4. b \in Block /\ b \in Unflushed
  BY <1>1, <1>3, UnflushedCases
<1> HIDE DEF b
<1>5. Bread(b) = cache[b]
  BY <1>2, <1>4 DEF DataInv, Buffers, Bread
<1>6. cache' = cache
  BY <1>2, <1>4, <1>5 DEF TypeOK
<1>7. Unflushed' = Unflushed
  BY <1>1, <1>2 DEF Unflushed, At, RangeOf
<1>8. Headers'
  BY <1>1, <1>2, <1>3 DEF DataInv, Headers, Distinct
<1>9. Copies'
  <2> SUFFICES ASSUME NEW k \in 1..tail'
               PROVE  logblk'[k] = cache[lh[k]]
    BY <1>1, <1>2, <1>6 DEF Copies
  <2>1. CASE k = tail + 1
    BY <1>2, <1>3, <1>5, <2>1 DEF TypeOK, b
  <2>2. CASE k # tail + 1
    <3>1. k \in 1..tail /\ k \in 1..LOGSIZE
      BY <1>2, <1>3, <2>2, LogAssumption
    <3> QED
      BY <1>1, <1>2, <2>2, <3>1 DEF TypeOK, DataInv, Copies
  <2> QED
    BY <2>1, <2>2
<1>10. Buffers'
  BY <1>2, <1>6, <1>7 DEF DataInv, Buffers, Clean
<1>11. Pins'
  BY <1>2, <1>7 DEF DataInv, Pins, PinnedUntilInstalled
<1> QED
  BY <1>8, <1>9, <1>10, <1>11 DEF DataInv

\* The commit point: every listed block is in the log.
LEMMA DataWriteHead ==
    ASSUME TypeOK, Control, DataInv, NEW p \in Proc, WriteHead(p)
    PROVE  DataInv'
<1>1. At("write_log") /\ ~At("install") /\ At("install")' /\ ~At("write_log")'
  <2>1. \A q \in Proc : q # p => pc[q] \notin CommitPC
    BY OnlyCommitter DEF WriteHead, CommitPC
  <2> QED
    BY <2>1 DEF WriteHead, Goto, TypeOK, At, CommitPC
<1>2. /\ phase = "run" /\ Running /\ Running'
      /\ UNCHANGED <<disk, logblk, phase, cache, pin, lh, buf>>
      /\ tail = Len(lh) /\ tail' = 0 /\ dhead' = lh
      /\ \A q \in Proc : pc'[q] = IF q = p THEN "install" ELSE pc[q]
      /\ pc[p] = "write_log"
  BY DEF WriteHead, LogWritten, HeadOut, Running, bufVars, opVars, Goto, TypeOK
<1>3. DOMAIN lh = 1..Len(lh) /\ Len(lh) \in Nat
  BY LenProperties DEF TypeOK
<1>4. Unflushed = RangeOf(lh) /\ Unflushed' = RangeOf(lh)
  BY <1>1, <1>2, <1>3 DEF Unflushed, At, RangeOf
<1>5. Headers'
  BY <1>1, <1>2, <1>3 DEF DataInv, Headers, Distinct
<1>6. Copies'
  BY <1>1, <1>2, <1>3 DEF DataInv, Copies
<1>7. Buffers'
  BY <1>2, <1>4 DEF DataInv, Buffers, Clean
<1>8. Pins'
  BY <1>2, <1>4 DEF DataInv, Pins, PinnedUntilInstalled
<1> QED
  BY <1>5, <1>6, <1>7, <1>8 DEF DataInv

LEMMA DataInstall ==
    ASSUME TypeOK, Control, DataInv, NEW p \in Proc, Install(p)
    PROVE  DataInv'
<1> DEFINE b == lh[tail + 1]
<1>1. /\ At("install") /\ At("install")' /\ ~At("write_log")'
      /\ \A q \in Proc : pc[q] # "modified"
  <2>1. \A q \in Proc : q # p => pc[q] \notin CommitPC \union OpPC
    BY OnlyCommitter DEF Install, CommitPC
  <2> QED
    BY <2>1 DEF Install, At, CommitPC, OpPC
<1>2. /\ phase = "run" /\ Running /\ Running' /\ InstallBlock
      /\ UNCHANGED <<dhead, logblk, phase, lh, buf, pc>>
      /\ pin' = [pin EXCEPT ![b] = @ - 1]
  BY DEF Install, InstallBlock, Running, opVars
<1>3. /\ b \in Block /\ tail + 1 \in DOMAIN lh
      /\ tail' = tail + 1 /\ tail' <= Len(lh)
      /\ cache'[b] = disk'[b]
      /\ \A c \in Block : c # b => cache'[c] = cache[c] /\ disk'[c] = disk[c]
      /\ \A k \in 1..tail' : disk'[lh[k]] = logblk[k]
  BY <1>1, <1>2, InstallTurn DEF DataInv, Headers, Copies
<1>4. /\ DOMAIN lh = 1..Len(lh) /\ Len(lh) \in Nat /\ tail \in Nat
      /\ \A k \in 1..Len(lh) : lh[k] \in Block
  BY LenProperties, ElementOfSeq, LogAssumption DEF TypeOK
<1>5. \A k \in (tail + 2)..Len(lh) : lh[k] # b /\ lh[k] \in Block
  <2> SUFFICES ASSUME NEW k \in (tail + 2)..Len(lh)
               PROVE  lh[k] # b /\ lh[k] \in Block
    OBVIOUS
  <2>1. k \in DOMAIN lh /\ k # tail + 1
    BY <1>4
  <2> QED
    BY <1>3, <1>4, <2>1 DEF DataInv, Headers, Distinct
<1>6. b \in Unflushed /\ Unflushed' = Unflushed \ {b}
  <2>1. Unflushed = {lh[i] : i \in (tail + 1)..Len(lh)}
    BY <1>1 DEF Unflushed, At
  <2>2. Unflushed' = {lh[i] : i \in (tail + 2)..Len(lh)}
    BY <1>1, <1>2, <1>3, <1>4 DEF Unflushed, At
  <2>3. \A i \in (tail + 1)..Len(lh) : i = tail + 1 \/ i \in (tail + 2)..Len(lh)
    BY <1>4
  <2>4. /\ tail + 1 \in (tail + 1)..Len(lh)
        /\ (tail + 2)..Len(lh) \subseteq (tail + 1)..Len(lh)
    BY <1>3, <1>4
  <2> QED
    BY <1>5, <2>1, <2>2, <2>3, <2>4
<1> HIDE DEF b
<1>7. Headers'
  BY <1>1, <1>2, <1>3 DEF DataInv, Headers, Distinct
<1>8. Copies'
  <2>1. \A k \in (tail' + 1)..Len(lh) : logblk[k] = cache'[lh[k]]
    <3> SUFFICES ASSUME NEW k \in (tail' + 1)..Len(lh)
                 PROVE  logblk[k] = cache'[lh[k]]
      OBVIOUS
    <3>1. k \in (tail + 1)..Len(lh) /\ k \in (tail + 2)..Len(lh)
      BY <1>3, <1>4
    <3> QED
      BY <1>1, <1>3, <1>5, <3>1 DEF DataInv, Copies
  <2> QED
    BY <1>1, <1>2, <1>3, <2>1 DEF Copies
<1>9. Buffers'
  <2>1. \A c \in Block \ Unflushed' : (\A q \in Proc : buf'[q] # c) => Clean(c)'
    BY <1>2, <1>3, <1>6 DEF DataInv, Buffers, Clean
  <2>2. \A c \in Block \intersect Unflushed' : cache'[c] # NotCached
    BY <1>2, <1>3, <1>6 DEF DataInv, Buffers
  <2> QED
    BY <1>1, <1>2, <2>1, <2>2 DEF DataInv, Buffers
<1>10. Pins'
  <2> SUFFICES ASSUME NEW c \in Block
               PROVE  pin'[c] = IF c \in Unflushed' THEN 1 ELSE 0
    BY <1>2 DEF Pins, PinnedUntilInstalled
  <2>1. pin[c] = IF c \in Unflushed THEN 1 ELSE 0
    BY <1>2 DEF DataInv, Pins, PinnedUntilInstalled
  <2> QED
    BY <1>2, <1>3, <1>6, <2>1 DEF TypeOK
<1> QED
  BY <1>7, <1>8, <1>9, <1>10 DEF DataInv

LEMMA DataErase ==
    ASSUME TypeOK, Control, DataInv, NEW p \in Proc, Erase(p)
    PROVE  DataInv'
<1>1. At("install") /\ ~At("install")' /\ ~At("write_log")'
  <2>1. \A q \in Proc : q # p => pc[q] \notin CommitPC
    BY OnlyCommitter DEF Erase, CommitPC
  <2> QED
    BY <2>1 DEF Erase, Goto, TypeOK, At, CommitPC
<1>2. /\ phase = "run" /\ Running /\ Running'
      /\ UNCHANGED <<disk, phase, cache, pin, buf>>
      /\ tail = Len(lh) /\ lh' = <<>> /\ dhead' = <<>>
      /\ \A q \in Proc : pc'[q] = IF q = p THEN "finish" ELSE pc[q]
      /\ pc[p] = "install"
  BY DEF Erase, EraseLog, Running, bufVars, opVars, Goto, TypeOK
<1>3. Unflushed = {} /\ Unflushed' = {}
  <2>1. Len(lh) \in Nat
    BY LenProperties DEF TypeOK
  <2> QED
    BY <1>1, <1>2, <2>1 DEF Unflushed, At, RangeOf
<1>4. Headers'
  BY <1>1, <1>2 DEF Headers, Distinct
<1>5. Copies'
  BY <1>1, <1>2 DEF Copies
<1>6. Buffers'
  BY <1>2, <1>3 DEF DataInv, Buffers, Clean
<1>7. Pins'
  BY <1>2, <1>3 DEF DataInv, Pins, PinnedUntilInstalled
<1> QED
  BY <1>4, <1>5, <1>6, <1>7 DEF DataInv

LEMMA DataStep == TypeOK /\ Control /\ DataInv /\ [Next]_vars => DataInv'
<1> SUFFICES ASSUME TypeOK, Control, DataInv, [Next]_vars
             PROVE  DataInv'
  OBVIOUS
<1>1. CASE UNCHANGED vars
  BY <1>1, DataUntouched DEF vars, diskVars, bufVars, logVars, opVars
<1> QED
  BY <1>1, DataReadHead, DataRecoverInstall, DataRecoverErase, DataCrash,
     DataLoadEvict, DataQuiet, DataModify, DataLogWrite, DataCommit,
     DataWriteLog, DataWriteHead, DataInstall, DataErase
  DEF Next, Recovery, Step
-----------------------------------------------------------------------------
(* sync().                                                                 *)

LEMMA InitSyncs == Init => Syncs
BY DEF Init, Syncs

\* A commit that has passed its commit point has left nothing pending.
LEMMA SettledLater ==
    ASSUME TypeOK, Control, Syncs, NEW p \in Proc, pc[p] \in {"install", "finish"}
    PROVE  pending = {} /\ \A q \in Proc : owed[q] = {}
<1>1. \A q \in Proc : q # p => pc[q] \notin CommitPC \union OpPC
  BY OnlyCommitter DEF CommitPC
<1>2. InOp = {} /\ ~At("commit") /\ ~At("write_log")
  BY <1>1 DEF InOp, At, CommitPC, OpPC
<1> QED
  BY <1>2 DEF Syncs

LEMMA SyncStep == TypeOK /\ Control /\ Syncs /\ [Next]_vars => Syncs'
<1> SUFFICES ASSUME TypeOK, Control, Syncs, [Next]_vars
             PROVE  Syncs'
  OBVIOUS
<1> USE DEF logVars, syncVars, opVars, Goto
<1>a. pc \in [Proc -> PC] /\ ncommit \in Nat /\ target \in [Proc -> Nat]
      /\ owed \in [Proc -> SUBSET Proc]
  BY DEF TypeOK
\* A step that leaves the calls, the history and the counter alone.
<1>b. ASSUME UNCHANGED <<pending, owed, ncommit, target>>, InOp \subseteq InOp',
             (At("commit") \/ At("write_log")) => (At("commit") \/ At("write_log"))',
             \A p \in Proc : pc'[p] = "sync_wait" => pc[p] = "sync_wait"
      PROVE  Syncs'
  BY <1>b DEF Syncs
<1>1. CASE Recovery
  BY <1>1, <1>b DEF Recovery, ReadHead, RecoverInstall, RecoverErase, InOp, At
<1>2. CASE Crash
  BY <1>2 DEF Crash, Syncs
<1>3. ASSUME NEW b \in Block, Load(b) \/ Evict(b)
      PROVE  Syncs'
  BY <1>3, <1>b DEF Load, Evict, InOp, At
<1>4. ASSUME NEW p \in Proc, CallBeginOp(p) \/ BeginOpWait(p) \/ Panic(p)
      PROVE  Syncs'
  BY <1>4, <1>a, <1>b DEF CallBeginOp, BeginOpWait, Panic, InOp, OpPC, At
<1>5. ASSUME NEW p \in Proc, BeginOp(p) \/ LogWrite(p)
      PROVE  Syncs'
  BY <1>5, <1>a, <1>b DEF BeginOp, LogWrite, InOp, OpPC, At
<1>6. ASSUME NEW p \in Proc, NEW b \in Block, NEW v \in Data, Modify(p, b, v)
      PROVE  Syncs'
  BY <1>6, <1>a, <1>b DEF Modify, InOp, OpPC, At
<1>7. ASSUME NEW p \in Proc, EndOp(p)
      PROVE  Syncs'
  <2>1. p \in InOp /\ InOp' = InOp \ {p}
    BY <1>7, <1>a DEF EndOp, InOp, OpPC
  <2>2. InOp' # {} \/ At("commit")'
    <3>1. CASE outstanding = 1
      BY <1>7, <1>a, <3>1 DEF EndOp, At
    <3>2. CASE outstanding # 1
      <4>1. Cardinality({p}) = 1
        BY FS_Singleton
      <4>2. InOp # {p}
        BY <3>2, <4>1 DEF Control
      <4> QED
        BY <2>1, <4>2
    <3> QED
      BY <3>1, <3>2
  <2>3. \A q \in Proc : pc'[q] = "sync_wait" => pc[q] = "sync_wait"
    BY <1>7, <1>a DEF EndOp
  <2> QED
    BY <1>7, <2>2, <2>3 DEF EndOp, Syncs
<1>8. ASSUME NEW p \in Proc, Commit(p)
      PROVE  Syncs'
  <2>1. CASE Len(lh) > 0
    <3>1. At("write_log")' /\ InOp' = InOp
      BY <1>8, <1>a, <2>1 DEF Commit, At, InOp, OpPC
    <3>2. \A q \in Proc : pc'[q] = "sync_wait" => pc[q] = "sync_wait"
      BY <1>8, <1>a, <2>1 DEF Commit
    <3> QED
      BY <1>8, <2>1, <3>1, <3>2 DEF Commit, Syncs
  <2>2. CASE ~(Len(lh) > 0)
    BY <1>8, <2>2 DEF Commit, Settled, Syncs
  <2> QED
    BY <2>1, <2>2
<1>9. ASSUME NEW p \in Proc, WriteLog(p)
      PROVE  Syncs'
  BY <1>9, <1>b DEF WriteLog, InOp, At
<1>10. ASSUME NEW p \in Proc, WriteHead(p)
       PROVE  Syncs'
  BY <1>10 DEF WriteHead, Settled, Syncs
<1>11. ASSUME NEW p \in Proc, Install(p)
       PROVE  Syncs'
  BY <1>11, <1>b DEF Install, InstallBlock, InOp, At
<1>12. ASSUME NEW p \in Proc, Erase(p) \/ Finish(p)
       PROVE  Syncs'
  <2>1. pending = {} /\ \A q \in Proc : owed[q] = {}
    BY <1>12, SettledLater DEF Erase, Finish
  <2> QED
    BY <1>12, <2>1 DEF Erase, Finish, Syncs
<1>13. ASSUME NEW p \in Proc, CallSync(p)
       PROVE  Syncs'
  <2>1. InOp' = InOp /\ (At("commit") => At("commit")')
        /\ (At("write_log") => At("write_log")')
    BY <1>13, <1>a DEF CallSync, InOp, OpPC, At
  <2>2. \A q \in Proc : pc'[q] = "sync_wait" => pc[q] = "sync_wait" /\ q # p
    BY <1>13, <1>a DEF CallSync
  <2> QED
    BY <1>13, <1>a, <2>1, <2>2 DEF CallSync, Syncs
<1>14. ASSUME NEW p \in Proc, SyncWait(p)
       PROVE  Syncs'
  <2>1. InOp' = InOp /\ (At("commit") => At("commit")')
        /\ (At("write_log") => At("write_log")')
    BY <1>14, <1>a DEF SyncWait, InOp, OpPC, At
  <2>2. \A q \in Proc : pc'[q] = "sync_wait" => pc[q] = "sync_wait" \/ q = p
    BY <1>14, <1>a DEF SyncWait
  <2> QED
    BY <1>14, <1>a, <2>1, <2>2 DEF SyncWait, SyncGoal, Syncs
<1>15. ASSUME NEW p \in Proc, SyncAgain(p) \/ SyncReturn(p)
       PROVE  Syncs'
  BY <1>15, <1>a, <1>b DEF SyncAgain, SyncReturn, InOp, OpPC, At
<1>16. CASE UNCHANGED vars
  BY <1>16, <1>b DEF vars, InOp, At
<1> QED
  BY <1>1, <1>2, <1>3, <1>4, <1>5, <1>6, <1>7, <1>8, <1>9, <1>10, <1>11,
     <1>12, <1>13, <1>14, <1>15, <1>16 DEF Next, Step

THEOREM AtomicInvariant == Spec => [](IndInv /\ AtomicInv)
<1>1. Init => AtomicInv
  BY InitData, InitSyncs DEF AtomicInv
<1>2. IndInv /\ AtomicInv /\ [Next]_vars => AtomicInv'
  BY DataStep, SyncStep DEF IndInv, AtomicInv
<1> QED
  BY <1>1, <1>2, IndInvariant, PTL DEF Spec

\* A logged block stays pinned, once, from the log_write() that listed it to
\* the bunpin() of install_trans(); no other buffer is pinned.
THEOREM PinsBalance == Spec => []PinnedUntilInstalled
<1>1. AtomicInv => PinnedUntilInstalled
  BY DEF AtomicInv, DataInv, Pins
<1> QED
  BY <1>1, AtomicInvariant, PTL

\* install_trans() overwrites a home location only with what the committed
\* log holds for it, in commit() and in recovery.
THEOREM LogComesFirst == Spec => WriteAhead
<1> DEFINE Ahead == \A b \in Block :
                        disk'[b] # disk[b] =>
                            \E i \in DOMAIN dhead :
                                dhead[i] = b /\ logblk[i] = disk'[b]
<1>1. ASSUME IndInv, AtomicInv, [Next]_vars
      PROVE  Ahead \/ UNCHANGED vars
  <2>1. ASSUME InstallBlock, phase = "install" \/ \E p \in Proc : pc[p] = "install",
               phase # "read_head"
        PROVE  Ahead
    <3>1. lh = dhead
      BY <1>1, <2>1 DEF IndInv, TypeOK, AtomicInv, DataInv, Headers, Running, At
    <3>2. /\ tail + 1 \in DOMAIN lh
          /\ disk'[lh[tail + 1]] = logblk[tail + 1]
          /\ \A c \in Block : c # lh[tail + 1] => disk'[c] = disk[c]
      BY <1>1, <2>1, InstallTurn DEF IndInv, AtomicInv, DataInv, Headers, Copies, At
    <3> QED
      BY <3>1, <3>2
  <2>2. CASE RecoverInstall
    BY <2>1, <2>2 DEF RecoverInstall
  <2>3. ASSUME NEW p \in Proc, Install(p)
        PROVE  Ahead
    BY <2>1, <2>3 DEF Install
  <2>4. CASE ~RecoverInstall /\ ~ \E p \in Proc : Install(p)
    <3>1. disk' = disk
      BY <1>1, <2>4 DEF Next, Recovery, Step, ReadHead, RecoverErase, EraseLog,
         Crash, Load, Evict, CallBeginOp, BeginOpWait, BeginOp, Modify, LogWrite,
         EndOp, Panic, Commit, WriteLog, WriteHead, Erase, Finish, CallSync,
         SyncWait, SyncAgain, SyncReturn, vars, diskVars
    <3> QED
      BY <3>1
  <2> QED
    BY <2>2, <2>3, <2>4
<1> QED
  BY <1>1, AtomicInvariant, PTL DEF Spec, WriteAhead

\* sys_sync() returns only when the calls it has to wait for are durable.
LEMMA SyncReturnsPaid ==
    ASSUME IndInv, AtomicInv, NEW p \in Proc, SyncReturn(p)
    PROVE  owed[p] = {}
<1>1. CASE pc[p] = "sync" /\ ~Unsettled
  <2>1. InOp = {}
    <3>1. Cardinality(InOp) = 0
      BY <1>1, InOpFinite DEF Unsettled, IndInv, TypeOK, Control
    <3> QED
      BY <3>1, InOpFinite, FS_EmptySet
  <2>2. ~At("commit") /\ ~At("write_log")
    BY <1>1 DEF Unsettled, IndInv, Control, CommitPC, At
  <2> QED
    BY <2>1, <2>2 DEF AtomicInv, Syncs
<1>2. CASE pc[p] = "sync_wait" /\ ncommit >= target[p]
  <2>1. ncommit \in Nat /\ target[p] \in Nat
    BY DEF IndInv, TypeOK
  <2>2. ~(ncommit < target[p])
    BY <1>2, <2>1
  <2> QED
    BY <1>2, <2>2 DEF AtomicInv, Syncs
<1> QED
  BY <1>1, <1>2 DEF SyncReturn

\* sys_sync() returns only when every call that had passed its end_op()
\* before it is durable.
THEOREM SyncIsDurable == Spec => SyncDurable
<1>1. ASSUME IndInv, AtomicInv, [Next]_vars
      PROVE  \/ \A p \in Proc :
                    pc[p] \in SyncPC /\ pc'[p] = "idle" /\ phase' = "run"
                        => owed[p] = {}
             \/ UNCHANGED vars
  <2> SUFFICES ASSUME NEW p \in Proc, pc[p] \in SyncPC, pc'[p] = "idle",
                      phase' = "run"
               PROVE  owed[p] = {}
    OBVIOUS
  <2>1. pc \in [Proc -> PC]
    BY <1>1 DEF IndInv, TypeOK
  <2>2. SyncReturn(p)
    <3>1. ~UNCHANGED vars
      BY DEF vars, SyncPC
    <3>2. ~Recovery /\ ~Crash /\ \A b \in Block : ~Load(b) /\ ~Evict(b)
      BY DEF SyncPC, Recovery, ReadHead, RecoverInstall, RecoverErase, Crash,
         Load, Evict
    <3>3. PICK q \in Proc : CallBeginOp(q) \/ CallSync(q) \/ Step(q)
      BY <1>1, <3>1, <3>2 DEF Next
    <3>4. SyncReturn(q)
      BY <2>1, <3>3 DEF SyncPC, Step, Goto, CallBeginOp, CallSync, BeginOpWait,
         BeginOp, Modify, LogWrite, EndOp, Panic, Commit, WriteLog, WriteHead,
         Install, Erase, Finish, SyncWait, SyncAgain
    <3> QED
      BY <2>1, <3>4 DEF SyncReturn, Goto, SyncPC
  <2> QED
    BY <1>1, <2>2, SyncReturnsPaid
<1> QED
  BY <1>1, AtomicInvariant, PTL DEF Spec, SyncDurable
-----------------------------------------------------------------------------
(* The refinement of AtomicDisk.                                           *)

Mem == [b \in Block |-> View(b)]
Durable == [b \in Block |-> Recovered(b)]
Syncing == {p \in Proc : pc[p] \in SyncPC}

\* What recovery makes of a header h, log blocks l and home locations d.
Replay(h, l, d, b) ==
    IF b \in RangeOf(h) THEN l[CHOOSE i \in DOMAIN h : h[i] = b] ELSE d[b]

LEMMA ReplayRecovers ==
    ASSUME NEW b
    PROVE  /\ Recovered(b) = Replay(dhead, logblk, disk, b)
           /\ Recovered(b)' = Replay(dhead', logblk', disk', b)
BY DEF Recovered, Replay

\* A listed block is recovered from its own log block.
LEMMA ReplayListed ==
    ASSUME NEW h, NEW l, NEW d, Distinct(h), NEW i \in DOMAIN h
    PROVE  Replay(h, l, d, h[i]) = l[i]
<1> DEFINE j == CHOOSE k \in DOMAIN h : h[k] = h[i]
<1>1. j \in DOMAIN h /\ h[j] = h[i]
  OBVIOUS
<1>2. j = i
  BY <1>1 DEF Distinct
<1>3. h[i] \in RangeOf(h)
  BY DEF RangeOf
<1> QED
  BY <1>2, <1>3 DEF Replay

LEMMA ReplayEmpty ==
    ASSUME NEW l, NEW d, NEW b
    PROVE  Replay(<<>>, l, d, b) = d[b]
BY DEF Replay, RangeOf

\* Installing a listed block changes nothing that recovery would make.
LEMMA DurableInstall ==
    ASSUME TypeOK, DataInv, InstallBlock, lh = dhead,
           phase = "install" \/ At("install")
    PROVE  Durable' = Durable
<1>1. /\ tail + 1 \in DOMAIN dhead
      /\ \A c \in Block : c # dhead[tail + 1] => disk'[c] = disk[c]
  BY InstallTurn DEF DataInv, Headers, Copies
<1>2. dhead' = dhead /\ logblk' = logblk
  BY DEF InstallBlock
<1>3. \A b \in Block : Replay(dhead', logblk', disk', b) = Replay(dhead, logblk, disk, b)
  BY <1>1, <1>2 DEF Replay, RangeOf
<1> QED
  BY <1>3, ReplayRecovers DEF Durable

\* Erasing a log whose blocks are all installed changes nothing either.
LEMMA DurableErase ==
    ASSUME TypeOK, DataInv, EraseLog, lh = dhead,
           phase = "install" \/ At("install")
    PROVE  Durable' = Durable /\ Durable = [b \in Block |-> disk[b]]
<1>1. /\ tail = Len(lh) /\ dhead' = <<>> /\ disk' = disk /\ logblk' = logblk
      /\ DOMAIN lh = 1..Len(lh)
  BY LenProperties DEF EraseLog, TypeOK
<1>2. \A b \in Block : Replay(dhead, logblk, disk, b) = disk[b]
  <2> SUFFICES ASSUME NEW b \in Block
               PROVE  Replay(dhead, logblk, disk, b) = disk[b]
    OBVIOUS
  <2>1. CASE b \in RangeOf(dhead)
    <3>1. PICK i \in DOMAIN dhead : dhead[i] = b
      BY <2>1 DEF RangeOf
    <3>2. Replay(dhead, logblk, disk, dhead[i]) = logblk[i]
      BY ReplayListed DEF DataInv, Headers
    <3>3. disk[dhead[i]] = logblk[i]
      BY <1>1 DEF DataInv, Copies
    <3> QED
      BY <3>1, <3>2, <3>3
  <2>2. CASE b \notin RangeOf(dhead)
    BY <2>2 DEF Replay
  <2> QED
    BY <2>1, <2>2
<1>3. \A b \in Block : Replay(dhead', logblk', disk', b) = disk[b]
  BY <1>1, ReplayEmpty
<1> QED
  BY <1>2, <1>3, ReplayRecovers DEF Durable

\* With no call in progress and nothing in the log, the buffers hold what
\* the disk holds.
LEMMA NothingLogged ==
    ASSUME TypeOK, DataInv, Running, ~At("install"), InOp = {}, NEW b \in Block,
           b \notin RangeOf(lh)
    PROVE  Bread(b) = disk[b]
<1>1. \A p \in Proc : buf[p] # b
  BY LogAssumption DEF DataInv, Buffers, InOp, OpPC
<1>2. b \notin Unflushed
  BY DEF Unflushed, At
<1>3. Clean(b)
  BY <1>1, <1>2 DEF DataInv, Buffers
<1> QED
  BY <1>3 DEF Clean, Bread

LEMMA Stutter ==
    ASSUME Mem' = Mem, Durable' = Durable, InOp' = InOp, Syncing' = Syncing,
           UNCHANGED <<pending, owed>>
    PROVE  UNCHANGED AD!avars
BY DEF AD!avars, Mem, Durable, Syncing

LEMMA SameDurable ==
    ASSUME UNCHANGED diskVars
    PROVE  Durable' = Durable
BY DEF diskVars, Durable, Recovered, RangeOf

LEMMA MemRunning ==
    ASSUME Running, Running', \A b \in Block : Bread(b)' = Bread(b)
    PROVE  Mem' = Mem
BY DEF Mem, View, Running

LEMMA MemRecovering ==
    ASSUME ~Running, ~Running', Durable' = Durable
    PROVE  Mem' = Mem
<1>1. Mem = Durable
  BY DEF Mem, Durable, View, Running
<1>2. Mem' = Durable'
  BY DEF Mem, Durable, View, Running
<1> QED
  BY <1>1, <1>2

LEMMA InitAtomic == Init => AD!AInit
<1> SUFFICES ASSUME Init PROVE AD!AInit
  OBVIOUS
<1>1. \A b \in Block : Recovered(b) = disk[b] /\ View(b) = disk[b]
  BY DEF Init, Recovered, RangeOf, View
<1>2. Durable \in [Block -> Data] /\ Mem = Durable
  BY <1>1 DEF Init, Durable, Mem
<1>3. InOp = {} /\ Syncing = {}
  BY DEF Init, InOp, OpPC, Syncing, SyncPC
<1> QED
  BY <1>2, <1>3 DEF Init, AD!AInit, Durable, Mem, Syncing

\* Recovery is invisible.
LEMMA RefineRecovery ==
    ASSUME TypeOK, Control, DataInv, Recovery
    PROVE  UNCHANGED AD!avars
<1>1. /\ ~Running /\ InOp' = InOp /\ Syncing' = Syncing
      /\ UNCHANGED <<pending, owed>>
  BY DEF Recovery, ReadHead, RecoverInstall, RecoverErase, Running, InOp,
     Syncing, syncVars
<1>2. CASE ReadHead
  <2>1. Durable' = Durable /\ ~Running'
    BY <1>2, SameDurable DEF ReadHead, Running
  <2> QED
    BY <1>1, <2>1, MemRecovering, Stutter
<1>3. CASE RecoverInstall
  <2>1. Durable' = Durable /\ ~Running'
    BY <1>3, DurableInstall DEF RecoverInstall, Running, DataInv, Headers
  <2> QED
    BY <1>1, <2>1, MemRecovering, Stutter
<1>4. CASE RecoverErase
  <2>1. Durable' = Durable /\ Durable = [b \in Block |-> disk[b]]
    BY <1>4, DurableErase DEF RecoverErase, DataInv, Headers
  <2>2. \A b \in Block : Bread(b)' = disk[b]
    BY <1>1, <1>4 DEF RecoverErase, EraseLog, bufVars, DataInv, Buffers, Clean,
       Bread
  <2>3. Mem' = [b \in Block |-> disk[b]]
    BY <1>4, <2>2 DEF RecoverErase, Mem, View
  <2>4. Mem = Durable
    BY <1>1 DEF Mem, Durable, View, Running
  <2> QED
    BY <1>1, <2>1, <2>3, <2>4, Stutter
<1> QED
  BY <1>2, <1>3, <1>4 DEF Recovery

LEMMA RefineCrash ==
    ASSUME Crash
    PROVE  AD!Crash
<1>1. Durable' = Durable
  BY SameDurable DEF Crash
<1>2. Mem' = Durable'
  BY DEF Crash, Mem, Durable, View
<1>3. InOp' = {} /\ Syncing' = {}
  BY DEF Crash, InOp, OpPC, Syncing, SyncPC
<1> QED
  BY <1>1, <1>2, <1>3 DEF Crash, AD!Crash, Mem, Durable, Syncing

\* Bringing in or recycling a buffer is invisible.
LEMMA RefineLoadEvict ==
    ASSUME TypeOK, Control, DataInv, NEW b \in Block, Load(b) \/ Evict(b)
    PROVE  UNCHANGED AD!avars
<1>1. /\ InOp' = InOp /\ Syncing' = Syncing /\ UNCHANGED <<pending, owed>>
      /\ UNCHANGED diskVars /\ Running /\ Running'
  BY DEF Load, Evict, InOp, Syncing, syncVars, Running
<1>2. Durable' = Durable
  BY <1>1, SameDurable
<1>3. \A c \in Block : Bread(c)' = Bread(c)
  <2>1. CASE Load(b)
    BY <1>1, <2>1 DEF Load, Bread, diskVars, TypeOK
  <2>2. CASE Evict(b)
    <3>1. b \notin Unflushed /\ \A p \in Proc : buf[p] # b
      BY <2>2 DEF Evict, Recyclable, DataInv, Pins, PinnedUntilInstalled
    <3>2. Clean(b)
      BY <1>1, <3>1 DEF DataInv, Buffers
    <3> QED
      BY <1>1, <2>2, <3>2 DEF Evict, Bread, Clean, diskVars, TypeOK
  <2> QED
    BY <2>1, <2>2
<1> QED
  BY <1>1, <1>2, <1>3, MemRunning, Stutter

\* The steps of calls and of sync() that change no contents.
LEMMA SameContents ==
    ASSUME phase = "run", UNCHANGED <<diskVars, cache>>,
           phase' \in {"run", "panic"}
    PROVE  Mem' = Mem /\ Durable' = Durable
<1>1. Running /\ Running'
  BY DEF Running
<1>2. \A b \in Block : Bread(b)' = Bread(b)
  BY DEF Bread, diskVars
<1> QED
  BY <1>1, <1>2, MemRunning, SameDurable

LEMMA RefineCall ==
    ASSUME TypeOK, Control, NEW p \in Proc,
           \/ CallBeginOp(p) \/ BeginOpWait(p) \/ LogWrite(p) \/ Panic(p)
           \/ Finish(p) \/ SyncWait(p) \/ SyncAgain(p)
    PROVE  UNCHANGED AD!avars
<1> USE DEF bufVars, syncVars
<1>1. Mem' = Mem /\ Durable' = Durable
  BY SameContents DEF CallBeginOp, BeginOpWait, LogWrite, Panic, Finish,
     SyncWait, SyncAgain
<1>2. InOp' = InOp /\ Syncing' = Syncing
  <2> USE DEF Goto, TypeOK, InOp, OpPC, Syncing, SyncPC
  <2>1. CASE CallBeginOp(p)
    BY <2>1 DEF CallBeginOp
  <2>2. CASE BeginOpWait(p) \/ Panic(p) \/ SyncAgain(p)
    BY <2>2 DEF BeginOpWait, Panic, SyncAgain
  <2>3. CASE LogWrite(p)
    BY <2>3 DEF LogWrite
  <2>4. CASE Finish(p)
    BY <2>4 DEF Finish
  <2>5. CASE SyncWait(p)
    BY <2>5 DEF SyncWait
  <2> QED
    BY <2>1, <2>2, <2>3, <2>4, <2>5
<1>3. UNCHANGED <<pending, owed>>
  BY DEF CallBeginOp, BeginOpWait, LogWrite, Panic, Finish, SyncWait, SyncAgain
<1> QED
  BY <1>1, <1>2, <1>3, Stutter

LEMMA RefineBegin ==
    ASSUME TypeOK, NEW p \in Proc, BeginOp(p)
    PROVE  AD!Begin(p)
<1>1. Mem' = Mem /\ Durable' = Durable
  BY SameContents DEF BeginOp, bufVars
<1>2. p \notin InOp /\ InOp' = InOp \union {p} /\ Syncing' = Syncing
  BY DEF BeginOp, Goto, TypeOK, InOp, OpPC, Syncing, SyncPC
<1> QED
  BY <1>1, <1>2 DEF BeginOp, syncVars, AD!Begin, Mem, Durable, Syncing

LEMMA RefineEnd ==
    ASSUME TypeOK, NEW p \in Proc, EndOp(p)
    PROVE  AD!End(p)
<1>1. Mem' = Mem /\ Durable' = Durable
  BY SameContents DEF EndOp, bufVars
<1>2. p \in InOp /\ InOp' = InOp \ {p} /\ Syncing' = Syncing
  BY DEF EndOp, Goto, TypeOK, InOp, OpPC, Syncing, SyncPC
<1> QED
  BY <1>1, <1>2 DEF EndOp, AD!End, Mem, Durable, Syncing

LEMMA RefineWrite ==
    ASSUME TypeOK, NEW p \in Proc, NEW b \in Block, NEW v \in Data, Modify(p, b, v)
    PROVE  AD!Write(p, b, v)
<1>1. Durable' = Durable
  BY SameDurable DEF Modify
<1>2. p \in InOp /\ InOp' = InOp /\ Syncing' = Syncing
  BY DEF Modify, Goto, TypeOK, InOp, OpPC, Syncing, SyncPC
<1>3. \A c \in Block : Bread(c)' = IF c = b THEN v ELSE Bread(c)
  BY LogAssumption DEF Modify, Bread, diskVars, TypeOK
<1>4. Mem' = [Mem EXCEPT ![b] = v]
  BY <1>3 DEF Modify, Mem, View
<1> QED
  BY <1>1, <1>2, <1>4 DEF Modify, syncVars, AD!Write, Mem, Durable, Syncing

LEMMA RefineCallSync ==
    ASSUME TypeOK, NEW p \in Proc, CallSync(p)
    PROVE  AD!SyncCall(p)
<1>1. Mem' = Mem /\ Durable' = Durable
  BY SameContents DEF CallSync, bufVars
<1>2. InOp' = InOp /\ p \notin Syncing /\ Syncing' = Syncing \union {p}
  BY DEF CallSync, Goto, TypeOK, InOp, OpPC, Syncing, SyncPC
<1> QED
  BY <1>1, <1>2 DEF CallSync, AD!SyncCall, Mem, Durable, Syncing

LEMMA RefineSyncReturn ==
    ASSUME IndInv, AtomicInv, NEW p \in Proc, SyncReturn(p)
    PROVE  AD!SyncReturn(p)
<1>1. Mem' = Mem /\ Durable' = Durable
  BY SameContents DEF SyncReturn, bufVars
<1>2. InOp' = InOp /\ p \in Syncing /\ Syncing' = Syncing \ {p}
  BY DEF SyncReturn, Goto, IndInv, TypeOK, InOp, OpPC, Syncing, SyncPC
<1>3. owed[p] = {}
  BY SyncReturnsPaid
<1> QED
  BY <1>1, <1>2, <1>3 DEF SyncReturn, syncVars, AD!SyncReturn, Mem, Durable, Syncing

\* A commit() with an empty log has nothing to make durable.
LEMMA RefineCommit ==
    ASSUME TypeOK, Control, DataInv, NEW p \in Proc, Commit(p)
    PROVE  AD!Commit \/ UNCHANGED AD!avars
<1>1. Mem' = Mem /\ Durable' = Durable
  BY SameContents DEF Commit, bufVars
<1>2. InOp = {} /\ InOp' = InOp /\ Syncing' = Syncing
  <2>1. InOp = {}
    BY DEF Commit, Control, CommitPC
  <2>2. \A q \in Proc : pc'[q] = pc[q] \/ (q = p /\ pc'[q] \in {"write_log", "finish"})
    BY DEF Commit, Goto, TypeOK
  <2>3. pc[p] = "commit"
    BY DEF Commit
  <2> QED
    BY <2>1, <2>2, <2>3 DEF InOp, OpPC, Syncing, SyncPC
<1>3. CASE Len(lh) > 0
  <2>1. UNCHANGED <<pending, owed>>
    BY <1>3 DEF Commit
  <2> QED
    BY <1>1, <1>2, <2>1, Stutter
<1>4. CASE ~(Len(lh) > 0)
  <2>1. RangeOf(lh) = {}
    BY <1>4, LenProperties DEF TypeOK, RangeOf
  <2>2. Running /\ ~At("install")
    BY OnlyCommitter DEF Commit, Running, At, CommitPC
  <2>3. dhead = <<>>
    BY <2>2 DEF DataInv, Headers
  <2>4. \A b \in Block : Recovered(b) = disk[b] /\ View(b) = disk[b]
    BY <1>2, <2>1, <2>2, <2>3, NothingLogged, ReplayRecovers, ReplayEmpty
    DEF View, Running
  <2>5. Mem = Durable
    BY <2>4 DEF Mem, Durable
  <2>6. pending' = {} /\ owed' = [q \in Proc |-> {}]
    BY <1>4 DEF Commit, Settled
  <2> QED
    BY <1>1, <1>2, <2>5, <2>6 DEF AD!Commit, Mem, Durable, Syncing
<1> QED
  BY <1>3, <1>4

\* Copying a buffer to the log is invisible: the header does not list it yet.
LEMMA RefineWriteLog ==
    ASSUME TypeOK, Control, DataInv, NEW p \in Proc, WriteLog(p)
    PROVE  UNCHANGED AD!avars
<1> DEFINE b == lh[tail + 1]
<1>1. /\ InOp' = InOp /\ Syncing' = Syncing /\ UNCHANGED <<pending, owed>>
      /\ Running /\ Running' /\ disk' = disk /\ dhead' = dhead
      /\ cache' = [cache EXCEPT ![b] = Bread(b)]
  BY DEF WriteLog, InOp, Syncing, syncVars, Running
<1>2. dhead = <<>>
  <2>1. ~At("install")
    BY OnlyCommitter DEF WriteLog, At, CommitPC
  <2> QED
    BY <1>1, <2>1 DEF DataInv, Headers
<1>3. Durable' = Durable
  BY <1>1, <1>2, ReplayRecovers, ReplayEmpty DEF Durable
<1>4. \A c \in Block : Bread(c)' = Bread(c)
  BY <1>1 DEF Bread, TypeOK
<1> QED
  BY <1>1, <1>3, <1>4, MemRunning, Stutter

\* write_head() is the commit point: what a crash would leave becomes, at
\* one disk write, what the running kernel sees.
LEMMA RefineWriteHead ==
    ASSUME TypeOK, Control, DataInv, NEW p \in Proc, WriteHead(p)
    PROVE  AD!Commit
<1>1. /\ Running /\ Running' /\ phase = "run" /\ phase' = "run"
      /\ UNCHANGED <<disk, logblk, cache>>
      /\ dhead' = lh /\ tail = Len(lh)
      /\ pending' = {} /\ owed' = [q \in Proc |-> {}]
  BY DEF WriteHead, LogWritten, HeadOut, Settled, Running, bufVars
<1>2. At("write_log") /\ ~At("install")
  BY OnlyCommitter DEF WriteHead, At, CommitPC
<1>3. InOp = {} /\ InOp' = {} /\ Syncing' = Syncing
  <2>1. InOp = {}
    BY DEF WriteHead, Control, CommitPC
  <2> QED
    BY <2>1 DEF WriteHead, Goto, TypeOK, InOp, OpPC, Syncing, SyncPC
<1>4. Mem' = Mem
  BY <1>1, MemRunning DEF Bread
<1>5. \A b \in Block : Replay(lh, logblk, disk, b) = Bread(b)
  <2> SUFFICES ASSUME NEW b \in Block
               PROVE  Replay(lh, logblk, disk, b) = Bread(b)
    OBVIOUS
  <2>1. CASE b \in RangeOf(lh)
    <3>1. PICK i \in DOMAIN lh : lh[i] = b
      BY <2>1 DEF RangeOf
    <3>2. Replay(lh, logblk, disk, lh[i]) = logblk[i]
      BY ReplayListed DEF DataInv, Headers
    <3>3. i \in 1..tail
      BY <1>1, LenProperties DEF TypeOK
    <3>4. logblk[i] = cache[b]
      BY <1>2, <3>1, <3>3 DEF DataInv, Copies
    <3>5. cache[b] # NotCached
      BY <1>1, <1>2, <2>1, UnflushedCases DEF DataInv, Buffers
    <3> QED
      BY <3>1, <3>2, <3>4, <3>5 DEF Bread
  <2>2. CASE b \notin RangeOf(lh)
    BY <1>1, <1>2, <1>3, <2>2, NothingLogged DEF Replay
  <2> QED
    BY <2>1, <2>2
<1>6. Durable' = [b \in Block |-> Bread(b)]
  BY <1>1, <1>5, ReplayRecovers DEF Durable
<1>7. Mem = [b \in Block |-> Bread(b)]
  BY <1>1 DEF Mem, View
<1> QED
  BY <1>1, <1>3, <1>4, <1>6, <1>7 DEF AD!Commit, Mem, Durable, Syncing

\* Installing the committed blocks and erasing the log are invisible.
LEMMA RefineInstall ==
    ASSUME TypeOK, Control, DataInv, NEW p \in Proc, Install(p)
    PROVE  UNCHANGED AD!avars
<1>1. /\ InOp' = InOp /\ Syncing' = Syncing /\ UNCHANGED <<pending, owed>>
      /\ Running /\ Running' /\ InstallBlock /\ At("install")
  BY DEF Install, InOp, Syncing, syncVars, Running, At
<1>2. lh = dhead
  BY <1>1 DEF DataInv, Headers
<1>3. Durable' = Durable
  BY <1>1, <1>2, DurableInstall
<1>4. \A c \in Block : Bread(c)' = Bread(c)
  <2>1. /\ lh[tail + 1] \in Block /\ tail + 1 \in DOMAIN lh
        /\ cache'[lh[tail + 1]] = logblk[tail + 1]
        /\ \A c \in Block : c # lh[tail + 1] =>
               cache'[c] = cache[c] /\ disk'[c] = disk[c]
    BY <1>1, InstallTurn DEF DataInv, Headers, Copies
  <2>2. tail + 1 \in (tail + 1)..Len(lh)
    BY <2>1, LenProperties, LogAssumption DEF TypeOK
  <2>3. logblk[tail + 1] = cache[lh[tail + 1]]
    BY <1>1, <2>2 DEF DataInv, Copies
  <2>4. cache[lh[tail + 1]] # NotCached
    BY <1>1, <2>1, <2>2, UnflushedCases DEF DataInv, Buffers
  <2> QED
    BY <2>1, <2>3, <2>4 DEF Bread
<1> QED
  BY <1>1, <1>3, <1>4, MemRunning, Stutter

LEMMA RefineErase ==
    ASSUME TypeOK, Control, DataInv, NEW p \in Proc, Erase(p)
    PROVE  UNCHANGED AD!avars
<1>1. /\ UNCHANGED <<pending, owed>>
      /\ Running /\ Running' /\ EraseLog /\ At("install")
      /\ UNCHANGED <<cache, disk>>
  BY DEF Erase, EraseLog, bufVars, syncVars, Running, At
<1>2. InOp' = InOp /\ Syncing' = Syncing
  BY DEF Erase, Goto, TypeOK, InOp, OpPC, Syncing, SyncPC
<1>3. Durable' = Durable
  BY <1>1, DurableErase DEF DataInv, Headers
<1>4. \A c \in Block : Bread(c)' = Bread(c)
  BY <1>1 DEF Bread
<1> QED
  BY <1>1, <1>2, <1>3, <1>4, MemRunning, Stutter

LEMMA RefineStep ==
    ASSUME IndInv, AtomicInv, [Next]_vars
    PROVE  [AD!ANext]_AD!avars
<1> USE DEF IndInv, AtomicInv
<1>1. CASE Recovery
  BY <1>1, RefineRecovery
<1>2. CASE Crash
  BY <1>2, RefineCrash DEF AD!ANext
<1>3. ASSUME NEW b \in Block, Load(b) \/ Evict(b)
      PROVE  UNCHANGED AD!avars
  BY <1>3, RefineLoadEvict
<1>4. ASSUME NEW p \in Proc, CallBeginOp(p) \/ CallSync(p) \/ Step(p)
      PROVE  AD!ANext \/ UNCHANGED AD!avars
  <2>1. CASE \/ CallBeginOp(p) \/ BeginOpWait(p) \/ LogWrite(p) \/ Panic(p)
             \/ Finish(p) \/ SyncWait(p) \/ SyncAgain(p)
    BY <2>1, RefineCall
  <2>2. CASE BeginOp(p)
    BY <2>2, RefineBegin DEF AD!ANext
  <2>3. CASE EndOp(p)
    BY <2>3, RefineEnd DEF AD!ANext
  <2>4. ASSUME NEW b \in Block, NEW v \in Data, Modify(p, b, v)
        PROVE  AD!ANext
    BY <2>4, RefineWrite DEF AD!ANext
  <2>5. CASE CallSync(p)
    BY <2>5, RefineCallSync DEF AD!ANext
  <2>6. CASE SyncReturn(p)
    BY <2>6, RefineSyncReturn DEF AD!ANext
  <2>7. CASE Commit(p)
    BY <2>7, RefineCommit DEF AD!ANext
  <2>8. CASE WriteHead(p)
    BY <2>8, RefineWriteHead DEF AD!ANext
  <2>9. CASE WriteLog(p) \/ Install(p) \/ Erase(p)
    BY <2>9, RefineWriteLog, RefineInstall, RefineErase
  <2> QED
    BY <1>4, <2>1, <2>2, <2>3, <2>4, <2>5, <2>6, <2>7, <2>8, <2>9 DEF Step
<1>5. CASE UNCHANGED vars
  <2>1. Mem' = Mem /\ Durable' = Durable /\ InOp' = InOp /\ Syncing' = Syncing
        /\ UNCHANGED <<pending, owed>>
    BY <1>5 DEF vars, diskVars, bufVars, syncVars, Mem, View, Bread, Durable,
       Recovered, RangeOf, InOp, Syncing
  <2> QED
    BY <2>1, Stutter
<1> QED
  BY <1>1, <1>2, <1>3, <1>4, <1>5 DEF Next

\* begin_op(), log_write(), end_op(), commit() and recover_from_log() are an
\* atomic disk: the calls of a group commit survive a crash, at any disk
\* write and in recovery itself, all together or not at all.
THEOREM LogIsAtomic == Spec => CrashAtomicity
BY InitAtomic, RefineStep, AtomicInvariant, PTL DEF Spec, CrashAtomicity, AD!ASpec
=============================================================================
