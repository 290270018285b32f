-------------------------- MODULE VirtioDiskProofs --------------------------
(***************************************************************************)
(* For any processes and buffers, any number of descriptors and any index  *)
(* width that it divides: the driver neither leaks nor shares descriptors, *)
(* misses no completion and no release of descriptors, never panics, and   *)
(* each call returns after its own transfer.                               *)
(*                                                                         *)
(* The inductive invariant DriverInv follows a request: three descriptors  *)
(* of its own form its chain, and until the handler has seen it, its head  *)
(* is in one place of the path available ring, device, used ring.          *)
(***************************************************************************)
EXTENDS VirtioDisk, RingTheorems, FiniteSetTheorems

Labels == {"idle", "read", "write", "nodesc_read", "nodesc_write",
           "asleep", "awake"}
Indexes == 0..(IDXMOD - 1)
Rings == [ring : [Desc -> Desc], idx : Indexes]

Types ==
    /\ free \subseteq Desc
    /\ desc \in [Desc -> [addr : Desc \union Buf \union {None},
                          next : Desc, more : BOOLEAN]]
    /\ ops \in [Desc -> BOOLEAN]
    /\ infob \in [Desc -> Buf \union {None}]
    /\ status \in [Desc -> {"ok", "unset"}]
    /\ bdisk \in [Buf -> BOOLEAN]
    /\ avail \in Rings
    /\ used \in Rings
    /\ used_idx \in Indexes
    /\ seen \in Indexes
    /\ pc \in [Proc -> Labels]
    /\ buf \in [Proc -> Buf \union {None}]
    /\ head \in [Proc -> Desc]
    /\ fetched \subseteq Desc
    /\ moved \in [Buf -> {"no", "in", "out"}]

\* Each call has its own buffer.
Buffers ==
    /\ \A p \in Proc : pc[p] = "idle" <=> buf[p] = None
    /\ \A p, q \in Proc : buf[p] = buf[q] /\ buf[p] # None => p = q

\* The chain of p: the request, the data and the status byte.
Second(p) == desc[head[p]].next
Third(p) == desc[Second(p)].next
Three(p) == {head[p], Second(p), Third(p)}

\* What Submit has written is there until Finish.
Filled(p) ==
    /\ desc[head[p]].addr = head[p] /\ desc[head[p]].more
    /\ desc[Second(p)].addr = buf[p] /\ desc[Second(p)].more
    /\ desc[Third(p)].addr = head[p] /\ ~desc[Third(p)].more
    /\ infob[head[p]] = buf[p]
    /\ Second(p) # head[p] /\ Third(p) # head[p] /\ Third(p) # Second(p)

Chains ==
    /\ \A p \in InFlight : Filled(p)
    /\ \A p \in InFlight : Three(p) \cap free = {}
    /\ \A p, q \in InFlight : p # q => Three(p) \cap Three(q) = {}
    /\ IsFiniteSet(InFlight)
    /\ Cardinality(free) + 3 * Cardinality(InFlight) = NUM

\* The three places of a request on its way.
ToFetch == Unseen(avail, seen)
ToHandle == Unseen(used, used_idx)

\* No element twice.
Once(s) == \A j, k \in 1..Len(s) : s[j] = s[k] => j = k

Apart ==
    /\ Once(ToFetch)
    /\ Once(ToHandle)
    /\ Range(ToFetch) \cap fetched = {}
    /\ Range(ToFetch) \cap Range(ToHandle) = {}
    /\ fetched \cap Range(ToHandle) = {}

OnTheWay ==
    /\ Range(ToFetch) \union fetched \union Range(ToHandle)
           = {head[p] : p \in Waiting}
    /\ Len(ToFetch) + Cardinality(fetched) + Len(ToHandle)
           = Cardinality(Waiting)
    /\ \A h \in Range(ToHandle) : status[h] = "ok"
    /\ ToHandle # <<>> => handling \/ isr \/ notify
    /\ \A p \in Proc : pc[p] = "asleep" => p \in Waiting

\* The device has moved the data of those it has served.
Served ==
    /\ \A p \in InFlight :
          moved[buf[p]] = IF head[p] \in Range(ToFetch) \union fetched THEN "no"
                          ELSE IF ops[head[p]] THEN "out" ELSE "in"
    /\ \A b \in Buf : (\A p \in InFlight : buf[p] # b) => moved[b] = "no"

DriverInv ==
    /\ Types
    /\ Buffers
    /\ Chains
    /\ Apart
    /\ OnTheWay
    /\ Served
    /\ SleepersAreShort
    /\ ~panicked
-----------------------------------------------------------------------------
(* Sequences without repetition.                                           *)

LEMMA OnceAppend ==
    ASSUME NEW S, NEW s \in Seq(S), NEW x \in S
    PROVE  /\ Append(s, x) \in Seq(S)
           /\ Range(Append(s, x)) = Range(s) \union {x}
           /\ Len(Append(s, x)) = Len(s) + 1
           /\ Once(s) /\ x \notin Range(s) => Once(Append(s, x))
<1> DEFINE t == Append(s, x)
<1>1. /\ t \in Seq(S) /\ Len(s) \in Nat /\ Len(t) = Len(s) + 1
      /\ DOMAIN s = 1..Len(s) /\ DOMAIN t = 1..(Len(s) + 1)
      /\ \A k \in 1..Len(s) : t[k] = s[k]
      /\ t[Len(s) + 1] = x
  BY AppendProperties, LenProperties
<1> HIDE DEF t
<1>2. Range(t) = Range(s) \union {x}
  <2>1. \A k \in 1..(Len(s) + 1) : k \in 1..Len(s) \/ k = Len(s) + 1
    BY <1>1
  <2>2. \A k \in 1..Len(s) : k \in 1..(Len(s) + 1)
    BY <1>1
  <2>3. Len(s) + 1 \in 1..(Len(s) + 1)
    BY <1>1
  <2> QED
    BY <1>1, <2>1, <2>2, <2>3 DEF Range
<1>3. ASSUME Once(s), x \notin Range(s)
      PROVE  Once(t)
  BY <1>1, <1>3 DEF Once, Range
<1> QED
  BY <1>1, <1>2, <1>3 DEF t

LEMMA OnceTail ==
    ASSUME NEW S, NEW s \in Seq(S), s # <<>>, Once(s)
    PROVE  /\ Tail(s) \in Seq(S)
           /\ Range(Tail(s)) = Range(s) \ {Head(s)}
           /\ Head(s) \in Range(s)
           /\ Len(Tail(s)) = Len(s) - 1 /\ Len(s) \in Nat \ {0}
           /\ Once(Tail(s))
<1> DEFINE t == Tail(s)
           h == Head(s)
<1>1. /\ t \in Seq(S) /\ Len(s) \in Nat \ {0} /\ Len(t) = Len(s) - 1
      /\ DOMAIN s = 1..Len(s) /\ DOMAIN t = 1..(Len(s) - 1)
      /\ \A k \in 1..(Len(s) - 1) : t[k] = s[k + 1]
      /\ h = s[1]
  <2>1. /\ t \in Seq(S) /\ Len(t) = Len(s) - 1
        /\ \A k \in 1..(Len(s) - 1) : t[k] = s[k + 1]
        /\ h = s[1]
    BY HeadTailProperties
  <2>2. Len(s) \in Nat \ {0} /\ DOMAIN s = 1..Len(s)
    BY EmptySeq, LenProperties
  <2>3. DOMAIN t = 1..Len(t)
    BY <2>1, LenProperties
  <2> QED
    BY <2>1, <2>2, <2>3
<1> HIDE DEF t, h
<1>2. h \in Range(s)
  BY <1>1 DEF Range
<1>3. Range(t) = Range(s) \ {h}
  <2>1. ASSUME NEW k \in 1..(Len(s) - 1)
        PROVE  t[k] \in Range(s) /\ t[k] # h
    <3>1. k + 1 \in 1..Len(s) /\ 1 \in 1..Len(s) /\ k + 1 # 1
      BY <1>1
    <3> QED
      BY <1>1, <3>1 DEF Once, Range
  <2>2. ASSUME NEW k \in 1..Len(s), s[k] # h
        PROVE  s[k] \in Range(t)
    <3>1. k - 1 \in 1..(Len(s) - 1) /\ (k - 1) + 1 = k
      BY <1>1, <2>2
    <3>2. t[k - 1] = s[k]
      BY <1>1, <3>1
    <3> QED
      BY <1>1, <3>1, <3>2 DEF Range
  <2> QED
    BY <1>1, <2>1, <2>2 DEF Range
<1>4. Once(t)
  <2> SUFFICES ASSUME NEW j \in 1..(Len(s) - 1), NEW k \in 1..(Len(s) - 1),
                      t[j] = t[k]
               PROVE  j = k
    BY <1>1 DEF Once
  <2>1. s[j + 1] = s[k + 1] /\ j + 1 \in 1..Len(s) /\ k + 1 \in 1..Len(s)
    BY <1>1
  <2>2. j + 1 = k + 1
    BY <2>1 DEF Once
  <2> QED
    BY <2>2
<1> QED
  BY <1>1, <1>2, <1>3, <1>4 DEF t, h
-----------------------------------------------------------------------------
(* The rings.                                                              *)

LEMMA Sizes ==
    /\ RingOf(NUM, IDXMOD)
    /\ NUM \in Nat /\ NUM >= 3 /\ IDXMOD \in Nat /\ NUM <= IDXMOD
    /\ 0 \in Desc /\ 0 \in Indexes
<1> DEFINE q == IDXMOD \div NUM
<1>1. NUM \in Nat \ {0} /\ IDXMOD \in Nat \ {0} /\ IDXMOD % NUM = 0
  BY VirtioAssumption
<1>2. q \in Int /\ IDXMOD = NUM * q + (IDXMOD % NUM)
  BY <1>1, ModDef
<1> HIDE DEF q
<1>3. IDXMOD = NUM * q
  BY <1>1, <1>2
<1>4. q <= 0 => NUM * q <= 0
  BY <1>1, <1>2
<1>5. q >= 1 => NUM * q >= NUM
  BY <1>1, <1>2
<1>6. NUM <= IDXMOD
  BY <1>1, <1>2, <1>3, <1>4, <1>5
<1> QED
  BY <1>1, <1>6, VirtioAssumption DEF RingOf, Desc, Indexes

LEMMA UnseenIsWindow ==
    ASSUME NEW r, NEW j
    PROVE  Unseen(r, j) = Window(r.ring, j, r.idx, NUM, IDXMOD)
BY DEF Unseen, Window

LEMMA RingsAreRings ==
    ASSUME NEW r \in Rings, NEW j \in Indexes
    PROVE  /\ IsRing(r.ring, j, r.idx, NUM, IDXMOD)
           /\ r.ring \in [0..(NUM - 1) -> Desc] /\ r.idx \in Indexes
           /\ r.idx % NUM \in Desc /\ j % NUM \in Desc
<1>1. r.ring \in [0..(NUM - 1) -> Desc] /\ r.idx \in 0..(IDXMOD - 1)
  BY DEF Rings, Desc, Indexes
<1>2. IsRing(r.ring, j, r.idx, NUM, IDXMOD)
  BY <1>1, Sizes DEF IsRing, Indexes
<1>3. r.idx \in Int /\ j \in Int /\ NUM \in Nat \ {0}
  BY <1>1, Sizes DEF Indexes
<1>4. r.idx % NUM \in Desc /\ j % NUM \in Desc
  BY <1>3, ModDef DEF Desc
<1> QED
  BY <1>1, <1>2, <1>4 DEF Indexes

LEMMA UnseenType ==
    ASSUME NEW r \in Rings, NEW j \in Indexes
    PROVE  /\ Unseen(r, j) \in Seq(Desc)
           /\ Len(Unseen(r, j)) = (r.idx - j) % IDXMOD
           /\ Unseen(r, j) = <<>> <=> r.idx = j
<1>1. Unseen(r, j) \in Seq(Desc) /\ Len(Unseen(r, j)) = (r.idx - j) % IDXMOD
  BY RingsAreRings, UnseenIsWindow, WindowType
<1>2. (r.idx - j) % IDXMOD = 0 <=> r.idx = j
  <2>1. IDXMOD \in Nat \ {0} /\ j \in 0..(IDXMOD - 1) /\ r.idx \in 0..(IDXMOD - 1)
    BY Sizes, VirtioAssumption DEF Indexes, Rings
  <2> QED
    BY <2>1, CounterGap
<1>3. Unseen(r, j) = <<>> <=> Len(Unseen(r, j)) = 0
  BY <1>1, EmptySeq
<1> QED
  BY <1>1, <1>2, <1>3

LEMMA PushStep ==
    ASSUME NEW r \in Rings, NEW j \in Indexes, NEW h \in Desc,
           Len(Unseen(r, j)) + 1 < NUM
    PROVE  /\ Push(r, h) \in Rings
           /\ Unseen(Push(r, h), j) = Append(Unseen(r, j), h)
<1>1. /\ IsRing(r.ring, j, r.idx, NUM, IDXMOD)
      /\ r.ring \in [0..(NUM - 1) -> Desc] /\ r.idx \in Indexes
      /\ r.idx % NUM \in Desc
  BY RingsAreRings
<1>2. (r.idx + 1) % IDXMOD \in Indexes
  <2>1. IDXMOD \in Nat \ {0} /\ r.idx \in 0..(IDXMOD - 1)
    BY <1>1, Sizes, VirtioAssumption DEF Indexes
  <2> QED
    BY <2>1, CounterStep DEF Indexes
<1>3. /\ Push(r, h).ring = StoreAt(r.ring, r.idx, h, NUM)
      /\ Push(r, h).idx = (r.idx + 1) % IDXMOD
      /\ Push(r, h) = [ring |-> StoreAt(r.ring, r.idx, h, NUM),
                       idx |-> (r.idx + 1) % IDXMOD]
  BY DEF Push, StoreAt
<1>4. StoreAt(r.ring, r.idx, h, NUM) \in [Desc -> Desc]
  BY <1>1 DEF StoreAt, Desc
<1>5. Push(r, h) \in Rings
  BY <1>2, <1>3, <1>4 DEF Rings
<1>6. (r.idx - j) % IDXMOD < NUM /\ ((r.idx - j) % IDXMOD) + 1 < IDXMOD
  <2> DEFINE k == (r.idx - j) % IDXMOD
  <2>1. k = Len(Unseen(r, j)) /\ k \in Nat
    BY UnseenType, LenProperties
  <2> HIDE DEF k
  <2>2. k < NUM /\ k + 1 < IDXMOD
    BY <2>1, Sizes
  <2> QED
    BY <2>2 DEF k
<1>7. Window(StoreAt(r.ring, r.idx, h, NUM), j, (r.idx + 1) % IDXMOD, NUM, IDXMOD)
          = Append(Window(r.ring, j, r.idx, NUM, IDXMOD), h)
  BY <1>1, <1>6, WindowPut
<1> QED
  BY <1>3, <1>5, <1>7, UnseenIsWindow

LEMMA PassStep ==
    ASSUME NEW r \in Rings, NEW j \in Indexes, r.idx # j,
           Len(Unseen(r, j)) < NUM
    PROVE  /\ Passed(r, j) \in Rings /\ Passed(r, j).idx = r.idx
           /\ (j + 1) % IDXMOD \in Indexes
           /\ r.ring[j % NUM] = Head(Unseen(r, j))
           /\ Unseen(Passed(r, j), (j + 1) % IDXMOD) = Tail(Unseen(r, j))
<1>1. /\ IsRing(r.ring, j, r.idx, NUM, IDXMOD)
      /\ r.ring \in [0..(NUM - 1) -> Desc] /\ r.idx \in Indexes
      /\ j % NUM \in Desc
  BY RingsAreRings
<1>2. (j + 1) % IDXMOD \in Indexes
  <2>1. IDXMOD \in Nat \ {0} /\ j \in 0..(IDXMOD - 1)
    BY Sizes, VirtioAssumption DEF Indexes
  <2> QED
    BY <2>1, CounterStep DEF Indexes
<1>3. /\ Passed(r, j).ring = StoreAt(r.ring, j, 0, NUM)
      /\ Passed(r, j).idx = r.idx
      /\ Passed(r, j) = [ring |-> StoreAt(r.ring, j, 0, NUM), idx |-> r.idx]
  BY DEF Passed, StoreAt, Rings
<1>4. StoreAt(r.ring, j, 0, NUM) \in [Desc -> Desc]
  BY <1>1, Sizes DEF StoreAt, Desc
<1>5. Passed(r, j) \in Rings
  BY <1>1, <1>3, <1>4 DEF Rings
<1>6. (r.idx - j) % IDXMOD <= NUM
  <2> DEFINE k == (r.idx - j) % IDXMOD
  <2>1. k = Len(Unseen(r, j)) /\ k \in Nat
    BY UnseenType, LenProperties
  <2> HIDE DEF k
  <2>2. k <= NUM
    BY <2>1, Sizes
  <2> QED
    BY <2>2 DEF k
<1>7. Window(StoreAt(r.ring, j, 0, NUM), (j + 1) % IDXMOD, r.idx, NUM, IDXMOD)
          = Window(r.ring, (j + 1) % IDXMOD, r.idx, NUM, IDXMOD)
  BY <1>1, <1>6, WindowPassed
<1>8. LET Q == Window(r.ring, j, r.idx, NUM, IDXMOD)
      IN  /\ Head(Q) = r.ring[j % NUM]
          /\ Window(r.ring, (j + 1) % IDXMOD, r.idx, NUM, IDXMOD) = Tail(Q)
  BY <1>1, <1>6, WindowTake
<1> QED
  BY <1>2, <1>3, <1>5, <1>7, <1>8, UnseenIsWindow
-----------------------------------------------------------------------------
(* The descriptors.                                                        *)

LEMMA Finite ==
    ASSUME Types
    PROVE  /\ IsFiniteSet(free) /\ Cardinality(free) \in Nat
           /\ IsFiniteSet(fetched) /\ Cardinality(fetched) \in Nat
           /\ IsFiniteSet(Desc) /\ Cardinality(Desc) = NUM
<1>1. IsFiniteSet(Desc) /\ Cardinality(Desc) = NUM
  BY Sizes, FS_Interval DEF Desc
<1>2. IsFiniteSet(free) /\ IsFiniteSet(fetched)
  BY <1>1, FS_Subset DEF Types
<1> QED
  BY <1>1, <1>2, FS_CardinalityType

LEMMA Least ==
    ASSUME NEW S, S \subseteq Nat, S # {}
    PROVE  Lowest(S) \in S
<1> DEFINE R == OpToRel(<, Nat)
<1>1. IsWellFoundedOn(R, Nat)
  BY NatLessThanWellFounded
<1>2. R = {ss \in Nat \X Nat : ss[1] < ss[2]}
  BY DEF OpToRel
<1> HIDE DEF R
<1>3. PICK x \in S : \A y \in S : ~ (<<y, x>> \in R)
  BY <1>1, WFMin
<1>4. ASSUME NEW y \in S PROVE x <= y
  <2>1. x \in Nat /\ y \in Nat /\ ~(<<y, x>> \in R)
    BY <1>3
  <2>2. y < x => <<y, x>> \in R
    BY <1>2, <2>1
  <2> QED
    BY <2>1, <2>2
<1>5. \E i \in S : \A j \in S : i <= j
  BY <1>4
<1> QED
  BY <1>5 DEF Lowest

\* alloc3_desc() finds three when there are three.
LEMMA PickThree ==
    ASSUME Types, Cardinality(free) >= 3
    PROVE  LET i0 == Lowest(free)
               i1 == Lowest(free \ {i0})
               i2 == Lowest(free \ {i0, i1})
           IN  /\ {i0, i1, i2} \subseteq free
               /\ i0 # i1 /\ i0 # i2 /\ i1 # i2
               /\ Cardinality(free \ {i0, i1, i2}) = Cardinality(free) - 3
<1> DEFINE i0 == Lowest(free)
           F1 == free \ {i0}
           i1 == Lowest(F1)
           F2 == free \ {i0, i1}
           i2 == Lowest(F2)
           F3 == free \ {i0, i1, i2}
<1>1. /\ IsFiniteSet(free) /\ Cardinality(free) \in Nat /\ Cardinality({}) = 0
      /\ free \subseteq Nat
  BY Finite, FS_EmptySet, Sizes DEF Types, Desc
<1>2. i0 \in free
  <2>1. free # {}
    BY <1>1
  <2> QED
    BY <1>1, <2>1, Least
<1> HIDE DEF i0
<1>3. IsFiniteSet(F1) /\ Cardinality(F1) = Cardinality(free) - 1 /\ F1 \subseteq Nat
  BY <1>1, <1>2, FS_RemoveElement
<1>4. F2 = F1 \ {i1} /\ F3 = F2 \ {i2} /\ i0 \notin F1
  OBVIOUS
<1> HIDE DEF F1, F2, F3
<1>5. i1 \in F1
  <2>1. F1 # {}
    BY <1>1, <1>3
  <2> QED
    BY <1>3, <2>1, Least
<1> HIDE DEF i1
<1>6. IsFiniteSet(F2) /\ Cardinality(F2) = Cardinality(free) - 2 /\ F2 \subseteq Nat
  <2>1. IsFiniteSet(F2) /\ Cardinality(F2) = Cardinality(F1) - 1
    BY <1>3, <1>4, <1>5, FS_RemoveElement
  <2>2. Cardinality(F2) = Cardinality(free) - 2
    BY <1>1, <1>3, <2>1
  <2>3. F2 \subseteq Nat
    BY <1>3, <1>4
  <2> QED
    BY <2>1, <2>2, <2>3
<1>7. i2 \in F2
  <2>1. F2 # {}
    BY <1>1, <1>6
  <2> QED
    BY <1>6, <2>1, Least
<1> HIDE DEF i2
<1>8. Cardinality(F3) = Cardinality(free) - 3
  <2>1. Cardinality(F3) = Cardinality(F2) - 1
    BY <1>4, <1>6, <1>7, FS_RemoveElement
  <2> QED
    BY <1>1, <1>6, <2>1
<1>9. {i0, i1, i2} \subseteq free /\ i0 # i1 /\ i0 # i2 /\ i1 # i2
  BY <1>2, <1>5, <1>7 DEF F1, F2
<1>10. Cardinality(free \ {i0, i1, i2}) = Cardinality(free) - 3
  BY <1>8 DEF F3
<1> QED
  BY <1>9, <1>10 DEF i0, i1, i2, F1, F2

\* free_chain() walks the three descriptors that Submit has filled.
LEMMA ChainIsThree ==
    ASSUME Types, NEW p \in InFlight, Filled(p)
    PROVE  Chain(head[p]) = Three(p) /\ Cardinality(Three(p)) = 3
<1>1. Chain(head[p]) = Three(p)
  BY DEF Chain, Filled, Three, Second, Third
<1>2. Cardinality(Three(p)) = 3
  <2> DEFINE a == head[p]
             b == Second(p)
             c == Third(p)
  <2>1. a # b /\ c # a /\ c # b
    BY DEF Filled
  <2> HIDE DEF a, b, c
  <2>2. IsFiniteSet({a}) /\ Cardinality({a}) = 1
    BY FS_Singleton
  <2>3. IsFiniteSet({a} \union {b}) /\ Cardinality({a} \union {b}) = 2
    BY <2>1, <2>2, FS_AddElement
  <2>4. Cardinality(({a} \union {b}) \union {c}) = 3
    BY <2>1, <2>3, FS_AddElement
  <2>5. {a, b, c} = ({a} \union {b}) \union {c}
    OBVIOUS
  <2> QED
    BY <2>4, <2>5 DEF Three, a, b, c
<1> QED
  BY <1>1, <1>2

\* There is room for every request in the rings.
LEMMA Bound ==
    ASSUME DriverInv
    PROVE  /\ ToFetch \in Seq(Desc) /\ ToHandle \in Seq(Desc)
           /\ Len(ToFetch) \in Nat /\ Len(ToHandle) \in Nat
           /\ IsFiniteSet(Waiting) /\ IsFiniteSet(InFlight)
           /\ Cardinality(Waiting) \in Nat /\ Cardinality(InFlight) \in Nat
           /\ Cardinality(Waiting) <= Cardinality(InFlight)
           /\ Len(ToFetch) + Cardinality(fetched) + Len(ToHandle)
                  <= Cardinality(InFlight)
           /\ Cardinality(free) + 3 * Cardinality(InFlight) = NUM
           /\ 3 * Cardinality(InFlight) <= NUM
<1>1. ToFetch \in Seq(Desc) /\ ToHandle \in Seq(Desc)
  BY UnseenType DEF DriverInv, Types, ToFetch, ToHandle
<1>2. Len(ToFetch) \in Nat /\ Len(ToHandle) \in Nat
  BY <1>1, LenProperties
<1>3. IsFiniteSet(InFlight) /\ Waiting \subseteq InFlight
  BY DEF DriverInv, Chains, Waiting
<1>4. /\ IsFiniteSet(Waiting) /\ Cardinality(Waiting) <= Cardinality(InFlight)
  BY <1>3, FS_Subset
<1>5. Cardinality(Waiting) \in Nat /\ Cardinality(InFlight) \in Nat
  BY <1>3, <1>4, FS_CardinalityType
<1>6. Cardinality(free) \in Nat
  BY Finite DEF DriverInv
<1>7. /\ Cardinality(free) + 3 * Cardinality(InFlight) = NUM
      /\ Len(ToFetch) + Cardinality(fetched) + Len(ToHandle) = Cardinality(Waiting)
  BY DEF DriverInv, Chains, OnTheWay
<1> QED
  BY <1>1, <1>2, <1>3, <1>4, <1>5, <1>6, <1>7, Sizes

\* Different requests have different heads and buffers.
LEMMA HeadsDiffer ==
    ASSUME DriverInv, NEW p \in InFlight, NEW q \in InFlight
    PROVE  /\ head[p] = head[q] => p = q
           /\ buf[p] = buf[q] => p = q
           /\ buf[p] \in Buf /\ head[p] \in Desc
<1>1. p # q => Three(p) \cap Three(q) = {}
  BY DEF DriverInv, Chains
<1>2. head[p] \in Three(p) /\ head[q] \in Three(q)
  BY DEF Three
<1>3. buf[p] # None /\ buf[p] \in Buf /\ head[p] \in Desc
  BY DEF DriverInv, Types, Buffers, InFlight
<1>4. buf[p] = buf[q] => p = q
  BY <1>3 DEF DriverInv, Buffers, InFlight
<1> QED
  BY <1>1, <1>2, <1>3, <1>4
-----------------------------------------------------------------------------
LEMMA InitDriver == Init => DriverInv
<1> SUFFICES ASSUME Init PROVE DriverInv
  OBVIOUS
<1>1. Types
  <2>1. /\ EmptyRing \in Rings /\ 0 \in Indexes
        /\ NoDesc \in [addr : Desc \union Buf \union {None},
                       next : Desc, more : BOOLEAN]
    BY Sizes DEF EmptyRing, Rings, NoDesc
  <2> QED
    BY <2>1, Sizes DEF Init, Types, Labels
<1>2. InFlight = {} /\ Waiting = {}
  BY DEF Init, InFlight, Waiting
<1>3. IsFiniteSet({}) /\ Cardinality({}) = 0
  BY FS_EmptySet
<1>4. Chains
  <2>1. Cardinality(free) = NUM
    BY <1>1, Finite DEF Init
  <2> QED
    BY <1>2, <1>3, <2>1, Sizes DEF Chains
<1>5. ToFetch = <<>> /\ ToHandle = <<>>
  <2>1. EmptyRing \in Rings /\ 0 \in Indexes /\ EmptyRing.idx = 0
    BY Sizes DEF EmptyRing, Rings
  <2> QED
    BY <2>1, UnseenType DEF Init, ToFetch, ToHandle
<1>6. Range(<<>>) = {} /\ Len(<<>>) = 0 /\ Once(<<>>)
  BY DEF Range, Once
<1>7. Apart
  BY <1>5, <1>6 DEF Apart, Init
<1>8. OnTheWay
  BY <1>2, <1>3, <1>5, <1>6 DEF OnTheWay, Init
<1>9. Served /\ Buffers /\ SleepersAreShort /\ ~panicked
  BY <1>2, VirtioAssumption DEF Served, Buffers, SleepersAreShort, Retry, Init
<1> QED
  BY <1>1, <1>4, <1>7, <1>8, <1>9 DEF DriverInv
-----------------------------------------------------------------------------
(* The steps that neither move a request nor touch a descriptor.           *)

LEMMA Quiet ==
    ASSUME DriverInv,
           UNCHANGED <<free, desc, infob, ops, status, bdisk, avail, used_idx,
                       used, seen, fetched, moved, head, panicked>>,
           InFlight' = InFlight,
           \A p \in InFlight : buf'[p] = buf[p]
    PROVE  /\ Chains' /\ Apart' /\ Served' /\ ~panicked'
           /\ ToFetch' = ToFetch /\ ToHandle' = ToHandle
           /\ Waiting' = Waiting
           /\ Range(ToFetch') \union fetched' \union Range(ToHandle')
                  = {head'[p] : p \in Waiting'}
           /\ Len(ToFetch') + Cardinality(fetched') + Len(ToHandle')
                  = Cardinality(Waiting')
           /\ \A h \in Range(ToHandle') : status'[h] = "ok"
<1>1. ToFetch' = ToFetch /\ ToHandle' = ToHandle
  BY DEF ToFetch, ToHandle
<1>2. Waiting' = Waiting
  BY DEF Waiting
<1>3. ASSUME NEW p \in InFlight
      PROVE  /\ Three(p)' = Three(p) /\ Filled(p)' /\ Filled(p)
             /\ buf'[p] = buf[p]
  BY DEF DriverInv, Chains, Three, Second, Third, Filled
<1>4. Chains'
  BY <1>3 DEF DriverInv, Chains
<1>5. Apart'
  BY <1>1 DEF DriverInv, Apart
<1>6. Served'
  BY <1>1 DEF DriverInv, Served
<1>7. {head'[p] : p \in Waiting'} = {head[p] : p \in Waiting}
  BY <1>2
<1> QED
  BY <1>1, <1>2, <1>4, <1>5, <1>6, <1>7 DEF DriverInv, OnTheWay

\* wakeup(&disk.free[0]) moves only those that sleep on it.
LEMMA Woken ==
    ASSUME Types, NEW p \in Proc
    PROVE  /\ pc[p] = "nodesc_read" => WakeAllocators[p] = "read"
           /\ pc[p] = "nodesc_write" => WakeAllocators[p] = "write"
           /\ pc[p] \notin {"nodesc_read", "nodesc_write"}
                  => WakeAllocators[p] = pc[p]
           /\ WakeAllocators[p] \in Labels \ {"nodesc_read", "nodesc_write"}
           /\ WakeAllocators \in [Proc -> Labels]
<1>1. /\ DOMAIN Retry = {"nodesc_read", "nodesc_write"}
      /\ Retry["nodesc_read"] = "read" /\ Retry["nodesc_write"] = "write"
  BY DEF Retry
<1>2. \A q \in Proc : pc[q] \in Labels
  BY DEF Types
<1>3. ASSUME NEW q \in Proc
      PROVE  /\ pc[q] = "nodesc_read" => WakeAllocators[q] = "read"
             /\ pc[q] = "nodesc_write" => WakeAllocators[q] = "write"
             /\ pc[q] \notin {"nodesc_read", "nodesc_write"}
                    => WakeAllocators[q] = pc[q]
  BY <1>1 DEF WakeAllocators
<1>4. \A q \in Proc : WakeAllocators[q] \in Labels \ {"nodesc_read", "nodesc_write"}
  BY <1>2, <1>3 DEF Labels
<1>5. WakeAllocators = [q \in Proc |-> WakeAllocators[q]]
  BY DEF WakeAllocators
<1> QED
  BY <1>3, <1>4, <1>5

LEMMA CallKeeps ==
    ASSUME DriverInv, NEW p \in Proc, NEW b \in Buf, NEW w \in BOOLEAN,
           Call(p, b, w)
    PROVE  DriverInv'
<1>1. /\ pc[p] = "idle" /\ buf[p] = None /\ b # None
      /\ \A q \in Proc : buf[q] # b
      /\ pc' = [pc EXCEPT ![p] = IF w THEN "write" ELSE "read"]
      /\ buf' = [buf EXCEPT ![p] = b]
      /\ UNCHANGED <<free, desc, infob, ops, status, bdisk, avail, used_idx,
                     used, seen, fetched, moved, head, panicked>>
      /\ UNCHANGED <<handling, isr, notify>>
  BY VirtioAssumption DEF DriverInv, Buffers, Call, devVars
<1>2. Types /\ Buffers /\ SleepersAreShort /\ OnTheWay
  BY DEF DriverInv
<1>3. /\ \A q \in Proc : q # p => pc'[q] = pc[q] /\ buf'[q] = buf[q]
      /\ pc'[p] \in {"read", "write"} /\ buf'[p] = b
  BY <1>1, <1>2 DEF Types
<1>4. Types'
  BY <1>1, <1>2 DEF Types, Labels
<1>5. Buffers'
  BY <1>1, <1>2, <1>3 DEF Buffers
<1>6. InFlight' = InFlight /\ (\A q \in InFlight : q # p)
  BY <1>1, <1>3 DEF InFlight
<1>7. \A q \in InFlight : buf'[q] = buf[q]
  BY <1>3, <1>6 DEF InFlight
<1>8. SleepersAreShort'
  BY <1>1, <1>2, <1>3 DEF SleepersAreShort, Retry
<1>9. Waiting' = Waiting /\ ToHandle' = ToHandle
  BY <1>1, <1>6, <1>7, Quiet
<1>10. /\ ToHandle' # <<>> => handling' \/ isr' \/ notify'
       /\ \A q \in Proc : pc'[q] = "asleep" => q \in Waiting'
  BY <1>1, <1>2, <1>3, <1>9 DEF OnTheWay
<1>11. OnTheWay'
  BY <1>1, <1>6, <1>7, <1>10, Quiet DEF OnTheWay
<1> QED
  BY <1>1, <1>4, <1>5, <1>6, <1>7, <1>8, <1>11, Quiet DEF DriverInv

LEMMA AllocFailsKeeps ==
    ASSUME DriverInv, NEW p \in Proc, AllocFails(p)
    PROVE  DriverInv'
<1>1. PICK l \in {"read", "write"} :
          /\ Enter(p, l)
          /\ Cardinality(free) < 3
          /\ pc' = [(IF free = {} THEN pc ELSE WakeAllocators)
                      EXCEPT ![p] = IF l = "read" THEN "nodesc_read"
                                                  ELSE "nodesc_write"]
  BY DEF AllocFails
<1>2. /\ UNCHANGED <<free, desc, infob, ops, status, bdisk, avail, used_idx,
                     used, seen, fetched, moved, head, panicked>>
      /\ UNCHANGED <<buf, handling, isr, notify>>
  BY DEF AllocFails, GivenBack, devVars
<1>3. Types /\ Buffers /\ OnTheWay
  BY DEF DriverInv
<1>4. /\ pc' \in [Proc -> Labels]
      /\ pc'[p] \in {"nodesc_read", "nodesc_write"}
      /\ pc[p] \in {"read", "write"}
      /\ \A q \in Proc : \/ pc'[q] = pc[q]
                         \/ /\ pc[q] \in {"read", "write", "nodesc_read", "nodesc_write"}
                            /\ pc'[q] \in {"read", "write", "nodesc_read", "nodesc_write"}
  <2> DEFINE f == IF free = {} THEN pc ELSE WakeAllocators
  <2>1. /\ f \in [Proc -> Labels]
        /\ \A q \in Proc : \/ f[q] = pc[q]
                           \/ /\ pc[q] \in {"nodesc_read", "nodesc_write"}
                              /\ f[q] \in {"read", "write"}
    <3>1. CASE free = {}
      BY <1>3, <3>1 DEF Types
    <3>2. CASE free # {}
      <4>1. f = WakeAllocators
        BY <3>2
      <4>2. \A q \in Proc : WakeAllocators \in [Proc -> Labels]
        BY <1>3, Woken
      <4> QED
        BY <1>3, <4>1, <4>2, Woken
    <3> QED
      BY <3>1, <3>2
  <2>2. \E v \in {"nodesc_read", "nodesc_write"} : pc' = [f EXCEPT ![p] = v]
    BY <1>1
  <2> HIDE DEF f
  <2> QED
    BY <1>1, <2>1, <2>2 DEF Enter, Labels
<1>5. Types'
  BY <1>2, <1>3, <1>4 DEF Types
<1>6. Buffers'
  BY <1>2, <1>3, <1>4 DEF Buffers
<1>7. InFlight' = InFlight
  BY <1>4 DEF InFlight
<1>8. SleepersAreShort'
  BY <1>1, <1>2 DEF SleepersAreShort
<1>9. Waiting' = Waiting /\ ToHandle' = ToHandle
  BY <1>2, <1>7, Quiet
<1>10. /\ ToHandle' # <<>> => handling' \/ isr' \/ notify'
       /\ \A q \in Proc : pc'[q] = "asleep" => q \in Waiting'
  BY <1>2, <1>3, <1>4, <1>9 DEF OnTheWay
<1>11. OnTheWay'
  BY <1>2, <1>7, <1>10, Quiet DEF OnTheWay
<1> QED
  BY <1>2, <1>5, <1>6, <1>7, <1>8, <1>11, Quiet DEF DriverInv

LEMMA TurnKeeps ==
    ASSUME DriverInv, NEW p \in Proc, SleepAgain(p) \/ Kill(p)
    PROVE  DriverInv'
<1>1. /\ UNCHANGED <<free, desc, infob, ops, status, bdisk, avail, used_idx,
                     used, seen, fetched, moved, head, panicked>>
      /\ UNCHANGED <<buf, handling, isr, notify>>
  BY DEF SleepAgain, Kill, devVars
<1>2. Types /\ Buffers /\ OnTheWay /\ SleepersAreShort
  BY DEF DriverInv
<1>3. /\ DOMAIN Retry = {"nodesc_read", "nodesc_write"}
      /\ Retry["nodesc_read"] = "read" /\ Retry["nodesc_write"] = "write"
  BY DEF Retry
<1>4. \E v \in Labels :
          /\ pc' = [pc EXCEPT ![p] = v]
          /\ \/ pc[p] = "asleep" /\ v = "awake"
             \/ pc[p] = "awake" /\ v = "asleep" /\ ~DiskDone(p)
             \/ pc[p] = "nodesc_read" /\ v = "read"
             \/ pc[p] = "nodesc_write" /\ v = "write"
  <2>1. CASE SleepAgain(p)
    BY <2>1 DEF SleepAgain, Enter, Labels
  <2>2. CASE Kill(p)
    <3>1. CASE pc[p] = "asleep"
      BY <2>2, <3>1 DEF Kill, Labels
    <3>2. CASE pc[p] # "asleep"
      <4>1. /\ pc[p] \in {"nodesc_read", "nodesc_write"}
            /\ pc' = [pc EXCEPT ![p] = Retry[pc[p]]]
        BY <1>3, <2>2, <3>2 DEF Kill
      <4> QED
        BY <1>3, <4>1 DEF Labels
    <3> QED
      BY <3>1, <3>2
  <2> QED
    BY <2>1, <2>2
<1>5. /\ pc' \in [Proc -> Labels]
      /\ \A q \in Proc : q # p => pc'[q] = pc[q]
      /\ \/ pc[p] = "asleep" /\ pc'[p] = "awake"
         \/ pc[p] = "awake" /\ pc'[p] = "asleep" /\ ~DiskDone(p)
         \/ pc[p] = "nodesc_read" /\ pc'[p] = "read"
         \/ pc[p] = "nodesc_write" /\ pc'[p] = "write"
  BY <1>2, <1>4 DEF Types
<1>6. Types'
  BY <1>1, <1>2, <1>5 DEF Types
<1>7. Buffers'
  BY <1>1, <1>2, <1>5 DEF Buffers
<1>8. InFlight' = InFlight
  BY <1>5 DEF InFlight
<1>9. SleepersAreShort'
  BY <1>1, <1>2, <1>3, <1>5 DEF SleepersAreShort
<1>10. Waiting' = Waiting /\ ToHandle' = ToHandle
  BY <1>1, <1>8, Quiet
<1>11. \A q \in Proc : pc'[q] = "asleep" => q \in Waiting'
  <2>1. pc'[p] = "asleep" => p \in Waiting
    <3>1. pc'[p] = "asleep" => bdisk[buf[p]] /\ pc[p] = "awake"
      BY <1>5 DEF DiskDone
    <3> QED
      BY <3>1 DEF Waiting, InFlight
  <2> QED
    BY <1>2, <1>5, <1>10, <2>1 DEF OnTheWay
<1>12. OnTheWay'
  BY <1>1, <1>2, <1>8, <1>10, <1>11, Quiet DEF OnTheWay
<1> QED
  BY <1>1, <1>6, <1>7, <1>8, <1>9, <1>12, Quiet DEF DriverInv

LEMMA InterruptKeeps ==
    ASSUME DriverInv, IntrAck \/ IntrDone \/ DeviceInterrupt
    PROVE  DriverInv'
<1>1. /\ UNCHANGED <<free, desc, infob, ops, status, bdisk, avail, used_idx,
                     used, seen, fetched, moved, head, panicked>>
      /\ UNCHANGED <<pc, buf>>
  BY DEF IntrAck, IntrDone, DeviceInterrupt, devVars, drvVars
<1>2. Types /\ Buffers /\ OnTheWay /\ SleepersAreShort
  BY DEF DriverInv
<1>3. Types' /\ Buffers'
  BY <1>1, <1>2 DEF Types, Buffers
<1>4. InFlight' = InFlight
  BY <1>1 DEF InFlight
<1>5. SleepersAreShort'
  BY <1>1, <1>2 DEF SleepersAreShort
<1>6. Waiting' = Waiting /\ ToHandle' = ToHandle
  BY <1>1, <1>4, Quiet
<1>7. ToHandle # <<>> => handling' \/ isr' \/ notify'
  <2>1. CASE IntrAck
    BY <2>1 DEF IntrAck
  <2>2. CASE IntrDone
    <3>1. used \in Rings /\ used_idx \in Indexes /\ used.idx = used_idx
      BY <1>2, <2>2 DEF IntrDone, Types
    <3> QED
      BY <3>1, UnseenType DEF ToHandle
  <2>3. CASE DeviceInterrupt
    BY <2>3 DEF DeviceInterrupt
  <2> QED
    BY <2>1, <2>2, <2>3
<1>8. \A q \in Proc : pc'[q] = "asleep" => q \in Waiting'
  BY <1>1, <1>2, <1>6 DEF OnTheWay
<1>9. OnTheWay'
  BY <1>1, <1>4, <1>6, <1>7, <1>8, Quiet DEF OnTheWay
<1> QED
  BY <1>1, <1>3, <1>4, <1>5, <1>9, Quiet DEF DriverInv
-----------------------------------------------------------------------------
(* The steps that move a request on.                                       *)

LEMMA FetchKeeps ==
    ASSUME DriverInv, DeviceFetch
    PROVE  DriverInv'
<1> DEFINE h == avail.ring[seen % NUM]
<1>1. /\ seen # avail.idx
      /\ fetched' = fetched \union {h}
      /\ seen' = (seen + 1) % IDXMOD
      /\ avail' = Passed(avail, seen)
      /\ UNCHANGED <<free, desc, ops, infob, status, bdisk, used_idx, panicked,
                     handling, pc, buf, head, used, moved, notify, isr>>
  BY DEF DeviceFetch
<1>2. Types /\ Buffers /\ Chains /\ Apart /\ OnTheWay /\ Served /\ SleepersAreShort
  BY DEF DriverInv
<1>3. /\ avail \in Rings /\ seen \in Indexes
      /\ Len(Unseen(avail, seen)) < NUM
  <2>1. Len(ToFetch) < NUM
    BY Bound, Finite, Sizes, <1>2
  <2> QED
    BY <1>2, <2>1 DEF Types, ToFetch
<1>4. /\ avail' \in Rings /\ seen' \in Indexes
      /\ h = Head(ToFetch) /\ ToFetch' = Tail(ToFetch) /\ ToFetch # <<>>
  <2>1. /\ Passed(avail, seen) \in Rings /\ (seen + 1) % IDXMOD \in Indexes
        /\ avail.ring[seen % NUM] = Head(Unseen(avail, seen))
        /\ Unseen(Passed(avail, seen), (seen + 1) % IDXMOD) = Tail(Unseen(avail, seen))
    BY <1>1, <1>3, PassStep
  <2>2. Unseen(avail, seen) # <<>>
    BY <1>1, <1>3, UnseenType
  <2> QED
    BY <1>1, <2>1, <2>2 DEF ToFetch
<1> HIDE DEF h
<1>5. ToHandle' = ToHandle /\ InFlight' = InFlight /\ Waiting' = Waiting
  BY <1>1 DEF ToHandle, InFlight, Waiting
<1>6. /\ Range(ToFetch') = Range(ToFetch) \ {h} /\ h \in Range(ToFetch)
      /\ Len(ToFetch') = Len(ToFetch) - 1 /\ Len(ToFetch) \in Nat
      /\ Once(ToFetch')
  BY <1>2, <1>4, Bound, OnceTail DEF Apart
<1>7. h \notin fetched /\ h \notin Range(ToHandle) /\ h \in Desc
  <2>1. h \in Desc
    BY <1>3, RingsAreRings DEF h, Desc
  <2> QED
    BY <1>2, <1>6, <2>1 DEF Apart
<1>8. Cardinality(fetched') = Cardinality(fetched) + 1 /\ Cardinality(fetched) \in Nat
  BY <1>1, <1>2, <1>7, Finite, FS_AddElement
<1>9. Range(ToFetch') \union fetched' = Range(ToFetch) \union fetched
  BY <1>1, <1>6
<1>10. Types'
  BY <1>1, <1>2, <1>4, <1>7 DEF Types
<1>11. Buffers' /\ SleepersAreShort'
  BY <1>1, <1>2 DEF Buffers, SleepersAreShort
<1>12. Chains'
  <2>1. \A p \in InFlight : Filled(p)' = Filled(p) /\ Three(p)' = Three(p)
    BY <1>1 DEF Filled, Three, Second, Third
  <2> QED
    BY <1>1, <1>2, <1>5, <2>1 DEF Chains
<1>13. Apart'
  BY <1>1, <1>2, <1>5, <1>6, <1>7 DEF Apart
<1>14. OnTheWay'
  <2>1. Range(ToFetch') \union fetched' \union Range(ToHandle')
            = {head'[p] : p \in Waiting'}
    BY <1>1, <1>2, <1>5, <1>9 DEF OnTheWay
  <2>2. Len(ToFetch') + Cardinality(fetched') + Len(ToHandle')
            = Cardinality(Waiting')
    BY <1>2, <1>5, <1>6, <1>8, Bound DEF OnTheWay
  <2> QED
    BY <1>1, <1>2, <1>5, <2>1, <2>2 DEF OnTheWay
<1>15. Served'
  BY <1>1, <1>2, <1>5, <1>9 DEF Served
<1> QED
  BY <1>1, <1>10, <1>11, <1>12, <1>13, <1>14, <1>15 DEF DriverInv

\* The device finds the buffer and the status byte of the request it serves.
LEMMA ServeIs ==
    ASSUME DriverInv, NEW h \in Desc, DeviceServe(h)
    PROVE  \E p \in Waiting :
              /\ h = head[p] /\ h \in fetched
              /\ moved' = [moved EXCEPT ![buf[p]] = IF ops[h] THEN "out" ELSE "in"]
              /\ status' = [status EXCEPT ![h] = "ok"]
              /\ fetched' = fetched \ {h}
              /\ used' = Push(used, h)
              /\ notify' = TRUE
              /\ UNCHANGED <<free, desc, ops, infob, bdisk, avail, used_idx,
                             panicked, handling, pc, buf, head, seen, isr>>
<1>1. PICK p \in Waiting : h = head[p]
  <2>1. h \in {head[p] : p \in Waiting}
    BY DEF DriverInv, OnTheWay, DeviceServe
  <2> QED
    BY <2>1
<1>2. p \in InFlight /\ Filled(p)
  BY DEF Waiting, DriverInv, Chains
<1>3. /\ desc[desc[h].next].addr = buf[p] /\ desc[h].addr = h
      /\ desc[desc[desc[h].next].next].addr = h
  BY <1>1, <1>2 DEF Filled, Second, Third
<1> QED
  BY <1>1, <1>3 DEF DeviceServe

LEMMA ServeKeeps ==
    ASSUME DriverInv, NEW h \in Desc, DeviceServe(h)
    PROVE  DriverInv'
<1>1. PICK p \in Waiting :
              /\ h = head[p] /\ h \in fetched
              /\ moved' = [moved EXCEPT ![buf[p]] = IF ops[h] THEN "out" ELSE "in"]
              /\ status' = [status EXCEPT ![h] = "ok"]
              /\ fetched' = fetched \ {h}
              /\ used' = Push(used, h)
              /\ notify' = TRUE
              /\ UNCHANGED <<free, desc, ops, infob, bdisk, avail, used_idx,
                             panicked, handling, pc, buf, head, seen, isr>>
  BY ServeIs
<1>2. Types /\ Buffers /\ Chains /\ Apart /\ OnTheWay /\ Served /\ SleepersAreShort
  BY DEF DriverInv
<1>3. p \in InFlight /\ buf[p] \in Buf
  BY HeadsDiffer DEF Waiting
<1>4. Cardinality(fetched') = Cardinality(fetched) - 1 /\ Cardinality(fetched) \in Nat \ {0}
  <2>1. fetched # {} /\ IsFiniteSet(fetched) /\ Cardinality(fetched) \in Nat
    BY <1>1, <1>2, Finite
  <2> QED
    BY <1>1, <2>1, FS_RemoveElement, FS_EmptySet
<1>5. Len(ToHandle) + 1 < NUM
  BY <1>2, <1>4, Bound, Sizes, Finite
<1>6. used' \in Rings /\ ToHandle' = Append(ToHandle, h)
  <2>1. used \in Rings /\ used_idx \in Indexes /\ Len(Unseen(used, used_idx)) + 1 < NUM
    BY <1>2, <1>5 DEF Types, ToHandle
  <2>2. /\ Push(used, h) \in Rings
        /\ Unseen(Push(used, h), used_idx) = Append(Unseen(used, used_idx), h)
    BY <2>1, PushStep
  <2> QED
    BY <1>1, <2>2 DEF ToHandle
<1>7. h \notin Range(ToFetch) /\ h \notin Range(ToHandle)
  BY <1>1, <1>2 DEF Apart
<1>8. /\ Range(ToHandle') = Range(ToHandle) \union {h}
      /\ Len(ToHandle') = Len(ToHandle) + 1 /\ Len(ToHandle) \in Nat
      /\ Once(ToHandle')
  BY <1>2, <1>6, <1>7, Bound, OnceAppend DEF Apart
<1>9. ToFetch' = ToFetch /\ InFlight' = InFlight /\ Waiting' = Waiting
  BY <1>1 DEF ToFetch, InFlight, Waiting
<1>10. Types'
  BY <1>1, <1>2, <1>3, <1>6 DEF Types
<1>11. Buffers' /\ SleepersAreShort'
  BY <1>1, <1>2 DEF Buffers, SleepersAreShort
<1>12. Chains'
  <2>1. \A q \in InFlight : Filled(q)' = Filled(q) /\ Three(q)' = Three(q)
    BY <1>1 DEF Filled, Three, Second, Third
  <2> QED
    BY <1>1, <1>2, <1>9, <2>1 DEF Chains
<1>13. Apart'
  BY <1>1, <1>2, <1>7, <1>8, <1>9 DEF Apart
<1>14. OnTheWay'
  <2>1. fetched' \union Range(ToHandle') = fetched \union Range(ToHandle)
    BY <1>1, <1>8
  <2>2. Range(ToFetch') \union fetched' \union Range(ToHandle')
            = {head'[q] : q \in Waiting'}
    BY <1>1, <1>2, <1>9, <2>1 DEF OnTheWay
  <2>3. Len(ToFetch') + Cardinality(fetched') + Len(ToHandle')
            = Cardinality(Waiting')
    BY <1>2, <1>4, <1>8, <1>9, Bound DEF OnTheWay
  <2>4. \A g \in Range(ToHandle') : status'[g] = "ok"
    BY <1>1, <1>2, <1>8 DEF OnTheWay, Types
  <2> QED
    BY <1>1, <1>2, <1>9, <2>2, <2>3, <2>4 DEF OnTheWay
<1>15. Served'
  <2>1. ASSUME NEW q \in InFlight
        PROVE  moved'[buf[q]] = IF head[q] \in Range(ToFetch) \union fetched' THEN "no"
                                ELSE IF ops[head[q]] THEN "out" ELSE "in"
    <3>1. CASE q = p
      <4>1. head[q] = h /\ h \notin Range(ToFetch) \union fetched'
        BY <1>1, <1>7, <3>1
      <4>2. moved'[buf[p]] = IF ops[h] THEN "out" ELSE "in"
        BY <1>1, <1>2, <1>3 DEF Types
      <4> QED
        BY <3>1, <4>1, <4>2
    <3>2. CASE q # p
      <4>1. head[q] # h /\ buf[q] # buf[p]
        BY <1>1, <1>3, <3>2, HeadsDiffer
      <4>2. moved'[buf[q]] = moved[buf[q]]
        BY <1>1, <1>2, <4>1, HeadsDiffer DEF Types
      <4>3. head[q] \in Range(ToFetch) \union fetched'
                <=> head[q] \in Range(ToFetch) \union fetched
        BY <1>1, <4>1
      <4> QED
        BY <1>2, <4>2, <4>3 DEF Served
    <3> QED
      BY <3>1, <3>2
  <2>2. ASSUME NEW b \in Buf, \A q \in InFlight : buf[q] # b
        PROVE  moved'[b] = "no"
    BY <1>1, <1>2, <1>3, <2>2 DEF Served, Types
  <2> QED
    BY <1>1, <1>9, <2>1, <2>2 DEF Served
<1> QED
  BY <1>1, <1>10, <1>11, <1>12, <1>13, <1>14, <1>15 DEF DriverInv

\* The used-ring entry that the handler looks at is of a request that waits.
LEMMA EntryIs ==
    ASSUME DriverInv, IntrEntry
    PROVE  \E p \in Waiting :
              /\ ToHandle # <<>> /\ head[p] = Head(ToHandle)
              /\ bdisk' = [bdisk EXCEPT ![buf[p]] = FALSE]
              /\ pc' = [q \in Proc |-> IF pc[q] = "asleep" /\ buf[q] = buf[p]
                                          THEN "awake" ELSE pc[q]]
              /\ used_idx' \in Indexes /\ used' \in Rings
              /\ ToHandle' = Tail(ToHandle) /\ handling
              /\ UNCHANGED <<free, desc, ops, infob, status, avail, handling, buf,
                             head, seen, fetched, moved, notify, isr, panicked>>
<1>1. Types /\ Apart /\ OnTheWay
  BY DEF DriverInv
<1>2. /\ used \in Rings /\ used_idx \in Indexes /\ used.idx # used_idx
      /\ Len(Unseen(used, used_idx)) < NUM
  <2>1. Len(ToHandle) < NUM
    BY Bound, Finite, Sizes, <1>1
  <2> QED
    BY <1>1, <2>1 DEF Types, ToHandle, IntrEntry
<1>3. /\ Passed(used, used_idx) \in Rings /\ Advance \in Indexes
      /\ Completed = Head(ToHandle) /\ ToHandle # <<>>
      /\ Unseen(Passed(used, used_idx), Advance) = Tail(ToHandle)
  <2>1. /\ Passed(used, used_idx) \in Rings /\ (used_idx + 1) % IDXMOD \in Indexes
        /\ used.ring[used_idx % NUM] = Head(Unseen(used, used_idx))
        /\ Unseen(Passed(used, used_idx), (used_idx + 1) % IDXMOD)
              = Tail(Unseen(used, used_idx))
    BY <1>2, PassStep
  <2>2. Unseen(used, used_idx) # <<>>
    BY <1>2, UnseenType
  <2> QED
    BY <2>1, <2>2 DEF ToHandle, Completed, Advance
<1>4. Head(ToHandle) \in Range(ToHandle)
  BY <1>1, <1>3, Bound, OnceTail DEF Apart
<1>5. PICK p \in Waiting : head[p] = Head(ToHandle)
  <2>1. Head(ToHandle) \in {head[p] : p \in Waiting}
    BY <1>1, <1>4 DEF OnTheWay
  <2> QED
    BY <2>1
<1>6. status[Completed] = "ok"
  BY <1>1, <1>3, <1>4 DEF OnTheWay
<1>7. infob[Completed] = buf[p] /\ buf[p] # None
  <2>1. p \in InFlight /\ Filled(p)
    BY DEF Waiting, DriverInv, Chains
  <2>2. buf[p] \in Buf
    BY <2>1, HeadsDiffer
  <2> QED
    BY <1>3, <1>5, <2>1, <2>2, VirtioAssumption DEF Filled
<1>8. /\ bdisk' = [bdisk EXCEPT ![buf[p]] = FALSE]
      /\ pc' = [q \in Proc |-> IF pc[q] = "asleep" /\ buf[q] = buf[p]
                                  THEN "awake" ELSE pc[q]]
      /\ used_idx' = Advance
      /\ used' = Passed(used, used_idx)
      /\ UNCHANGED panicked /\ handling
  BY <1>6, <1>7 DEF IntrEntry
<1>9. ToHandle' = Tail(ToHandle)
  BY <1>3, <1>8 DEF ToHandle
<1>10. UNCHANGED <<free, desc, ops, infob, status, avail, handling, buf,
                   head, seen, fetched, moved, notify, isr>>
  BY DEF IntrEntry
<1>11. used_idx' \in Indexes /\ used' \in Rings
  BY <1>3, <1>8
<1> QED
  BY <1>3, <1>5, <1>8, <1>9, <1>10, <1>11

LEMMA EntryKeeps ==
    ASSUME DriverInv, IntrEntry
    PROVE  DriverInv'
<1>1. PICK p \in Waiting :
              /\ ToHandle # <<>> /\ head[p] = Head(ToHandle)
              /\ bdisk' = [bdisk EXCEPT ![buf[p]] = FALSE]
              /\ pc' = [q \in Proc |-> IF pc[q] = "asleep" /\ buf[q] = buf[p]
                                          THEN "awake" ELSE pc[q]]
              /\ used_idx' \in Indexes /\ used' \in Rings
              /\ ToHandle' = Tail(ToHandle) /\ handling
              /\ UNCHANGED <<free, desc, ops, infob, status, avail, handling, buf,
                             head, seen, fetched, moved, notify, isr, panicked>>
  BY EntryIs
<1> DEFINE h == head[p]
<1>2. Types /\ Buffers /\ Chains /\ Apart /\ OnTheWay /\ Served /\ SleepersAreShort
  BY DEF DriverInv
<1>3. p \in InFlight /\ buf[p] \in Buf /\ p \in Proc
  BY HeadsDiffer DEF Waiting, InFlight
<1>4. /\ Range(ToHandle') = Range(ToHandle) \ {h} /\ h \in Range(ToHandle)
      /\ Len(ToHandle') = Len(ToHandle) - 1 /\ Len(ToHandle) \in Nat
      /\ Once(ToHandle')
  BY <1>1, <1>2, Bound, OnceTail DEF Apart
<1>5. ToFetch' = ToFetch
  BY <1>1 DEF ToFetch
<1>6. /\ \A q \in Proc : pc'[q] = IF pc[q] = "asleep" /\ buf[q] = buf[p]
                                   THEN "awake" ELSE pc[q]
      /\ \A q \in Proc : pc'[q] = "asleep" => pc[q] = "asleep" /\ buf[q] # buf[p]
  BY <1>1
<1>7. InFlight' = InFlight
  BY <1>6 DEF InFlight
<1>8. Waiting' = Waiting \ {p}
  <2>1. ASSUME NEW q \in InFlight
        PROVE  bdisk'[buf[q]] <=> q # p /\ bdisk[buf[q]]
    <3>1. buf[q] \in Buf /\ (buf[q] = buf[p] => q = p)
      BY <1>3, HeadsDiffer
    <3> QED
      BY <1>1, <1>2, <3>1 DEF Types
  <2> QED
    BY <1>1, <1>7, <2>1 DEF Waiting
<1>9. /\ Cardinality(Waiting') = Cardinality(Waiting) - 1
      /\ Cardinality(Waiting) \in Nat
  BY <1>8, Bound, FS_RemoveElement
<1>10. Types'
  <2>1. pc' \in [Proc -> Labels]
    BY <1>1, <1>2 DEF Types, Labels
  <2> QED
    BY <1>1, <1>2, <2>1 DEF Types
<1>11. Buffers' /\ SleepersAreShort'
  <2>1. \A q \in Proc : /\ pc'[q] = "idle" <=> pc[q] = "idle"
                        /\ pc'[q] \in DOMAIN Retry => pc[q] \in DOMAIN Retry
    BY <1>6 DEF Retry
  <2> QED
    BY <1>1, <1>2, <2>1 DEF Buffers, SleepersAreShort
<1>12. Chains'
  <2>1. \A q \in InFlight : Filled(q)' = Filled(q) /\ Three(q)' = Three(q)
    BY <1>1 DEF Filled, Three, Second, Third
  <2> QED
    BY <1>1, <1>2, <1>7, <2>1 DEF Chains
<1>13. Apart'
  BY <1>1, <1>2, <1>4, <1>5 DEF Apart
<1>14. OnTheWay'
  <2>1. {head'[q] : q \in Waiting'} = {head[q] : q \in Waiting} \ {h}
    <3>1. \A q \in Waiting : head[q] = h => q = p
      BY <1>3, HeadsDiffer DEF Waiting
    <3> QED
      BY <1>1, <1>8, <3>1
  <2>2. h \notin Range(ToFetch) /\ h \notin fetched
    BY <1>2, <1>4 DEF Apart
  <2>3. Range(ToFetch') \union fetched' \union Range(ToHandle')
            = {head'[q] : q \in Waiting'}
    BY <1>1, <1>2, <1>4, <1>5, <2>1, <2>2 DEF OnTheWay
  <2>4. Len(ToFetch') + Cardinality(fetched') + Len(ToHandle')
            = Cardinality(Waiting')
    BY <1>1, <1>2, <1>4, <1>5, <1>9, Bound, Finite DEF OnTheWay
  <2>5. \A q \in Proc : pc'[q] = "asleep" => q \in Waiting'
    BY <1>2, <1>6, <1>8 DEF OnTheWay
  <2>6. \A g \in Range(ToHandle') : status'[g] = "ok"
    BY <1>1, <1>2, <1>4 DEF OnTheWay
  <2> QED
    BY <1>1, <2>3, <2>4, <2>5, <2>6 DEF OnTheWay
<1>15. Served'
  BY <1>1, <1>2, <1>5, <1>7 DEF Served
<1> QED
  BY <1>1, <1>10, <1>11, <1>12, <1>13, <1>14, <1>15 DEF DriverInv
-----------------------------------------------------------------------------
(* The steps that take and return descriptors.                             *)

LEMMA SubmitIs ==
    ASSUME DriverInv, NEW p \in Proc, Submit(p)
    PROVE  \E i0, i1, i2 \in free :
              /\ i0 # i1 /\ i0 # i2 /\ i1 # i2
              /\ Cardinality(free) >= 3
              /\ Cardinality(free') = Cardinality(free) - 3
              /\ pc[p] \in {"read", "write"}
              /\ free' = free \ {i0, i1, i2}
              /\ ops' = [ops EXCEPT ![i0] = (pc[p] = "write")]
              /\ desc' = [desc EXCEPT
                            ![i0] = [addr |-> i0, next |-> i1, more |-> TRUE],
                            ![i1] = [addr |-> buf[p], next |-> i2, more |-> TRUE],
                            ![i2] = [addr |-> i0, next |-> 0, more |-> FALSE]]
              /\ status' = [status EXCEPT ![i0] = "unset"]
              /\ infob' = [infob EXCEPT ![i0] = buf[p]]
              /\ bdisk' = [bdisk EXCEPT ![buf[p]] = TRUE]
              /\ avail' = Push(avail, i0)
              /\ head' = [head EXCEPT ![p] = i0]
              /\ pc' = [pc EXCEPT ![p] = "asleep"]
              /\ UNCHANGED <<used_idx, panicked, handling, buf, devVars>>
<1> DEFINE i0 == Lowest(free)
           i1 == Lowest(free \ {i0})
           i2 == Lowest(free \ {i0, i1})
<1>1. /\ {i0, i1, i2} \subseteq free
      /\ i0 # i1 /\ i0 # i2 /\ i1 # i2
      /\ Cardinality(free \ {i0, i1, i2}) = Cardinality(free) - 3
  BY PickThree DEF Submit, DriverInv
<1>2. /\ Cardinality(free) >= 3
      /\ pc[p] \in {"read", "write"}
      /\ free' = free \ {i0, i1, i2}
      /\ ops' = [ops EXCEPT ![i0] = (pc[p] = "write")]
      /\ desc' = [desc EXCEPT
                    ![i0] = [addr |-> i0, next |-> i1, more |-> TRUE],
                    ![i1] = [addr |-> buf[p], next |-> i2, more |-> TRUE],
                    ![i2] = [addr |-> i0, next |-> 0, more |-> FALSE]]
      /\ status' = [status EXCEPT ![i0] = "unset"]
      /\ infob' = [infob EXCEPT ![i0] = buf[p]]
      /\ bdisk' = [bdisk EXCEPT ![buf[p]] = TRUE]
      /\ avail' = Push(avail, i0)
      /\ head' = [head EXCEPT ![p] = i0]
      /\ pc' = [pc EXCEPT ![p] = "asleep"]
      /\ UNCHANGED <<used_idx, panicked, handling, buf, devVars>>
  BY Zenon DEF Submit, Enter
<1> HIDE DEF i0, i1, i2
<1>3. Cardinality(free') = Cardinality(free) - 3
  BY <1>1, <1>2
<1>4. i0 \in free /\ i1 \in free /\ i2 \in free
  BY <1>1
<1> QED
  BY <1>1, <1>2, <1>3, <1>4

LEMMA SubmitKeeps ==
    ASSUME DriverInv, NEW p \in Proc, Submit(p)
    PROVE  DriverInv'
<1>1. PICK i0, i1, i2 \in free :
              /\ i0 # i1 /\ i0 # i2 /\ i1 # i2
              /\ Cardinality(free) >= 3
              /\ Cardinality(free') = Cardinality(free) - 3
              /\ pc[p] \in {"read", "write"}
              /\ free' = free \ {i0, i1, i2}
              /\ ops' = [ops EXCEPT ![i0] = (pc[p] = "write")]
              /\ desc' = [desc EXCEPT
                            ![i0] = [addr |-> i0, next |-> i1, more |-> TRUE],
                            ![i1] = [addr |-> buf[p], next |-> i2, more |-> TRUE],
                            ![i2] = [addr |-> i0, next |-> 0, more |-> FALSE]]
              /\ status' = [status EXCEPT ![i0] = "unset"]
              /\ infob' = [infob EXCEPT ![i0] = buf[p]]
              /\ bdisk' = [bdisk EXCEPT ![buf[p]] = TRUE]
              /\ avail' = Push(avail, i0)
              /\ head' = [head EXCEPT ![p] = i0]
              /\ pc' = [pc EXCEPT ![p] = "asleep"]
              /\ UNCHANGED <<used_idx, panicked, handling, buf, devVars>>
  BY SubmitIs
<1>2. Types /\ Buffers /\ Chains /\ Apart /\ OnTheWay /\ Served /\ SleepersAreShort
  BY DEF DriverInv
<1>3. i0 \in Desc /\ i1 \in Desc /\ i2 \in Desc
  BY <1>2 DEF Types
<1>4. buf[p] \in Buf /\ buf[p] # None /\ p \notin InFlight
  BY <1>1, <1>2, VirtioAssumption DEF Types, Buffers, InFlight
<1>5. ASSUME NEW q \in InFlight
      PROVE  /\ q # p /\ head'[q] = head[q] /\ head[q] \in Desc
             /\ buf[q] # buf[p] /\ buf[q] \in Buf
             /\ bdisk'[buf[q]] = bdisk[buf[q]]
  <2>1. q # p /\ buf[q] # None /\ buf[q] \in Buf /\ head[q] \in Desc
    BY <1>2, <1>4, HeadsDiffer DEF Buffers, InFlight
  <2>2. buf[q] # buf[p]
    BY <1>2, <2>1 DEF Buffers, InFlight
  <2> QED
    BY <1>1, <1>2, <2>1, <2>2 DEF Types, InFlight
<1>6. InFlight' = InFlight \union {p} /\ (\A q \in Proc : q # p => pc'[q] = pc[q])
      /\ pc'[p] = "asleep"
  BY <1>1, <1>2 DEF InFlight, Types
<1>7. Waiting' = Waiting \union {p} /\ p \notin Waiting
  <2>1. bdisk'[buf[p]]
    BY <1>1, <1>2, <1>4 DEF Types
  <2>2. buf' = buf
    BY <1>1
  <2>3. \A q \in InFlight : bdisk'[buf'[q]] <=> bdisk[buf[q]]
    BY <1>5, <2>2
  <2> QED
    BY <1>4, <1>6, <2>1, <2>2, <2>3 DEF Waiting
<1>8. /\ Cardinality(Waiting') = Cardinality(Waiting) + 1
      /\ Cardinality(InFlight') = Cardinality(InFlight) + 1
      /\ IsFiniteSet(InFlight')
      /\ Cardinality(Waiting) \in Nat /\ Cardinality(InFlight) \in Nat
  BY <1>4, <1>6, <1>7, Bound, FS_AddElement
<1>9. Len(ToFetch) + 1 < NUM
  BY <1>1, <1>2, Bound, Finite, Sizes
<1>10. avail' \in Rings /\ ToFetch' = Append(ToFetch, i0)
  <2>1. avail \in Rings /\ seen \in Indexes /\ Len(Unseen(avail, seen)) + 1 < NUM
    BY <1>2, <1>9 DEF Types, ToFetch
  <2>2. /\ Push(avail, i0) \in Rings
        /\ Unseen(Push(avail, i0), seen) = Append(Unseen(avail, seen), i0)
    BY <1>3, <2>1, PushStep
  <2> QED
    BY <1>1, <2>2 DEF ToFetch, devVars
<1>11. ToHandle' = ToHandle /\ fetched' = fetched /\ moved' = moved
  BY <1>1 DEF ToHandle, devVars
<1>12. \A q \in Waiting : head[q] # i0
  <2>1. \A q \in InFlight : head[q] \in Three(q) /\ Three(q) \cap free = {}
    BY <1>2 DEF Chains, Three
  <2> QED
    BY <2>1 DEF Waiting
<1>13. i0 \notin Range(ToFetch) /\ i0 \notin fetched /\ i0 \notin Range(ToHandle)
  BY <1>2, <1>12 DEF OnTheWay
<1>14. /\ Range(ToFetch') = Range(ToFetch) \union {i0}
       /\ Len(ToFetch') = Len(ToFetch) + 1 /\ Len(ToFetch) \in Nat
       /\ Once(ToFetch')
  BY <1>2, <1>3, <1>10, <1>13, Bound, OnceAppend DEF Apart
<1>15. Types'
  <2>1. desc' \in [Desc -> [addr : Desc \union Buf \union {None},
                           next : Desc, more : BOOLEAN]]
    <3>1. /\ [addr |-> i0, next |-> i1, more |-> TRUE]
                \in [addr : Desc \union Buf \union {None}, next : Desc, more : BOOLEAN]
          /\ [addr |-> buf[p], next |-> i2, more |-> TRUE]
                \in [addr : Desc \union Buf \union {None}, next : Desc, more : BOOLEAN]
          /\ [addr |-> i0, next |-> 0, more |-> FALSE]
                \in [addr : Desc \union Buf \union {None}, next : Desc, more : BOOLEAN]
      BY <1>3, <1>4, Sizes
    <3> QED
      BY <1>1, <1>2, <3>1 DEF Types
  <2>2. ops' \in [Desc -> BOOLEAN]
    <3>1. (pc[p] = "write") \in BOOLEAN
      OBVIOUS
    <3> DEFINE w == pc[p] = "write"
    <3> HIDE DEF w
    <3>2. ops' = [ops EXCEPT ![i0] = w] /\ w \in BOOLEAN
      BY <1>1, <3>1 DEF w
    <3> QED
      BY <1>2, <3>2 DEF Types
  <2>3. /\ free' \subseteq Desc /\ status' \in [Desc -> {"ok", "unset"}]
        /\ infob' \in [Desc -> Buf \union {None}]
        /\ head' \in [Proc -> Desc]
        /\ pc' \in [Proc -> Labels]
    BY <1>1, <1>2, <1>3, <1>4 DEF Types, Labels
  <2>4. bdisk' \in [Buf -> BOOLEAN]
    BY <1>1, <1>2 DEF Types
  <2> QED
    BY <1>1, <1>2, <1>10, <2>1, <2>2, <2>3, <2>4 DEF Types, devVars
<1>16. Buffers'
  BY <1>1, <1>2, <1>6 DEF Buffers
<1>17. Filled(p)' /\ Three(p)' = {i0, i1, i2}
  <2>1. /\ desc'[i0] = [addr |-> i0, next |-> i1, more |-> TRUE]
        /\ desc'[i1] = [addr |-> buf[p], next |-> i2, more |-> TRUE]
        /\ desc'[i2] = [addr |-> i0, next |-> 0, more |-> FALSE]
    BY <1>1, <1>2, <1>3 DEF Types
  <2>2. head'[p] = i0 /\ infob'[i0] = buf[p] /\ buf' = buf
    BY <1>1, <1>2, <1>3 DEF Types
  <2>3. Second(p)' = i1
    BY <2>1, <2>2 DEF Second
  <2>4. Third(p)' = i2
    BY <2>1, <2>3 DEF Third
  <2> QED
    BY <1>1, <2>1, <2>2, <2>3, <2>4 DEF Filled, Three
<1>18. ASSUME NEW q \in InFlight
       PROVE  Filled(q)' /\ Three(q)' = Three(q)
  <2>1. /\ Filled(q) /\ head[q] \notin free
        /\ Second(q) \notin free /\ Third(q) \notin free
    BY <1>2 DEF Chains, Three
  <2>2. \A k \in Desc : k \notin free => desc'[k] = desc[k] /\ infob'[k] = infob[k]
    BY <1>1, <1>2 DEF Types
  <2>3. head[q] \in Desc /\ Second(q) \in Desc /\ Third(q) \in Desc
    BY <1>2, HeadsDiffer DEF Types, Second, Third
  <2>4. head'[q] = head[q] /\ Second(q)' = Second(q) /\ Third(q)' = Third(q)
        /\ desc'[head[q]] = desc[head[q]] /\ infob'[head[q]] = infob[head[q]]
        /\ desc'[Second(q)] = desc[Second(q)] /\ desc'[Third(q)] = desc[Third(q)]
    BY <1>5, <2>1, <2>2, <2>3 DEF Second, Third
  <2>5. buf' = buf
    BY <1>1
  <2> QED
    BY <2>1, <2>4, <2>5 DEF Filled, Three
<1>19. Chains'
  <2>1. \A q \in InFlight' : Filled(q)'
    BY <1>6, <1>17, <1>18
  <2>2. \A q \in InFlight' : Three(q)' \cap free' = {}
    <3>1. \A q \in InFlight : Three(q)' \cap free' = {}
      BY <1>1, <1>2, <1>18 DEF Chains
    <3> QED
      BY <1>1, <1>6, <1>17, <3>1
  <2>3. \A q, r \in InFlight' : q # r => Three(q)' \cap Three(r)' = {}
    <3>1. \A q \in InFlight : Three(q)' \cap Three(p)' = {}
      BY <1>2, <1>17, <1>18 DEF Chains
    <3>2. \A q, r \in InFlight : q # r => Three(q)' \cap Three(r)' = {}
      BY <1>2, <1>18 DEF Chains
    <3> QED
      BY <1>6, <3>1, <3>2
  <2>4. Cardinality(free') + 3 * Cardinality(InFlight') = NUM
    BY <1>1, <1>2, <1>8, Finite, Sizes DEF Chains
  <2> QED
    BY <1>8, <2>1, <2>2, <2>3, <2>4 DEF Chains
<1>20. Apart'
  BY <1>2, <1>11, <1>13, <1>14 DEF Apart
<1>21. head'[p] = i0
  BY <1>1, <1>2 DEF Types
<1>22. OnTheWay'
  <2>1. {head'[q] : q \in Waiting'} = {head[q] : q \in Waiting} \union {i0}
    <3>1. \A q \in Waiting : head'[q] = head[q]
      BY <1>5 DEF Waiting
    <3> QED
      BY <1>7, <1>21, <3>1
  <2>2. Range(ToFetch') \union fetched' \union Range(ToHandle')
            = {head'[q] : q \in Waiting'}
    BY <1>2, <1>11, <1>14, <2>1 DEF OnTheWay
  <2>3. Len(ToFetch') + Cardinality(fetched') + Len(ToHandle')
            = Cardinality(Waiting')
    BY <1>2, <1>8, <1>11, <1>14, Bound, Finite DEF OnTheWay
  <2>4. \A g \in Range(ToHandle') : status'[g] = "ok"
    <3>1. \A g \in Range(ToHandle) : g \in Desc /\ g # i0 /\ status[g] = "ok"
      <4>1. \A q \in Waiting : head[q] \in Desc
        BY <1>5 DEF Waiting
      <4> QED
        BY <1>2, <1>13, <4>1 DEF OnTheWay
    <3> QED
      BY <1>1, <1>2, <1>11, <3>1 DEF Types
  <2>5. \A q \in Proc : pc'[q] = "asleep" => q \in Waiting'
    BY <1>2, <1>6, <1>7 DEF OnTheWay
  <2>6. ToHandle' # <<>> => handling' \/ isr' \/ notify'
    BY <1>1, <1>2, <1>11 DEF OnTheWay, devVars
  <2> QED
    BY <2>2, <2>3, <2>4, <2>5, <2>6 DEF OnTheWay
<1>23. Served'
  <2>1. moved'[buf[p]] = "no" /\ buf' = buf
    BY <1>1, <1>2, <1>4, <1>5, <1>11 DEF Served
  <2>2. ASSUME NEW q \in InFlight
        PROVE  moved'[buf[q]] = IF head'[q] \in Range(ToFetch') \union fetched' THEN "no"
                                ELSE IF ops'[head'[q]] THEN "out" ELSE "in"
    <3>1. head[q] # i0
      BY <1>2 DEF Chains, Three
    <3>2. head'[q] = head[q] /\ ops'[head[q]] = ops[head[q]]
      BY <1>1, <1>2, <1>5, <3>1 DEF Types
    <3>3. head[q] \in Range(ToFetch') \union fetched'
              <=> head[q] \in Range(ToFetch) \union fetched
      BY <1>11, <1>14, <3>1
    <3> QED
      BY <1>2, <1>11, <3>2, <3>3 DEF Served
  <2>3. head'[p] \in Range(ToFetch')
    BY <1>14, <1>21
  <2>4. ASSUME NEW b \in Buf, \A q \in InFlight' : buf[q] # b
        PROVE  moved'[b] = "no"
    BY <1>2, <1>6, <1>11, <2>4 DEF Served
  <2> QED
    BY <1>6, <2>1, <2>2, <2>3, <2>4 DEF Served
<1>24. SleepersAreShort' /\ ~panicked'
  <2>1. ~\E q \in Proc : pc[q] \in DOMAIN Retry
    BY <1>1, <1>2, Finite DEF SleepersAreShort
  <2>2. "asleep" \notin DOMAIN Retry
    BY DEF Retry
  <2> QED
    BY <1>1, <1>6, <2>1, <2>2 DEF SleepersAreShort, DriverInv
<1> QED
  BY <1>15, <1>16, <1>19, <1>20, <1>22, <1>23, <1>24 DEF DriverInv

\* free_chain() returns the three descriptors, none of which is free.
LEMMA FinishIs ==
    ASSUME DriverInv, NEW p \in Proc, Finish(p)
    PROVE  /\ pc[p] = "awake" /\ p \in InFlight /\ p \notin Waiting
           /\ infob' = [infob EXCEPT ![head[p]] = None]
           /\ ~panicked'
           /\ free' = free \union Three(p)
           /\ desc' = [i \in Desc |-> IF i \in Three(p) THEN NoDesc ELSE desc[i]]
           /\ pc' = [WakeAllocators EXCEPT ![p] = "idle"]
           /\ buf' = [buf EXCEPT ![p] = None]
           /\ head' = [head EXCEPT ![p] = 0]
           /\ moved' = [moved EXCEPT ![buf[p]] = "no"]
           /\ UNCHANGED <<ops, status, bdisk, avail, used_idx, handling, used,
                          seen, fetched, notify, isr>>
<1>1. pc[p] = "awake" /\ p \in InFlight /\ p \notin Waiting
  BY DEF Finish, Enter, DiskDone, InFlight, Waiting
<1>2. Chain(head[p]) = Three(p) /\ Three(p) \cap free = {}
  BY <1>1, ChainIsThree DEF DriverInv, Chains
<1> QED
  BY <1>1, <1>2, Zenon DEF Finish

LEMMA FinishKeeps ==
    ASSUME DriverInv, NEW p \in Proc, Finish(p)
    PROVE  DriverInv'
<1>1. /\ pc[p] = "awake" /\ p \in InFlight /\ p \notin Waiting
      /\ infob' = [infob EXCEPT ![head[p]] = None]
      /\ ~panicked'
      /\ free' = free \union Three(p)
      /\ desc' = [i \in Desc |-> IF i \in Three(p) THEN NoDesc ELSE desc[i]]
      /\ pc' = [WakeAllocators EXCEPT ![p] = "idle"]
      /\ buf' = [buf EXCEPT ![p] = None]
      /\ head' = [head EXCEPT ![p] = 0]
      /\ moved' = [moved EXCEPT ![buf[p]] = "no"]
      /\ UNCHANGED <<ops, status, bdisk, avail, used_idx, handling, used,
                     seen, fetched, notify, isr>>
  BY FinishIs
<1>2. Types /\ Buffers /\ Chains /\ Apart /\ OnTheWay /\ Served /\ SleepersAreShort
  BY DEF DriverInv
<1>3. head[p] \in Desc /\ Second(p) \in Desc /\ Third(p) \in Desc /\ buf[p] \in Buf
  BY <1>1, <1>2, HeadsDiffer DEF Types, Second, Third
<1>4. /\ pc' \in [Proc -> Labels] /\ pc'[p] = "idle"
      /\ \A q \in Proc : /\ pc'[q] \notin {"nodesc_read", "nodesc_write"}
                         /\ q # p => /\ pc'[q] = "idle" <=> pc[q] = "idle"
                                     /\ pc'[q] = "asleep" <=> pc[q] = "asleep"
                                     /\ pc'[q] = "awake" <=> pc[q] = "awake"
  <2>1. /\ WakeAllocators \in [Proc -> Labels] /\ "idle" \in Labels
        /\ \A q \in Proc : WakeAllocators[q] \notin {"nodesc_read", "nodesc_write"}
        /\ \A q \in Proc : /\ WakeAllocators[q] = "idle" <=> pc[q] = "idle"
                           /\ WakeAllocators[q] = "asleep" <=> pc[q] = "asleep"
                           /\ WakeAllocators[q] = "awake" <=> pc[q] = "awake"
    BY <1>2, Woken DEF Labels
  <2> QED
    BY <1>1, <2>1
<1>5. InFlight' = InFlight \ {p}
  BY <1>4 DEF InFlight
<1>6. ASSUME NEW q \in InFlight, q # p
      PROVE  /\ head'[q] = head[q] /\ buf'[q] = buf[q]
             /\ buf[q] # buf[p] /\ buf[q] \in Buf /\ head[q] \in Desc
  BY <1>1, <1>2, <1>6, HeadsDiffer DEF Types, InFlight
<1>7. Waiting' = Waiting
  BY <1>1, <1>5, <1>6 DEF Waiting
<1>8. /\ Cardinality(InFlight') = Cardinality(InFlight) - 1
      /\ IsFiniteSet(InFlight') /\ Cardinality(InFlight) \in Nat
  BY <1>1, <1>5, Bound, FS_RemoveElement
<1>9. Cardinality(free') = Cardinality(free) + 3 /\ Cardinality(free) \in Nat
  <2> DEFINE T == Three(p)
  <2>1. Cardinality(T) = 3 /\ T \cap free = {} /\ T \subseteq Desc
    BY <1>1, <1>2, <1>3, ChainIsThree DEF Chains, Three
  <2>2. IsFiniteSet(T)
    <3>1. IsFiniteSet(Desc)
      BY <1>2, Finite
    <3> HIDE DEF T
    <3> QED
      BY <2>1, <3>1, FS_Subset
  <2>3. IsFiniteSet(free) /\ Cardinality(free) \in Nat
    BY <1>2, Finite
  <2>4. free' = free \union T /\ free \cap T = {}
    BY <1>1, <2>1
  <2> HIDE DEF T
  <2>5. Cardinality(free \union T)
            = Cardinality(free) + Cardinality(T) - Cardinality(free \cap T)
    BY <2>2, <2>3, FS_Union
  <2>6. Cardinality(free \cap T) = 0
    BY <2>4, FS_EmptySet
  <2> QED
    BY <2>1, <2>3, <2>4, <2>5, <2>6
<1>10. ToFetch' = ToFetch /\ ToHandle' = ToHandle
  BY <1>1 DEF ToFetch, ToHandle
<1>11. Types'
  <2>1. desc' \in [Desc -> [addr : Desc \union Buf \union {None},
                           next : Desc, more : BOOLEAN]]
    <3>1. NoDesc \in [addr : Desc \union Buf \union {None}, next : Desc, more : BOOLEAN]
      BY Sizes DEF NoDesc
    <3> QED
      BY <1>1, <1>2, <3>1 DEF Types
  <2>2. Three(p) \subseteq Desc
    BY <1>3 DEF Three
  <2>3. /\ free' \subseteq Desc /\ infob' \in [Desc -> Buf \union {None}]
        /\ buf' \in [Proc -> Buf \union {None}] /\ head' \in [Proc -> Desc]
        /\ moved' \in [Buf -> {"no", "in", "out"}]
    BY <1>1, <1>2, <2>2, Sizes DEF Types
  <2> QED
    BY <1>1, <1>2, <1>4, <2>1, <2>3 DEF Types
<1>12. Buffers'
  <2>1. buf'[p] = None /\ \A q \in Proc : q # p => buf'[q] = buf[q]
    BY <1>1, <1>2 DEF Types
  <2> QED
    BY <1>2, <1>4, <2>1 DEF Buffers
<1>13. ASSUME NEW q \in InFlight, q # p
       PROVE  Filled(q)' /\ Three(q)' = Three(q)
  <2>1. /\ Filled(q) /\ head[q] \notin Three(p)
        /\ Second(q) \notin Three(p) /\ Third(q) \notin Three(p)
    BY <1>1, <1>2, <1>13 DEF Chains, Three
  <2>2. /\ head[q] \in Desc /\ Second(q) \in Desc /\ Third(q) \in Desc
        /\ head[q] # head[p]
    BY <1>1, <1>2, <1>6, <1>13, HeadsDiffer DEF Types, Second, Third
  <2>3. /\ desc'[head[q]] = desc[head[q]] /\ desc'[Second(q)] = desc[Second(q)]
        /\ desc'[Third(q)] = desc[Third(q)] /\ infob'[head[q]] = infob[head[q]]
        /\ head'[q] = head[q] /\ buf'[q] = buf[q]
    BY <1>1, <1>2, <1>6, <1>13, <2>1, <2>2 DEF Types
  <2>4. Second(q)' = Second(q)
    BY <2>3 DEF Second
  <2>5. Third(q)' = Third(q)
    BY <2>3, <2>4 DEF Third
  <2> QED
    BY <2>1, <2>3, <2>4, <2>5 DEF Filled, Three
<1>14. Chains'
  <2>1. \A q \in InFlight' : Filled(q)'
    BY <1>5, <1>13
  <2>2. \A q \in InFlight' : Three(q)' \cap free' = {}
    BY <1>1, <1>2, <1>5, <1>13 DEF Chains
  <2>3. \A q, r \in InFlight' : q # r => Three(q)' \cap Three(r)' = {}
    BY <1>2, <1>5, <1>13 DEF Chains
  <2>4. Cardinality(free') + 3 * Cardinality(InFlight') = NUM
    BY <1>2, <1>8, <1>9, Sizes DEF Chains
  <2> QED
    BY <1>8, <2>1, <2>2, <2>3, <2>4 DEF Chains
<1>15. Apart'
  BY <1>1, <1>2, <1>10 DEF Apart
<1>16. OnTheWay'
  <2>1. {head'[q] : q \in Waiting'} = {head[q] : q \in Waiting}
    <3>1. \A q \in Waiting : head'[q] = head[q]
      BY <1>1, <1>6 DEF Waiting
    <3> QED
      BY <1>7, <3>1
  <2>2. \A q \in Proc : pc'[q] = "asleep" => q \in Waiting'
    BY <1>2, <1>4, <1>7 DEF OnTheWay
  <2> QED
    BY <1>1, <1>2, <1>7, <1>10, <2>1, <2>2 DEF OnTheWay
<1>17. Served'
  <2>1. ASSUME NEW q \in InFlight, q # p
        PROVE  moved'[buf'[q]] = IF head'[q] \in Range(ToFetch') \union fetched' THEN "no"
                                 ELSE IF ops'[head'[q]] THEN "out" ELSE "in"
    <3>1. moved'[buf[q]] = moved[buf[q]]
      BY <1>1, <1>2, <1>6, <2>1 DEF Types
    <3> QED
      BY <1>1, <1>2, <1>6, <1>10, <2>1, <3>1 DEF Served
  <2>2. ASSUME NEW b \in Buf, \A q \in InFlight' : buf'[q] # b
        PROVE  moved'[b] = "no"
    <3>1. CASE b = buf[p]
      BY <1>1, <1>2, <3>1 DEF Types
    <3>2. CASE b # buf[p]
      <4>1. \A q \in InFlight : buf[q] # b
        BY <1>5, <1>6, <2>2, <3>2
      <4> QED
        BY <1>1, <1>2, <3>2, <4>1 DEF Types, Served
    <3> QED
      BY <3>1, <3>2
  <2> QED
    BY <1>5, <2>1, <2>2 DEF Served
<1>18. SleepersAreShort'
  BY <1>4 DEF SleepersAreShort, Retry
<1> QED
  BY <1>1, <1>11, <1>12, <1>14, <1>15, <1>16, <1>17, <1>18 DEF DriverInv

LEMMA NextDriver ==
    ASSUME DriverInv, [Next]_vars
    PROVE  DriverInv'
<1>1. ASSUME NEW p \in Proc, AllocFails(p) \/ Driver(p) \/ Kill(p)
      PROVE  DriverInv'
  BY <1>1, AllocFailsKeeps, TurnKeeps, SubmitKeeps, FinishKeeps DEF Driver
<1>2. ASSUME NEW p \in Proc, NEW b \in Buf, NEW w \in BOOLEAN, Call(p, b, w)
      PROVE  DriverInv'
  BY <1>2, CallKeeps
<1>3. ASSUME Handler PROVE DriverInv'
  BY <1>3, InterruptKeeps, EntryKeeps DEF Handler
<1>4. ASSUME Device PROVE DriverInv'
  BY <1>4, InterruptKeeps, FetchKeeps, ServeKeeps DEF Device
<1>5. ASSUME UNCHANGED vars PROVE DriverInv'
  <2>1. /\ UNCHANGED <<free, desc, infob, ops, status, bdisk, avail, used_idx,
                       used, seen, fetched, moved, head, panicked>>
        /\ UNCHANGED <<pc, buf, handling, isr, notify>>
    BY <1>5 DEF vars, drvVars, devVars
  <2>2. InFlight' = InFlight /\ Waiting' = Waiting
    BY <2>1 DEF InFlight, Waiting
  <2>3. Types' /\ Buffers' /\ SleepersAreShort'
    BY <2>1 DEF DriverInv, Types, Buffers, SleepersAreShort
  <2>4. OnTheWay'
    BY <2>1, <2>2, Quiet DEF DriverInv, OnTheWay
  <2> QED
    BY <2>1, <2>2, <2>3, <2>4, Quiet DEF DriverInv
<1> QED
  BY <1>1, <1>2, <1>3, <1>4, <1>5 DEF Next

LEMMA Invariant == Spec => []DriverInv
BY InitDriver, NextDriver, PTL DEF Spec
-----------------------------------------------------------------------------
\* virtio_disk_rw() and virtio_disk_intr() reach none of their panics: no
\* descriptor is freed twice and every entry of the used ring is of a request
\* that is waiting, with its status byte set and its buffer recorded.
THEOREM NeverPanics == Spec => []NoPanic
<1>1. DriverInv => NoPanic
  BY DEF DriverInv, NoPanic
<1> QED
  BY <1>1, Invariant, PTL

\* alloc3_desc() and free_chain() neither leak a descriptor nor let two
\* requests share one.
THEOREM DescriptorsKept == Spec => []DescriptorsPartitioned
<1>1. ASSUME DriverInv PROVE DescriptorsPartitioned
  <2>1. \A p \in InFlight : Chain(head[p]) = Three(p) /\ Cardinality(Three(p)) = 3
    BY <1>1, ChainIsThree DEF DriverInv, Chains
  <2> QED
    BY <1>1, <2>1 DEF DriverInv, Chains, DescriptorsPartitioned
<1> QED
  BY <1>1, Invariant, PTL

\* A process that sleeps on &disk.free[0] is woken by the release that gives
\* it enough descriptors.
THEOREM ReleaseWakesSleepers == Spec => []SleepersAreShort
<1>1. DriverInv => SleepersAreShort
  BY DEF DriverInv
<1> QED
  BY <1>1, Invariant, PTL

\* Every request that waits is on its way to be handled, once, and the handler
\* will be called for those that the device has completed.
THEOREM NoCompletionMissed == Spec => []CompletionsComing
<1>1. ASSUME DriverInv PROVE CompletionsComing
  <2>1. \A p \in Waiting :
            head[p] \in Range(ToFetch) \union fetched \union Range(ToHandle)
    BY <1>1 DEF DriverInv, OnTheWay
  <2> QED
    BY <1>1, <2>1 DEF DriverInv, OnTheWay, CompletionsComing, ToFetch, ToHandle
<1> QED
  BY <1>1, Invariant, PTL
-----------------------------------------------------------------------------
(* Every step of the driver and the device is a step of the disk service,  *)
(* or none.                                                                *)

\* The direction of p's request.
Out(p) == IF p \in InFlight THEN ops[head[p]] ELSE pc[p] \in {"write", "nodesc_write"}

Req == [p \in Proc |-> [b |-> buf[p], write |-> Out(p)]]

LEMMA InitService == Init => DS!DSInit
<1> SUFFICES ASSUME Init PROVE DS!DSInit
  OBVIOUS
<1>1. \A p \in Proc : buf[p] = None /\ Out(p) = FALSE
  BY DEF Init, Out, InFlight
<1>2. Req = [p \in Proc |-> DS!Idle]
  BY <1>1 DEF Req, DS!Idle
<1> QED
  BY <1>2 DEF DS!DSInit, Init, Req, Out

\* A step that changes neither a buffer nor a direction is none of the service.
LEMMA SameRequests ==
    ASSUME UNCHANGED <<buf, moved>>, \A p \in Proc : Out(p)' = Out(p)
    PROVE  UNCHANGED DS!dsvars
<1>1. Req' = Req
  BY DEF Req
<1> QED
  BY <1>1 DEF DS!dsvars, Req, Out

LEMMA CallStarts ==
    ASSUME DriverInv, NEW p \in Proc, NEW b \in Buf, NEW w \in BOOLEAN, Call(p, b, w)
    PROVE  DS!Start(p, b, w)
<1>1. /\ pc[p] = "idle" /\ buf[p] = None
      /\ \A q \in Proc : buf[q] # b
      /\ pc' = [pc EXCEPT ![p] = IF w THEN "write" ELSE "read"]
      /\ buf' = [buf EXCEPT ![p] = b]
      /\ ops' = ops /\ head' = head /\ moved' = moved
  BY DEF Call, devVars, DriverInv, Buffers
<1>2. pc \in [Proc -> Labels] /\ buf \in [Proc -> Buf \union {None}]
  BY DEF DriverInv, Types
<1>3. Req[p] = DS!Idle
  <2>1. Out(p) = FALSE
    BY <1>1 DEF Out, InFlight
  <2> QED
    BY <1>1, <2>1 DEF Req, DS!Idle
<1>4. \A q \in Proc : Req[q].b # b
  BY <1>1 DEF Req
<1>5. \A q \in Proc : q # p => pc'[q] = pc[q] /\ buf'[q] = buf[q]
  BY <1>1, <1>2
<1>6. \A q \in Proc : q # p => Out(q)' = Out(q)
  <2>1. \A q \in Proc : q # p => (q \in InFlight' <=> q \in InFlight)
    BY <1>5 DEF InFlight
  <2> QED
    BY <1>1, <1>5, <2>1 DEF Out
<1>7. Out(p)' = w
  <2>1. CASE w = TRUE
    <3>1. pc'[p] = "write"
      BY <1>1, <1>2, <2>1
    <3>2. p \notin InFlight'
      BY <3>1 DEF InFlight
    <3> QED
      BY <2>1, <3>1, <3>2 DEF Out
  <2>2. CASE w = FALSE
    <3>1. pc'[p] = "read"
      BY <1>1, <1>2, <2>2
    <3>2. p \notin InFlight'
      BY <3>1 DEF InFlight
    <3> QED
      BY <2>2, <3>1, <3>2 DEF Out
  <2> QED
    BY <2>1, <2>2
<1>8. Req' = [Req EXCEPT ![p] = [b |-> b, write |-> w]]
  <2>1. buf'[p] = b
    BY <1>1, <1>2
  <2> QED
    BY <1>5, <1>6, <1>7, <2>1 DEF Req
<1> QED
  BY <1>1, <1>3, <1>4, <1>8 DEF DS!Start, Req, Out

LEMMA ServeTransfers ==
    ASSUME DriverInv, NEW h \in Desc, DeviceServe(h)
    PROVE  \E p \in Proc : DS!Transfer(p)
<1>1. PICK p \in Waiting :
              /\ h = head[p] /\ h \in fetched
              /\ moved' = [moved EXCEPT ![buf[p]] = IF ops[h] THEN "out" ELSE "in"]
              /\ UNCHANGED <<ops, pc, buf, head>>
  BY ServeIs
<1>2. p \in InFlight /\ p \in Proc /\ buf[p] \in Buf
  BY HeadsDiffer DEF Waiting, InFlight
<1>3. Out(p) = ops[h] /\ Req[p] = [b |-> buf[p], write |-> Out(p)]
  BY <1>1, <1>2 DEF Out, Req
<1>4. Req[p] # DS!Idle
  BY <1>2, <1>3, VirtioAssumption DEF DS!Idle
<1>5. moved[buf[p]] = "no"
  BY <1>1, <1>2 DEF DriverInv, Served
<1>6. Req' = Req
  BY <1>1 DEF Req, Out, InFlight
<1>7. /\ moved[Req[p].b] = "no"
      /\ moved' = [moved EXCEPT ![Req[p].b] = IF Req[p].write THEN "out" ELSE "in"]
  BY <1>1, <1>3, <1>5
<1>8. DS!Transfer(p)
  BY <1>4, <1>6, <1>7 DEF DS!Transfer, Req, Out
<1> QED
  BY <1>2, <1>8

LEMMA FinishCompletes ==
    ASSUME DriverInv, NEW p \in Proc, Finish(p)
    PROVE  DS!Complete(p)
<1>1. /\ pc[p] = "awake" /\ p \in InFlight /\ p \notin Waiting
      /\ pc' = [WakeAllocators EXCEPT ![p] = "idle"]
      /\ buf' = [buf EXCEPT ![p] = None]
      /\ head' = [head EXCEPT ![p] = 0]
      /\ moved' = [moved EXCEPT ![buf[p]] = "no"]
      /\ ops' = ops
  BY FinishIs
<1>2. Types /\ buf[p] \in Buf
  BY <1>1, HeadsDiffer DEF DriverInv
<1>3. Req[p] # DS!Idle /\ Req[p].b = buf[p]
  BY <1>1, <1>2, VirtioAssumption DEF DS!Idle, Req
<1>4. moved[buf[p]] # "no"
  <2>1. head[p] \notin Range(ToFetch) \union fetched
    <3>1. head[p] \notin {head[q] : q \in Waiting}
      BY <1>1, HeadsDiffer DEF Waiting
    <3> QED
      BY <3>1 DEF DriverInv, OnTheWay
  <2> QED
    BY <1>1, <2>1 DEF DriverInv, Served
<1>5. pc'[p] = "idle" /\ buf'[p] = None
  <2>1. WakeAllocators \in [Proc -> Labels]
    BY <1>2, Woken
  <2> QED
    BY <1>1, <1>2, <2>1 DEF Types
<1>6. ASSUME NEW q \in Proc, q # p
      PROVE  Out(q)' = Out(q) /\ buf'[q] = buf[q]
  <2>1. /\ WakeAllocators \in [Proc -> Labels]
        /\ WakeAllocators[q] \in {"asleep", "awake"} <=> pc[q] \in {"asleep", "awake"}
        /\ WakeAllocators[q] \in {"write", "nodesc_write"}
              <=> pc[q] \in {"write", "nodesc_write"}
    BY <1>2, Woken DEF Labels
  <2>2. pc'[q] = WakeAllocators[q] /\ buf'[q] = buf[q] /\ head'[q] = head[q]
    BY <1>1, <1>2, <1>6, <2>1 DEF Types
  <2>3. q \in InFlight' <=> q \in InFlight
    BY <2>1, <2>2 DEF InFlight
  <2>4. (pc'[q] \in {"write", "nodesc_write"}) = (pc[q] \in {"write", "nodesc_write"})
    BY <2>1, <2>2
  <2>5. ops'[head'[q]] = ops[head[q]]
    BY <1>1, <2>2
  <2>6. Out(q)' = Out(q)
    BY <2>3, <2>4, <2>5 DEF Out
  <2> QED
    BY <2>2, <2>6
<1>7. Out(p)' = FALSE
  BY <1>5 DEF Out, InFlight
<1>8. Req' = [Req EXCEPT ![p] = DS!Idle]
  BY <1>5, <1>6, <1>7 DEF Req, DS!Idle
<1>9. moved' = [moved EXCEPT ![Req[p].b] = "no"]
  BY <1>1, <1>3
<1> QED
  BY <1>3, <1>4, <1>8, <1>9 DEF DS!Complete, Req, Out

LEMMA SubmitStutters ==
    ASSUME DriverInv, NEW p \in Proc, Submit(p)
    PROVE  UNCHANGED DS!dsvars
<1>1. PICK i0, i1, i2 \in free :
              /\ pc[p] \in {"read", "write"}
              /\ ops' = [ops EXCEPT ![i0] = (pc[p] = "write")]
              /\ head' = [head EXCEPT ![p] = i0]
              /\ pc' = [pc EXCEPT ![p] = "asleep"]
              /\ UNCHANGED <<buf, moved>>
  BY SubmitIs DEF devVars
<1>2. Types /\ Chains /\ i0 \in Desc
  BY DEF DriverInv, Types
<1>3. /\ head'[p] = i0 /\ pc'[p] = "asleep"
      /\ \A q \in Proc : q # p => pc'[q] = pc[q] /\ head'[q] = head[q]
  BY <1>1, <1>2 DEF Types
<1>4. /\ ops'[i0] = (pc[p] = "write")
      /\ \A i \in Desc : i # i0 => ops'[i] = ops[i]
  <2>1. ops \in [Desc -> BOOLEAN]
    BY <1>2 DEF Types
  <2> QED
    BY <1>1, <1>2, <2>1, Zenon
<1>5. Out(p)' = Out(p)
  <2>1. p \in InFlight' /\ p \notin InFlight
    BY <1>1, <1>3 DEF InFlight
  <2>2. Out(p)' = (pc[p] = "write")
    BY <1>3, <1>4, <2>1 DEF Out
  <2>3. (pc[p] \in {"write", "nodesc_write"}) = (pc[p] = "write")
    BY <1>1
  <2>4. Out(p) = (pc[p] = "write")
    BY <2>1, <2>3 DEF Out
  <2> QED
    BY <2>2, <2>4
<1>6. ASSUME NEW q \in Proc, q # p
      PROVE  Out(q)' = Out(q)
  <2>1. q \in InFlight' <=> q \in InFlight
    BY <1>3, <1>6 DEF InFlight
  <2>2. q \in InFlight => ops'[head'[q]] = ops[head[q]]
    <3>1. q \in InFlight => head[q] # i0 /\ head[q] \in Desc
      BY <1>2, HeadsDiffer DEF Chains, Three
    <3> QED
      BY <1>3, <1>4, <1>6, <3>1
  <2>3. pc'[q] = pc[q]
    BY <1>3, <1>6
  <2> QED
    BY <2>1, <2>2, <2>3 DEF Out
<1> QED
  BY <1>1, <1>5, <1>6, SameRequests

LEMMA NextService ==
    ASSUME DriverInv, [Next]_vars
    PROVE  [DS!DSNext]_DS!dsvars
<1>1. ASSUME NEW p \in Proc, NEW b \in Buf, NEW w \in BOOLEAN, Call(p, b, w)
      PROVE  DS!DSNext
  BY <1>1, CallStarts DEF DS!DSNext
<1>2. ASSUME NEW h \in Desc, DeviceServe(h)
      PROVE  DS!DSNext
  BY <1>2, ServeTransfers DEF DS!DSNext
<1>3. ASSUME NEW p \in Proc, Finish(p)
      PROVE  DS!DSNext
  BY <1>3, FinishCompletes DEF DS!DSNext
<1>4. ASSUME NEW p \in Proc, Submit(p)
      PROVE  UNCHANGED DS!dsvars
  BY <1>4, SubmitStutters
<1>5. ASSUME NEW p \in Proc, AllocFails(p) \/ SleepAgain(p) \/ Kill(p)
      PROVE  UNCHANGED DS!dsvars
  <2>1. UNCHANGED <<buf, moved, ops, head>>
    BY <1>5 DEF AllocFails, SleepAgain, Kill, devVars
  <2>2. Types
    BY DEF DriverInv
  <2>3. \A q \in Proc :
            /\ pc'[q] \in {"asleep", "awake"} <=> pc[q] \in {"asleep", "awake"}
            /\ pc'[q] \in {"write", "nodesc_write"} <=> pc[q] \in {"write", "nodesc_write"}
    <3>1. CASE AllocFails(p)
      <4>1. PICK l \in {"read", "write"} :
                /\ pc[p] = l
                /\ pc' = [(IF free = {} THEN pc ELSE WakeAllocators)
                            EXCEPT ![p] = IF l = "read" THEN "nodesc_read"
                                                        ELSE "nodesc_write"]
        BY <3>1 DEF AllocFails, Enter
      <4> DEFINE f == IF free = {} THEN pc ELSE WakeAllocators
      <4>2. /\ f \in [Proc -> Labels]
            /\ \A q \in Proc :
                  /\ f[q] \in {"asleep", "awake"} <=> pc[q] \in {"asleep", "awake"}
                  /\ f[q] \in {"write", "nodesc_write"}
                        <=> pc[q] \in {"write", "nodesc_write"}
        <5>1. CASE free = {}
          BY <2>2, <5>1 DEF Types
        <5>2. CASE free # {}
          <6>1. f = WakeAllocators
            BY <5>2
          <6>2. WakeAllocators \in [Proc -> Labels]
            BY <2>2, <4>1, Woken
          <6> QED
            BY <2>2, <6>1, <6>2, Woken DEF Labels
        <5> QED
          BY <5>1, <5>2
      <4>3. pc' = [f EXCEPT ![p] = IF l = "read" THEN "nodesc_read" ELSE "nodesc_write"]
        BY <4>1
      <4> HIDE DEF f
      <4> QED
        BY <4>1, <4>2, <4>3
    <3>2. CASE SleepAgain(p)
      BY <2>2, <3>2 DEF SleepAgain, Enter, Types
    <3>3. CASE Kill(p)
      <4>1. /\ DOMAIN Retry = {"nodesc_read", "nodesc_write"}
            /\ Retry["nodesc_read"] = "read" /\ Retry["nodesc_write"] = "write"
        BY DEF Retry
      <4>2. \E v \in Labels :
                /\ pc' = [pc EXCEPT ![p] = v]
                /\ \/ pc[p] = "asleep" /\ v = "awake"
                   \/ pc[p] = "nodesc_read" /\ v = "read"
                   \/ pc[p] = "nodesc_write" /\ v = "write"
        <5>1. CASE pc[p] = "asleep"
          BY <3>3, <5>1 DEF Kill, Labels
        <5>2. CASE pc[p] # "asleep"
          <6>1. /\ pc[p] \in {"nodesc_read", "nodesc_write"}
                /\ pc' = [pc EXCEPT ![p] = Retry[pc[p]]]
            BY <3>3, <4>1, <5>2 DEF Kill
          <6> QED
            BY <4>1, <6>1 DEF Labels
        <5> QED
          BY <5>1, <5>2
      <4> QED
        BY <2>2, <4>2 DEF Types
    <3> QED
      BY <1>5, <3>1, <3>2, <3>3
  <2>4. ASSUME NEW q \in Proc
        PROVE  Out(q)' = Out(q)
    <3>1. q \in InFlight' <=> q \in InFlight
      BY <2>3 DEF InFlight
    <3>2. (pc'[q] \in {"write", "nodesc_write"}) = (pc[q] \in {"write", "nodesc_write"})
      BY <2>3
    <3> QED
      BY <2>1, <3>1, <3>2 DEF Out
  <2> QED
    BY <2>1, <2>4, SameRequests
<1>6. ASSUME IntrAck \/ IntrDone \/ DeviceFetch \/ DeviceInterrupt \/ UNCHANGED vars
      PROVE  UNCHANGED DS!dsvars
  <2>1. UNCHANGED <<buf, moved, ops, head, pc>>
    BY <1>6 DEF IntrAck, IntrDone, DeviceFetch, DeviceInterrupt, vars, drvVars, devVars
  <2>2. \A q \in Proc : Out(q)' = Out(q)
    BY <2>1 DEF Out, InFlight
  <2> QED
    BY <2>1, <2>2, SameRequests
<1>7. ASSUME IntrEntry
      PROVE  UNCHANGED DS!dsvars
  <2>1. PICK p \in Waiting :
            /\ pc' = [q \in Proc |-> IF pc[q] = "asleep" /\ buf[q] = buf[p]
                                        THEN "awake" ELSE pc[q]]
            /\ UNCHANGED <<buf, moved, ops, head>>
    BY <1>7, EntryIs
  <2>2. ASSUME NEW q \in Proc
        PROVE  Out(q)' = Out(q)
    <3>1. \/ pc'[q] = pc[q]
          \/ pc[q] = "asleep" /\ pc'[q] = "awake"
      <4>1. pc'[q] = IF pc[q] = "asleep" /\ buf[q] = buf[p] THEN "awake" ELSE pc[q]
        BY <2>1
      <4> QED
        BY <4>1
    <3>2. q \in InFlight' <=> q \in InFlight
      BY <3>1 DEF InFlight
    <3>3. (pc'[q] \in {"write", "nodesc_write"}) = (pc[q] \in {"write", "nodesc_write"})
      BY <3>1
    <3> QED
      BY <2>1, <3>2, <3>3 DEF Out
  <2> QED
    BY <2>1, <2>2, SameRequests
<1> QED
  BY <1>1, <1>2, <1>3, <1>4, <1>5, <1>6, <1>7
     DEF Next, Driver, Handler, Device

\* virtio_disk_rw() returns after the device has moved its own buffer, once
\* and in the direction asked for, whatever the order of the completions.
THEOREM DiskServes == Spec => TransfersOnce
BY InitDriver, NextDriver, InitService, NextService, PTL
   DEF Spec, TransfersOnce, DS!DSSpec
=============================================================================
