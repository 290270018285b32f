---------------------------- MODULE RingTheorems ----------------------------
(***************************************************************************)
(* A ring buffer with counters that wrap, as pipe.c, virtio_disk.c and     *)
(* console.c have it: between the reader's counter and the writer's, the   *)
(* ring holds a queue.  The counters are modulo M, the ring has P places,  *)
(* and P divides M, as a power of two divides 2^32 and 2^16.               *)
(***************************************************************************)
EXTENDS Integers, Sequences, SequenceTheorems, TLAPS

\* What is between counter r and counter w in ring d.
Window(d, r, w, P, M) == [k \in 1..((w - r) % M) |-> d[(r + k - 1) % P]]

\* The constants of a ring and the type of its counters.
RingOf(P, M) == P \in Nat \ {0} /\ M \in Nat \ {0} /\ P <= M /\ M % P = 0

\* Ring d with its places, the reader's counter r and the writer's w.
IsRing(d, r, w, P, M) ==
    /\ RingOf(P, M)
    /\ r \in 0..(M - 1)
    /\ w \in 0..(M - 1)
    /\ d = [i \in 0..(P - 1) |-> d[i]]

\* Value v at counter c.
StoreAt(d, c, v, P) == [d EXCEPT ![c % P] = v]

\* Two windows, one behind the other.
Joined(s, t) == s \o t
-----------------------------------------------------------------------------
LEMMA ModDef ==
    ASSUME NEW M \in Nat \ {0}, NEW a \in Int
    PROVE  /\ a % M \in 0..(M - 1)
           /\ (a \div M) \in Int
           /\ a = M * (a \div M) + (a % M)
OBVIOUS

LEMMA ModUnique ==
    ASSUME NEW M \in Nat \ {0}, NEW q \in Int, NEW r \in 0..(M - 1)
    PROVE  (M * q + r) % M = r
OBVIOUS

LEMMA ModCases ==
    ASSUME NEW M \in Nat \ {0}, NEW a \in (-M)..(2 * M - 1)
    PROVE  a % M = IF a < 0 THEN a + M ELSE IF a < M THEN a ELSE a - M
OBVIOUS

\* A counter that wraps stays at its slot, as the modulus is a multiple.
LEMMA ModShift ==
    ASSUME NEW P \in Nat \ {0}, NEW M \in Nat, M % P = 0, NEW a \in Int
    PROVE  (a + M) % P = a % P
<1> DEFINE q == a \div P
           c == M \div P
           e == q + c
<1>1. q \in Int /\ c \in Int /\ a = P * q + (a % P) /\ M = P * c
  BY ModDef
<1>2. a + M = P * (q + c) + (a % P) /\ q + c \in Int /\ a % P \in 0..(P - 1)
  BY <1>1, ModDef
<1>3. e \in Int /\ a % P \in 0..(P - 1) /\ a + M = P * e + (a % P)
  BY <1>2
<1> HIDE DEF e
<1>4. (P * e + (a % P)) % P = a % P
  BY <1>3, ModUnique
<1> QED
  BY <1>3, <1>4

\* Counters less than a buffer apart have different slots.
LEMMA ModDiffer ==
    ASSUME NEW P \in Nat \ {0}, NEW a \in Int, NEW b \in Int, a < b, b < a + P
    PROVE  a % P # b % P
<1> SUFFICES ASSUME a % P = b % P PROVE FALSE
  OBVIOUS
<1> DEFINE q == a \div P
           c == b \div P
           d == c - q
<1>1. q \in Int /\ c \in Int /\ a = P * q + (a % P) /\ b = P * c + (a % P)
  BY ModDef
<1> HIDE DEF q, c
<1>2. b - a = P * (c - q) /\ c - q \in Int
  BY <1>1
<1>3. d \in Int /\ 0 < P * d /\ P * d < P
  BY <1>2
<1> HIDE DEF d
<1>4. d <= 0 => P * d <= 0
  BY <1>3
<1>5. d >= 1 => P * d >= P
  BY <1>3
<1> QED
  BY <1>3, <1>4, <1>5

\* A counter after a step, and the difference of two, wrapped or not.
LEMMA CounterStep ==
    ASSUME NEW M \in Nat \ {0}, NEW a \in 0..(M - 1)
    PROVE  /\ (a + 1) % M = IF a = M - 1 THEN 0 ELSE a + 1
           /\ (a + 1) % M \in 0..(M - 1)
<1> DEFINE b == a + 1
<1>1. b \in (-M)..(2 * M - 1)
  OBVIOUS
<1> HIDE DEF b
<1>2. b % M = IF b < 0 THEN b + M ELSE IF b < M THEN b ELSE b - M
  BY <1>1, ModCases
<1>3. (a + 1) % M = IF a = M - 1 THEN 0 ELSE a + 1
  BY <1>1, <1>2 DEF b
<1> QED
  BY <1>3

LEMMA CounterGap ==
    ASSUME NEW M \in Nat \ {0}, NEW r \in 0..(M - 1), NEW w \in 0..(M - 1)
    PROVE  /\ (w - r) % M = IF r <= w THEN w - r ELSE w - r + M
           /\ (w - r) % M \in 0..(M - 1)
           /\ (w - r) % M = 0 <=> w = r
<1> DEFINE b == w - r
<1>1. b \in (-M)..(2 * M - 1)
  OBVIOUS
<1> HIDE DEF b
<1>2. b % M = IF b < 0 THEN b + M ELSE IF b < M THEN b ELSE b - M
  BY <1>1, ModCases
<1>3. (w - r) % M = IF r <= w THEN w - r ELSE w - r + M
  BY <1>1, <1>2 DEF b
<1> QED
  BY <1>3

LEMMA WindowType ==
    ASSUME NEW P, NEW M, NEW r, NEW w, NEW d, IsRing(d, r, w, P, M),
           NEW S, d \in [0..(P - 1) -> S]
    PROVE  /\ Window(d, r, w, P, M) \in Seq(S)
           /\ Len(Window(d, r, w, P, M)) = (w - r) % M
<1> DEFINE n == (w - r) % M
<1>1. /\ P \in Nat \ {0} /\ M \in Nat \ {0}
      /\ r \in 0..(M - 1) /\ w \in 0..(M - 1)
  BY DEF IsRing, RingOf
<1>2. n \in Nat
  BY <1>1, CounterGap
<1> HIDE DEF n
<1>3. \A k \in 1..n : (r + k - 1) % P \in 0..(P - 1)
  BY <1>1, <1>2
<1>4. \A k \in 1..n : d[(r + k - 1) % P] \in S
  BY <1>3
<1>5. Window(d, r, w, P, M) = [k \in 1..n |-> d[(r + k - 1) % P]]
  BY DEF Window, n
<1>6. Len(Window(d, r, w, P, M)) = n
  BY <1>2, <1>5
<1>7. Window(d, r, w, P, M) \in Seq(S)
  BY <1>2, <1>4, <1>5
<1> QED
  BY <1>6, <1>7 DEF n

\* Storing at the writer's counter and advancing it appends.
LEMMA WindowPut ==
    ASSUME NEW P, NEW M, NEW r, NEW w, NEW d, IsRing(d, r, w, P, M),
           (w - r) % M < P, ((w - r) % M) + 1 < M
    PROVE  /\ (((w + 1) % M) - r) % M = ((w - r) % M) + 1
           /\ \A v : Window(StoreAt(d, w, v, P), r, (w + 1) % M, P, M)
                         = Append(Window(d, r, w, P, M), v)
<1> SUFFICES ASSUME NEW v
             PROVE  /\ (((w + 1) % M) - r) % M = ((w - r) % M) + 1
                    /\ Window(StoreAt(d, w, v, P), r, (w + 1) % M, P, M)
                           = Append(Window(d, r, w, P, M), v)
  OBVIOUS
<1> DEFINE n == (w - r) % M
           x == (w + 1) % M
           e == [d EXCEPT ![w % P] = v]
           Q == Window(d, r, w, P, M)
           R(k) == IF k = n + 1 THEN v ELSE Q[k]
           S == {d[i] : i \in 0..(P - 1)} \union {v}
<1>a. d \in [0..(P - 1) -> S] /\ v \in S
  BY DEF IsRing
<1> HIDE DEF S
<1>1. P \in Nat \ {0} /\ M \in Nat \ {0} /\ M % P = 0
      /\ r \in 0..(M - 1) /\ w \in 0..(M - 1)
  BY DEF RingOf, IsRing
<1>2. n = (IF r <= w THEN w - r ELSE w - r + M) /\ n \in Nat
  BY <1>1, CounterGap
<1>3. x = (IF w = M - 1 THEN 0 ELSE w + 1) /\ x \in 0..(M - 1)
  BY <1>1, CounterStep
<1>0. n < P /\ n + 1 < M
  OBVIOUS
<1> HIDE DEF x
<1>4. (x - r) % M = IF r <= x THEN x - r ELSE x - r + M
  <2>1. x \in 0..(M - 1) /\ M \in Nat \ {0}
    BY <1>1, <1>3
  <2> QED
    BY <1>1, <2>1, CounterGap
<1> HIDE DEF n
<1>5. (x - r) % M = n + 1
  BY <1>0, <1>1, <1>2, <1>3, <1>4
<1>6. (r + n) % P = w % P
  <2>1. CASE r <= w
    BY <1>1, <1>2, <2>1
  <2>2. CASE ~(r <= w)
    <3>1. r + n = w + M /\ w \in Int
      BY <1>1, <1>2, <2>2
    <3> QED
      BY <1>1, <3>1, ModShift
  <2> QED
    BY <2>1, <2>2
<1>7. w % P \in 0..(P - 1)
  BY <1>1
<1>8. ASSUME NEW k \in 1..n
      PROVE  e[(r + k - 1) % P] = d[(r + k - 1) % P]
  <2>1. (r + k - 1) % P # (r + n) % P
    <3>1. /\ r + k - 1 \in Int /\ r + n \in Int
          /\ r + k - 1 < r + n /\ r + n < r + k - 1 + P
      BY <1>0, <1>1, <1>2
    <3> QED
      BY <1>1, <3>1, ModDiffer
  <2>2. (r + k - 1) % P \in 0..(P - 1)
    BY <1>1, <1>2
  <2> QED
    BY <1>6, <2>1, <2>2
<1>9. e[(r + n) % P] = v
  BY <1>a, <1>6, <1>7
<1>10. Window(e, r, x, P, M) = [k \in 1..(n + 1) |-> e[(r + k - 1) % P]]
  BY <1>5 DEF Window
<1>11. Q = [k \in 1..n |-> d[(r + k - 1) % P]]
  BY DEF Window, n
<1>12. Q \in Seq(S) /\ Len(Q) = n
  BY <1>a, WindowType DEF n
<1> HIDE DEF e, Q
<1>13. \A k \in 1..(n + 1) : e[(r + k - 1) % P] = R(k)
  <2> SUFFICES ASSUME NEW k \in 1..(n + 1)
               PROVE  e[(r + k - 1) % P] = R(k)
    OBVIOUS
  <2>1. CASE k = n + 1
    <3>1. r + k - 1 = r + n
      BY <1>2, <2>1
    <3> QED
      BY <1>9, <2>1, <3>1
  <2>2. CASE k # n + 1
    <3>1. k \in 1..n
      BY <1>2, <2>2
    <3> QED
      BY <1>8, <1>11, <2>2, <3>1
  <2> QED
    BY <2>1, <2>2
<1>14. Append(Q, v) = [k \in 1..(n + 1) |-> R(k)]
  <2>1. /\ Append(Q, v) \in Seq(S) /\ Len(Append(Q, v)) = n + 1
        /\ \A k \in 1..n : Append(Q, v)[k] = Q[k]
        /\ Append(Q, v)[n + 1] = v
    BY <1>a, <1>12, AppendProperties
  <2>2. \A k \in 1..(n + 1) : Append(Q, v)[k] = R(k)
    BY <1>2, <2>1
  <2>3. Append(Q, v) = [k \in 1..(n + 1) |-> Append(Q, v)[k]]
    BY <2>1, LenProperties
  <2> QED
    BY <2>2, <2>3
<1>15. Window(e, r, x, P, M) = Append(Q, v)
  BY <1>10, <1>13, <1>14
<1> QED
  BY <1>5, <1>15 DEF x, e, Q, n, StoreAt

\* Advancing the reader's counter takes the first element away.
LEMMA WindowTake ==
    ASSUME NEW P, NEW M, NEW r, NEW w, NEW d, IsRing(d, r, w, P, M), r # w, (w - r) % M <= P
    PROVE  LET Q == Window(d, r, w, P, M)
           IN  /\ (w - ((r + 1) % M)) % M = ((w - r) % M) - 1
               /\ Q # <<>> /\ Head(Q) = d[r % P]
               /\ Window(d, (r + 1) % M, w, P, M) = Tail(Q)
<1> DEFINE n == (w - r) % M
           x == (r + 1) % M
           Q == Window(d, r, w, P, M)
           S == {d[i] : i \in 0..(P - 1)}
<1>a. d \in [0..(P - 1) -> S]
  BY DEF IsRing
<1> HIDE DEF S
<1>1. P \in Nat \ {0} /\ M \in Nat \ {0} /\ M % P = 0
      /\ r \in 0..(M - 1) /\ w \in 0..(M - 1)
  BY DEF RingOf, IsRing
<1>2. n = (IF r <= w THEN w - r ELSE w - r + M) /\ n \in Nat \ {0}
  BY <1>1, CounterGap
<1>3. x = (IF r = M - 1 THEN 0 ELSE r + 1) /\ x \in 0..(M - 1)
  BY <1>1, CounterStep
<1>0. n <= P
  OBVIOUS
<1> HIDE DEF x
<1>4. (w - x) % M = IF x <= w THEN w - x ELSE w - x + M
  BY <1>1, <1>3, CounterGap
<1> HIDE DEF n
<1>5. (w - x) % M = n - 1
  BY <1>1, <1>2, <1>3, <1>4
<1>6. \A k \in 1..(n - 1) : (x + k - 1) % P = (r + k) % P
  <2> SUFFICES ASSUME NEW k \in 1..(n - 1)
               PROVE  (x + k - 1) % P = (r + k) % P
    OBVIOUS
  <2>1. CASE r = M - 1
    <3>1. x + k - 1 = k - 1 /\ r + k = (k - 1) + M /\ k - 1 \in Int
      BY <1>1, <1>2, <1>3, <2>1
    <3> QED
      BY <1>1, <3>1, ModShift
  <2>2. CASE r # M - 1
    <3>1. x + k - 1 = r + k
      BY <1>1, <1>2, <1>3, <2>2
    <3> QED
      BY <3>1
  <2> QED
    BY <2>1, <2>2
<1>8. Q \in Seq(S) /\ Len(Q) = n /\ Q = [k \in 1..n |-> d[(r + k - 1) % P]]
  <2>1. Q \in Seq(S) /\ Len(Q) = n
    BY <1>a, WindowType DEF n
  <2>2. Q = [k \in 1..n |-> d[(r + k - 1) % P]]
    BY DEF n, Window
  <2> QED
    BY <2>1, <2>2
<1>9. Window(d, x, w, P, M) = [k \in 1..(n - 1) |-> d[(x + k - 1) % P]]
  BY <1>5 DEF Window
<1> HIDE DEF Q
<1>10. \A k \in 1..(n - 1) : Q[k + 1] = d[(r + k) % P]
  <2> SUFFICES ASSUME NEW k \in 1..(n - 1)
               PROVE  Q[k + 1] = d[(r + k) % P]
    OBVIOUS
  <2>1. k + 1 \in 1..n /\ r + (k + 1) - 1 = r + k
    BY <1>2
  <2> QED
    BY <1>8, <2>1
<1>11. Q # <<>> /\ Head(Q) = Q[1]
  <2>1. Q # <<>>
    BY <1>2, <1>8, EmptySeq
  <2>2. Q \in Seq(S)
    BY <1>8
  <2> QED
    BY <2>1, <2>2, HeadTailProperties
<1>12. Q[1] = d[r % P]
  <2>1. 1 \in 1..n /\ r + 1 - 1 = r
    BY <1>1, <1>2
  <2> QED
    BY <1>8, <2>1
<1>13. Tail(Q) = [k \in 1..(n - 1) |-> Q[k + 1]]
  <2>1. /\ Tail(Q) \in Seq(S) /\ Len(Tail(Q)) = n - 1
        /\ \A k \in 1..(n - 1) : Tail(Q)[k] = Q[k + 1]
    BY <1>8, <1>11, HeadTailProperties
  <2>2. Tail(Q) = [k \in 1..(n - 1) |-> Tail(Q)[k]]
    BY <2>1, LenProperties
  <2> QED
    BY <2>1, <2>2
<1>14. Window(d, x, w, P, M) = Tail(Q)
  BY <1>6, <1>9, <1>10, <1>13
<1>15. (w - ((r + 1) % M)) % M = ((w - r) % M) - 1
  BY <1>5 DEF x, n
<1> QED
  BY <1>11, <1>12, <1>14, <1>15 DEF x, Q

\* What becomes of the place that the reader has passed does not matter.
LEMMA WindowPassed ==
    ASSUME NEW P, NEW M, NEW r, NEW w, NEW d, IsRing(d, r, w, P, M),
           r # w, (w - r) % M <= P
    PROVE  \A v : Window(StoreAt(d, r, v, P), (r + 1) % M, w, P, M)
                      = Window(d, (r + 1) % M, w, P, M)
<1> SUFFICES ASSUME NEW v
             PROVE  Window(StoreAt(d, r, v, P), (r + 1) % M, w, P, M)
                        = Window(d, (r + 1) % M, w, P, M)
  OBVIOUS
<1> DEFINE n == (w - r) % M
           x == (r + 1) % M
           e == [d EXCEPT ![r % P] = v]
<1>1. P \in Nat \ {0} /\ M \in Nat \ {0} /\ M % P = 0 /\ n <= P
      /\ r \in 0..(M - 1) /\ w \in 0..(M - 1)
  BY DEF RingOf, IsRing
<1>a. d = [i \in 0..(P - 1) |-> d[i]]
  BY DEF IsRing
<1>2. n = (IF r <= w THEN w - r ELSE w - r + M) /\ n \in Nat \ {0}
  BY <1>1, CounterGap
<1>3. x = (IF r = M - 1 THEN 0 ELSE r + 1) /\ x \in 0..(M - 1)
  BY <1>1, CounterStep
<1> HIDE DEF x
<1>4. (w - x) % M = IF x <= w THEN w - x ELSE w - x + M
  BY <1>1, <1>3, CounterGap
<1> HIDE DEF n
<1>5. (w - x) % M = n - 1
  BY <1>1, <1>2, <1>3, <1>4
<1>6. ASSUME NEW k \in 1..(n - 1)
      PROVE  e[(x + k - 1) % P] = d[(x + k - 1) % P]
  <2>1. (x + k - 1) % P = (r + k) % P
    <3>1. CASE r = M - 1
      <4>1. x + k - 1 = k - 1 /\ r + k = (k - 1) + M /\ k - 1 \in Int
        BY <1>1, <1>2, <1>3, <3>1
      <4> QED
        BY <1>1, <4>1, ModShift
    <3>2. CASE r # M - 1
      <4>1. x + k - 1 = r + k
        BY <1>1, <1>2, <1>3, <3>2
      <4> QED
        BY <4>1
    <3> QED
      BY <3>1, <3>2
  <2>2. r % P # (r + k) % P
    <3>1. r \in Int /\ r + k \in Int /\ r < r + k /\ r + k < r + P
      BY <1>1, <1>2
    <3> QED
      BY <1>1, <3>1, ModDiffer
  <2>3. (x + k - 1) % P \in 0..(P - 1)
    BY <1>1, <1>2, <1>3
  <2> QED
    BY <1>a, <2>1, <2>2, <2>3
<1> HIDE DEF e
<1>7. Window(e, x, w, P, M) = Window(d, x, w, P, M)
  BY <1>5, <1>6 DEF Window
<1> QED
  BY <1>7 DEF x, e, StoreAt

\* Counters r, w and e in this order: the gaps add up.
LEMMA GapSum ==
    ASSUME NEW M \in Nat \ {0}, NEW r \in 0..(M - 1), NEW w \in 0..(M - 1),
           NEW e \in 0..(M - 1), ((w - r) % M) + ((e - w) % M) < M
    PROVE  (e - r) % M = ((w - r) % M) + ((e - w) % M)
<1> DEFINE a == (w - r) % M
           b == (e - w) % M
           c == (e - r) % M
<1>1. a = IF r <= w THEN w - r ELSE w - r + M
  BY CounterGap
<1>2. b = IF w <= e THEN e - w ELSE e - w + M
  BY CounterGap
<1>3. c = IF r <= e THEN e - r ELSE e - r + M
  BY CounterGap
<1>4. a + b < M
  OBVIOUS
<1> HIDE DEF a, b, c
<1>5. c = a + b
  BY <1>1, <1>2, <1>3, <1>4
<1> QED
  BY <1>5 DEF a, b, c

\* The place of what is k places behind counter r.
LEMMA PlaceBehind ==
    ASSUME NEW P, NEW M, RingOf(P, M), NEW r \in 0..(M - 1), NEW w \in 0..(M - 1),
           NEW k \in Int
    PROVE  (r + ((w - r) % M) + k) % P = (w + k) % P
<1>1. P \in Nat \ {0} /\ M \in Nat \ {0} /\ M % P = 0
  BY DEF RingOf
<1> DEFINE n == (w - r) % M
<1>2. n = IF r <= w THEN w - r ELSE w - r + M
  BY <1>1, CounterGap
<1> HIDE DEF n
<1>3. CASE r <= w
  <2>1. r + n + k = w + k
    BY <1>1, <1>2, <1>3
  <2> QED
    BY <2>1 DEF n
<1>4. CASE ~(r <= w)
  <2>1. r + n + k = (w + k) + M /\ w + k \in Int
    BY <1>1, <1>2, <1>4
  <2>2. ((w + k) + M) % P = (w + k) % P
    BY <1>1, <2>1, ModShift
  <2> QED
    BY <2>1, <2>2 DEF n
<1> QED
  BY <1>3, <1>4

\* A window is cut in two at a counter within it.
LEMMA WindowJoin ==
    ASSUME NEW P, NEW M, NEW r, NEW w, NEW e, NEW d,
           IsRing(d, r, w, P, M), IsRing(d, w, e, P, M),
           ((w - r) % M) + ((e - w) % M) < M
    PROVE  Window(d, r, e, P, M) = Joined(Window(d, r, w, P, M), Window(d, w, e, P, M))
<1> DEFINE a == (w - r) % M
           b == (e - w) % M
           A == Window(d, r, w, P, M)
           B == Window(d, w, e, P, M)
           S == {d[i] : i \in 0..(P - 1)}
<1>1. /\ P \in Nat \ {0} /\ M \in Nat \ {0} /\ RingOf(P, M)
      /\ r \in 0..(M - 1) /\ w \in 0..(M - 1) /\ e \in 0..(M - 1)
  BY DEF IsRing, RingOf
<1>2. d \in [0..(P - 1) -> S]
  BY DEF IsRing
<1> HIDE DEF S
<1>3. /\ A \in Seq(S) /\ Len(A) = a /\ B \in Seq(S) /\ Len(B) = b
  BY <1>2, WindowType
<1>4. a \in Nat /\ b \in Nat /\ (e - r) % M = a + b
  <2>1. a \in Nat /\ b \in Nat
    BY <1>1, CounterGap
  <2>2. (e - r) % M = a + b
    BY <1>1, GapSum
  <2> QED
    BY <2>1, <2>2
<1>5. /\ A = [k \in 1..a |-> d[(r + k - 1) % P]]
      /\ B = [k \in 1..b |-> d[(w + k - 1) % P]]
      /\ Window(d, r, e, P, M) = [k \in 1..(a + b) |-> d[(r + k - 1) % P]]
  BY <1>4 DEF Window
<1>6. \A k \in Int : (r + a + k) % P = (w + k) % P
  BY <1>1, PlaceBehind
<1> HIDE DEF a, b, A, B
<1>7. /\ A \o B \in Seq(S) /\ Len(A \o B) = a + b
      /\ \A k \in 1..(a + b) : (A \o B)[k] = IF k <= a THEN A[k] ELSE B[k - a]
  BY <1>3, ConcatProperties
<1>8. A \o B = [k \in 1..(a + b) |-> (A \o B)[k]]
  BY <1>7, LenProperties
<1>9. \A k \in 1..(a + b) : (A \o B)[k] = d[(r + k - 1) % P]
  <2> SUFFICES ASSUME NEW k \in 1..(a + b)
               PROVE  (A \o B)[k] = d[(r + k - 1) % P]
    OBVIOUS
  <2>1. CASE k <= a
    <3>1. k \in 1..a
      BY <1>4, <2>1
    <3> QED
      BY <1>5, <1>7, <2>1, <3>1
  <2>2. CASE ~(k <= a)
    <3>1. k - a \in 1..b /\ k - a - 1 \in Int
      BY <1>4, <2>2
    <3>2. (r + a + (k - a - 1)) % P = (w + (k - a - 1)) % P
      BY <1>6, <3>1
    <3>3. r + a + (k - a - 1) = r + k - 1 /\ w + (k - a - 1) = w + (k - a) - 1
      BY <1>1, <1>4
    <3>4. (r + k - 1) % P = (w + (k - a) - 1) % P
      BY <3>2, <3>3
    <3>5. B[k - a] = d[(w + (k - a) - 1) % P]
      BY <1>5, <3>1
    <3> QED
      BY <1>7, <2>2, <3>4, <3>5
  <2> QED
    BY <2>1, <2>2
<1>10. Window(d, r, e, P, M) = A \o B
  BY <1>5, <1>8, <1>9
<1> QED
  BY <1>10 DEF A, B, Joined

\* Storing behind a window, where the ring is not full, leaves it alone.
LEMMA WindowElsewhere ==
    ASSUME NEW P, NEW M, NEW r, NEW w, NEW e, NEW d,
           IsRing(d, r, w, P, M), IsRing(d, w, e, P, M),
           ((w - r) % M) + ((e - w) % M) < P
    PROVE  \A v : Window(StoreAt(d, e, v, P), r, w, P, M) = Window(d, r, w, P, M)
<1> SUFFICES ASSUME NEW v
             PROVE  Window(StoreAt(d, e, v, P), r, w, P, M) = Window(d, r, w, P, M)
  OBVIOUS
<1> DEFINE a == (w - r) % M
           b == (e - w) % M
           f == [d EXCEPT ![e % P] = v]
<1>1. /\ P \in Nat \ {0} /\ M \in Nat \ {0} /\ P <= M /\ RingOf(P, M)
      /\ r \in 0..(M - 1) /\ w \in 0..(M - 1) /\ e \in 0..(M - 1)
  BY DEF IsRing, RingOf
<1>2. a \in Nat /\ b \in Nat /\ a + b < P
  <2>1. a \in Nat /\ b \in Nat
    BY <1>1, CounterGap
  <2> QED
    BY <2>1
<1>3. (r + (a + b)) % P = e % P
  <2>1. \A k \in Int : (w + b + k) % P = (e + k) % P
    BY <1>1, PlaceBehind
  <2>2. \A k \in Int : (r + a + k) % P = (w + k) % P
    BY <1>1, PlaceBehind
  <2> HIDE DEF a, b
  <2>3. b \in Int /\ w + b + 0 = w + b /\ e + 0 = e /\ r + (a + b) = r + a + b
    BY <1>1, <1>2
  <2>4. (r + a + b) % P = (w + b) % P
    BY <2>2, <2>3
  <2>5. (w + b) % P = e % P
    <3>1. (w + b + 0) % P = (e + 0) % P
      BY <2>1
    <3> QED
      BY <2>3, <3>1
  <2> QED
    BY <2>3, <2>4, <2>5
<1> HIDE DEF a, b
<1>4. ASSUME NEW k \in 1..a
      PROVE  f[(r + k - 1) % P] = d[(r + k - 1) % P]
  <2>1. (r + k - 1) % P # (r + (a + b)) % P
    <3>1. /\ r + k - 1 \in Int /\ r + (a + b) \in Int
          /\ r + k - 1 < r + (a + b) /\ r + (a + b) < r + k - 1 + P
      BY <1>1, <1>2
    <3> QED
      BY <1>1, <3>1, ModDiffer
  <2>2. (r + k - 1) % P \in 0..(P - 1)
    BY <1>1, <1>2
  <2>3. (r + k - 1) % P # e % P
    BY <1>3, <2>1
  <2>4. DOMAIN d = 0..(P - 1)
    BY DEF IsRing
  <2> QED
    BY <2>2, <2>3, <2>4
<1> HIDE DEF f
<1>5. /\ Window(f, r, w, P, M) = [k \in 1..a |-> f[(r + k - 1) % P]]
      /\ Window(d, r, w, P, M) = [k \in 1..a |-> d[(r + k - 1) % P]]
  BY DEF Window, a
<1>6. Window(f, r, w, P, M) = Window(d, r, w, P, M)
  BY <1>4, <1>5
<1> QED
  BY <1>6 DEF f, StoreAt

\* Taking the writer's counter back by k takes the last k elements away.
LEMMA WindowBack ==
    ASSUME NEW P, NEW M, NEW r, NEW w, NEW d, IsRing(d, r, w, P, M),
           NEW k \in 0..((w - r) % M)
    PROVE  /\ (w - k) % M \in 0..(M - 1)
           /\ (((w - k) % M) - r) % M = ((w - r) % M) - k
           /\ \A j \in 1..(((w - r) % M) - k) :
                 Window(d, r, (w - k) % M, P, M)[j] = Window(d, r, w, P, M)[j]
           /\ \A j \in 1..((w - r) % M) :
                 Window(d, r, w, P, M)[((w - r) % M) + 1 - j] = d[(w - j) % P]
<1> DEFINE n == (w - r) % M
           x == (w - k) % M
<1>1. /\ P \in Nat \ {0} /\ M \in Nat \ {0} /\ RingOf(P, M)
      /\ r \in 0..(M - 1) /\ w \in 0..(M - 1)
  BY DEF IsRing, RingOf
<1>2. n = (IF r <= w THEN w - r ELSE w - r + M) /\ n \in 0..(M - 1) /\ k \in 0..n
  BY <1>1, CounterGap
<1>6. \A j \in Int : (r + n + j) % P = (w + j) % P
  BY <1>1, PlaceBehind
<1>5. Window(d, r, w, P, M) = [j \in 1..n |-> d[(r + j - 1) % P]]
  BY DEF Window
<1> HIDE DEF n
<1>3. x = (IF w - k < 0 THEN w - k + M ELSE w - k) /\ x \in 0..(M - 1)
  <2> DEFINE b == w - k
  <2>1. b \in (-M)..(2 * M - 1) /\ b < M
    BY <1>1, <1>2
  <2> HIDE DEF b
  <2>2. b % M = IF b < 0 THEN b + M ELSE IF b < M THEN b ELSE b - M
    BY <1>1, <2>1, ModCases
  <2>3. x = IF b < 0 THEN b + M ELSE b
    BY <2>1, <2>2 DEF b
  <2> HIDE DEF x
  <2> QED
    BY <1>1, <1>2, <2>1, <2>3 DEF b
<1> HIDE DEF x
<1>4. (x - r) % M = n - k
  <2>1. (x - r) % M = IF r <= x THEN x - r ELSE x - r + M
    BY <1>1, <1>3, CounterGap
  <2> QED
    BY <1>1, <1>2, <1>3, <2>1
<1>7. Window(d, r, x, P, M) = [j \in 1..(n - k) |-> d[(r + j - 1) % P]]
  BY <1>4 DEF Window
<1>8. ASSUME NEW j \in 1..(n - k)
      PROVE  Window(d, r, x, P, M)[j] = Window(d, r, w, P, M)[j]
  <2>1. j \in 1..n
    BY <1>2
  <2> QED
    BY <1>5, <1>7, <1>8, <2>1
<1>9. ASSUME NEW j \in 1..n
      PROVE  Window(d, r, w, P, M)[n + 1 - j] = d[(w - j) % P]
  <2>1. n + 1 - j \in 1..n /\ r + (n + 1 - j) - 1 = r + n + (-j) /\ -j \in Int
    BY <1>1, <1>2
  <2>2. Window(d, r, w, P, M)[n + 1 - j] = d[(r + (n + 1 - j) - 1) % P]
    BY <1>5, <2>1
  <2>3. (r + n + (-j)) % P = (w + (-j)) % P
    BY <1>6, <2>1
  <2>4. w + (-j) = w - j
    BY <1>1
  <2> QED
    BY <2>1, <2>2, <2>3, <2>4
<1> QED
  BY <1>3, <1>4, <1>8, <1>9 DEF x, n

LEMMA GapStep ==
    ASSUME NEW M \in Nat \ {0}, NEW r \in 0..(M - 1), NEW w \in 0..(M - 1),
           ((w - r) % M) + 1 < M
    PROVE  (w + 1 - r) % M = ((w - r) % M) + 1
<1> DEFINE n == (w - r) % M
           b == w + 1 - r
<1>1. n = IF r <= w THEN w - r ELSE w - r + M
  BY CounterGap
<1>2. n + 1 < M
  OBVIOUS
<1> HIDE DEF n
<1>3. b \in (-M)..(2 * M - 1)
  BY <1>1
<1> HIDE DEF b
<1>4. b % M = IF b < 0 THEN b + M ELSE IF b < M THEN b ELSE b - M
  BY <1>3, ModCases
<1>5. b % M = n + 1
  BY <1>1, <1>2, <1>4 DEF b
<1> QED
  BY <1>5 DEF b, n

\* Nothing is in a window whose counters are equal.
LEMMA WindowEmpty ==
    ASSUME NEW P, NEW M, NEW r, NEW w, NEW d, (w - r) % M = 0
    PROVE  Window(d, r, w, P, M) = <<>>
BY DEF Window
=============================================================================
