--------------------------- MODULE SNQueue_proofs ---------------------------
(***************************************************************************)
(* Facts about the queue of writes, for every size of its array and whatever *)
(* is written.                                                             *)
(***************************************************************************)
EXTENDS SNQueue, Integers, SequenceTheorems, FiniteSetTheorems,
        WellFoundedInduction, TLAPS

\* A queue of elements of E (snqueue.h).
QueueOf(E) == {q \in [elements : Seq(E), iHead : Nat] : q.iHead <= Len(q.elements)}

-----------------------------------------------------------------------------
\* What the queue's operations do to what is pending.
LEMMA PendingType ==
  ASSUME NEW E, NEW q \in QueueOf(E)
  PROVE  /\ Pending(q) \in Seq(E)
         /\ Len(Pending(q)) = Len(q.elements) - q.iHead
         /\ Len(Pending(q)) \in Nat
         /\ \A k \in 1 .. Len(Pending(q)) : Pending(q)[k] = q.elements[q.iHead + k]
         /\ \A k \in 1 .. Len(Pending(q)) : Pending(q)[k] \in E
<1> DEFINE h == q.iHead
           n == Len(q.elements)
<1>1. h \in Nat /\ n \in Nat /\ h <= n /\ q.elements \in Seq(E)
  BY DEF QueueOf
<1>2. \A i \in h + 1 .. n : q.elements[i] \in E
  BY <1>1, ElementOfSeq
<1>3. /\ Pending(q) \in Seq(E)
      /\ Len(Pending(q)) = IF h + 1 <= n THEN n - (h + 1) + 1 ELSE 0
      /\ \A i \in 1 .. n - (h + 1) + 1 : Pending(q)[i] = q.elements[(h + 1) + i - 1]
  <2>1. h + 1 \in Int /\ n \in Int
    BY <1>1
  <2> QED BY <1>2, <2>1, SubSeqProperties DEF Pending
<1>4. Len(Pending(q)) = n - h /\ n - (h + 1) + 1 = n - h
  BY <1>1, <1>3
<1>5. \A k \in 1 .. Len(Pending(q)) : (h + 1) + k - 1 = h + k
  BY <1>1
<1>6. \A k \in 1 .. Len(Pending(q)) : Pending(q)[k] \in E
  BY <1>3, ElementOfSeq
<1> QED BY <1>1, <1>3, <1>4, <1>5, <1>6

LEMMA EnqueueAppends ==
  ASSUME NEW E, NEW q \in QueueOf(E), NEW e \in E
  PROVE  /\ Enqueue(q, e) \in QueueOf(E)
         /\ Pending(Enqueue(q, e)) = Append(Pending(q), e)
<1> DEFINE r == Enqueue(q, e)
<1>1. q.elements \in Seq(E) /\ q.iHead \in Nat /\ Len(q.elements) \in Nat
  BY DEF QueueOf
<1>2. /\ r \in QueueOf(E) /\ Len(r.elements) - r.iHead = Len(q.elements) - q.iHead + 1
      /\ r.elements[r.iHead + Len(q.elements) - q.iHead + 1] = e
      /\ \A k \in 1 .. Len(q.elements) - q.iHead : r.elements[r.iHead + k] = q.elements[q.iHead + k]
  <2>1. CASE IsEmpty(q)
    <3>1. r = [elements |-> <<e>>, iHead |-> 0] /\ q.iHead = Len(q.elements)
      BY <2>1 DEF Enqueue, IsEmpty
    <3>2. <<e>> \in Seq(E) /\ Len(<<e>>) = 1 /\ <<e>>[1] = e
      OBVIOUS
    <3>3. 0 + Len(q.elements) - q.iHead + 1 = 1 /\ Len(q.elements) - q.iHead = 0
      BY <1>1, <3>1
    <3> QED BY <1>1, <3>1, <3>2, <3>3 DEF QueueOf
  <2>2. CASE ~IsEmpty(q)
    <3>1. r = [q EXCEPT !.elements = Append(q.elements, e)]
      BY <2>2 DEF Enqueue
    <3>2. r.elements = Append(q.elements, e) /\ r.iHead = q.iHead
          /\ r \in [elements : Seq(E), iHead : Nat]
      BY <1>1, <3>1, AppendProperties, SMTT(30) DEF QueueOf
    <3>3. /\ Len(r.elements) = Len(q.elements) + 1
          /\ r.elements[Len(q.elements) + 1] = e
          /\ \A i \in 1 .. Len(q.elements) : r.elements[i] = q.elements[i]
      BY <1>1, <3>2, AppendProperties
    <3>4. q.iHead <= Len(q.elements)
      BY DEF QueueOf
    <3>5. \A k \in 1 .. Len(q.elements) - q.iHead : q.iHead + k \in 1 .. Len(q.elements)
      BY <1>1, <3>4
    <3>6. q.iHead + Len(q.elements) - q.iHead + 1 = Len(q.elements) + 1
      BY <1>1
    <3>7. r \in QueueOf(E)
      BY <1>1, <3>2, <3>3, <3>4 DEF QueueOf
    <3>8. Len(r.elements) - r.iHead = Len(q.elements) - q.iHead + 1
      BY <1>1, <3>2, <3>3
    <3> QED BY <3>2, <3>3, <3>5, <3>6, <3>7, <3>8
  <2> QED BY <2>1, <2>2
<1>3. /\ Len(Pending(r)) = Len(Pending(q)) + 1 /\ Pending(r) \in Seq(E)
      /\ Pending(q) \in Seq(E) /\ Len(Pending(q)) \in Nat
      /\ Len(Pending(q)) = Len(q.elements) - q.iHead
  BY <1>2, PendingType
<1>4. ASSUME NEW k \in 1 .. Len(Pending(r)) PROVE Pending(r)[k] = Append(Pending(q), e)[k]
  <2>1. Pending(r)[k] = r.elements[r.iHead + k]
    BY <1>2, PendingType
  <2>2. CASE k = Len(Pending(q)) + 1
    <3>1. r.iHead + k = r.iHead + Len(q.elements) - q.iHead + 1
      BY <1>1, <1>2, <1>3, <2>2 DEF QueueOf
    <3> QED BY <1>2, <1>3, <2>1, <2>2, <3>1, AppendProperties
  <2>3. CASE k # Len(Pending(q)) + 1
    <3>1. k \in 1 .. Len(Pending(q))
      BY <1>3, <2>3
    <3>2. Pending(q)[k] = q.elements[q.iHead + k]
      BY <3>1, PendingType
    <3> QED BY <1>2, <1>3, <2>1, <3>1, <3>2, AppendProperties
  <2> QED BY <2>2, <2>3
<1>5. /\ Append(Pending(q), e) \in Seq(E)
      /\ Len(Append(Pending(q), e)) = Len(Pending(q)) + 1
  BY <1>3, AppendProperties
<1>6. Pending(r) = Append(Pending(q), e)
  BY <1>3, <1>4, <1>5, SeqEqual
<1> QED BY <1>2, <1>6

LEMMA DequeueAllEmpties ==
  ASSUME NEW E, NEW q \in QueueOf(E)
  PROVE  /\ DequeueAll(q) \in QueueOf(E) /\ IsEmpty(DequeueAll(q))
         /\ Pending(DequeueAll(q)) = << >>
<1>1. DequeueAll(q) = [q EXCEPT !.iHead = Len(q.elements)]
  BY DEF DequeueAll
<1>2. /\ DequeueAll(q).elements = q.elements /\ DequeueAll(q).iHead = Len(q.elements)
      /\ DequeueAll(q) \in [elements : Seq(E), iHead : Nat] /\ Len(q.elements) \in Nat
  BY <1>1 DEF QueueOf
<1>3. DequeueAll(q) \in QueueOf(E) /\ IsEmpty(DequeueAll(q))
  BY <1>2 DEF QueueOf, IsEmpty
<1>4. Pending(DequeueAll(q)) = << >>
  BY <1>2, SubSeqEmpty DEF Pending
<1> QED BY <1>3, <1>4

LEMMA EmptyPending ==
  ASSUME NEW E, NEW q \in QueueOf(E), IsEmpty(q)
  PROVE  Pending(q) = << >>
<1>1. q.iHead = Len(q.elements) /\ Len(q.elements) \in Nat
  BY DEF IsEmpty, QueueOf
<1> QED BY <1>1, SubSeqEmpty DEF Pending

\* How many writes Dequeue(uCycle) takes.
LEMMA CountType ==
  ASSUME NEW E, NEW q \in QueueOf(E), NEW r
  PROVE  CountBefore(q, r) \in Nat
<1> DEFINE S == { i \in 1 .. Len(Pending(q)) : \A j \in 1 .. i : Pending(q)[j].uCycle < r }
<1>1. Len(Pending(q)) \in Nat
  BY PendingType
<1>2. IsFiniteSet(1 .. Len(Pending(q)))
  BY <1>1, FS_Interval
<1>3. IsFiniteSet(S)
  BY <1>2, FS_Subset
<1>4. Cardinality(S) \in Nat
  BY <1>3, FS_CardinalityType
<1> QED BY <1>4 DEF CountBefore

LEMMA CountAll ==
  ASSUME NEW E, NEW q \in QueueOf(E), NEW r,
         \A j \in 1 .. Len(Pending(q)) : Pending(q)[j].uCycle < r
  PROVE  CountBefore(q, r) = Len(Pending(q))
<1>1. Len(Pending(q)) \in Nat
  BY PendingType
<1>2. { i \in 1 .. Len(Pending(q)) : \A j \in 1 .. i : Pending(q)[j].uCycle < r }
        = 1 .. Len(Pending(q))
  BY <1>1
<1>3. Cardinality(1 .. Len(Pending(q))) = Len(Pending(q))
  <2>1. \A n \in Nat : Cardinality(1 .. n) = IF 1 > n THEN 0 ELSE n - 1 + 1
    BY FS_Interval
  <2>2. \A n \in Nat : Cardinality(1 .. n) = n
    BY <2>1
  <2> QED BY <1>1, <2>2
<1> QED BY <1>2, <1>3 DEF CountBefore

\* A write is not taken before its own line.
LEMMA CountEnqueue ==
  ASSUME NEW E, NEW q \in QueueOf(E), NEW e \in E, NEW r, ~(e.uCycle < r)
  PROVE  CountBefore(Enqueue(q, e), r) = CountBefore(q, r)
<1> DEFINE P == Pending(q)
           R == Pending(Enqueue(q, e))
<1>1. R = Append(P, e) /\ P \in Seq(E) /\ Len(P) \in Nat
  BY EnqueueAppends, PendingType
<1>2. /\ Len(R) = Len(P) + 1 /\ R[Len(P) + 1] = e
      /\ \A i \in 1 .. Len(P) : R[i] = P[i]
  BY <1>1, AppendProperties
<1>3. { i \in 1 .. Len(R) : \A j \in 1 .. i : R[j].uCycle < r }
        = { i \in 1 .. Len(P) : \A j \in 1 .. i : P[j].uCycle < r }
  <2>1. ASSUME NEW i \in 1 .. Len(R), \A j \in 1 .. i : R[j].uCycle < r
        PROVE  i \in 1 .. Len(P) /\ \A j \in 1 .. i : P[j].uCycle < r
    <3>1. i # Len(P) + 1
      BY <1>1, <1>2, <2>1
    <3> QED BY <1>1, <1>2, <2>1, <3>1
  <2>2. ASSUME NEW i \in 1 .. Len(P), \A j \in 1 .. i : P[j].uCycle < r
        PROVE  i \in 1 .. Len(R) /\ \A j \in 1 .. i : R[j].uCycle < r
    BY <1>1, <1>2, <2>2
  <2> QED BY <2>1, <2>2
<1> QED BY <1>3 DEF CountBefore

-----------------------------------------------------------------------------
\* A set of numbers that is not empty has a least one.
LEMMA LeastOf ==
  ASSUME NEW T, T \subseteq Nat, T # {}
  PROVE  \E x \in T : \A y \in T : x <= y
<1>1. \E x \in T : \A y \in T : ~ (<<y, x>> \in OpToRel(<, Nat))
  BY NatLessThanWellFounded, WFMin
<1>2. PICK x \in T : \A y \in T : ~ (<<y, x>> \in OpToRel(<, Nat))
  BY <1>1
<1>3. ASSUME NEW y \in T PROVE x <= y
  <2>1. x \in Nat /\ y \in Nat
    OBVIOUS
  <2>2. ASSUME y < x PROVE <<y, x>> \in OpToRel(<, Nat)
    <3>1. <<y, x>> \in {ss \in Nat \X Nat : ss[1] < ss[2]}
      BY <2>1, <2>2
    <3> QED BY <3>1, Zenon DEF OpToRel
  <2>3. ~(y < x)
    BY <1>2, <2>2, Zenon
  <2> QED BY <2>1, <2>3
<1> QED BY <1>3

LEMMA GreatestOf ==
  ASSUME NEW n \in Nat, NEW T, T \subseteq 1 .. n, T # {}
  PROVE  \E x \in T : \A y \in T : y <= x
<1> DEFINE U == { k \in 0 .. n : n - k \in T }
<1>1. U \subseteq Nat /\ U # {}
  <2>1. PICK t \in T : TRUE
    OBVIOUS
  <2>2. n - t \in 0 .. n /\ n - (n - t) = t
    BY <2>1
  <2>3. n - t \in U
    BY <2>2
  <2>4. \A k \in U : k \in Nat
    OBVIOUS
  <2> HIDE DEF U
  <2> QED BY <2>3, <2>4
<1>2. PICK k \in U : \A j \in U : k <= j
  BY <1>1, LeastOf
<1>3. ASSUME NEW y \in T PROVE y <= n - k
  <2>1. y \in Nat /\ n - y \in 0 .. n /\ n - (n - y) = y
    BY <1>3
  <2>2. k <= n - y
    BY <1>2, <2>1
  <2> QED BY <1>2, <2>1, <2>2
<1> QED BY <1>2, <1>3

\* What Dequeue(uCycle) takes are the first of what is pending, up to the first
\* that is not before uCycle.
LEMMA CountSplits ==
  ASSUME NEW E, NEW q \in QueueOf(E), NEW r, NEW n, n = CountBefore(q, r)
  PROVE  /\ n \in 0 .. Len(Pending(q))
         /\ \A j \in 1 .. n : Pending(q)[j].uCycle < r
         /\ n < Len(Pending(q)) => ~(Pending(q)[n + 1].uCycle < r)
<1> DEFINE P == Pending(q)
           early(j) == P[j].uCycle < r
           T == { i \in 1 .. Len(P) : ~early(i) }
<1>1. PICK l \in Nat : l = Len(P)
  BY PendingType
<1>2. CASE T = {}
  <2>1. \A j \in 1 .. Len(P) : early(j)
    BY <1>2
  <2>2. n = Len(P)
    BY <2>1, CountAll
  <2> QED BY <1>1, <2>1, <2>2
<1>3. CASE T # {}
  <2>1. T \subseteq Nat
    OBVIOUS
  <2>2. PICK m \in T : \A j \in T : m <= j
    BY <1>3, <2>1, LeastOf
  <2>3. m \in 1 .. l /\ ~early(m)
    BY <1>1, <2>2
  <2>4. ASSUME NEW j \in 1 .. m - 1 PROVE early(j)
    BY <1>1, <2>2, <2>3
  <2> HIDE DEF early
  <2>5. { i \in 1 .. l : \A j \in 1 .. i : early(j) } = 1 .. m - 1
    <3>1. ASSUME NEW i \in 1 .. l, \A j \in 1 .. i : early(j) PROVE i \in 1 .. m - 1
      BY <2>3, <3>1
    <3>2. ASSUME NEW i \in 1 .. m - 1 PROVE i \in 1 .. l /\ \A j \in 1 .. i : early(j)
      BY <2>3, <2>4
    <3> QED BY <3>1, <3>2
  <2>6. n = Cardinality(1 .. m - 1)
    BY <1>1, <2>5 DEF CountBefore, early
  <2>7. Cardinality(1 .. m - 1) = m - 1
    <3>1. PICK k \in Int : k = m - 1
      BY <2>3
    <3>2. 1 > k => k = 0
      BY <2>3, <3>1
    <3>3. Cardinality(1 .. k) = IF 1 > k THEN 0 ELSE k - 1 + 1
      BY FS_Interval
    <3> QED BY <3>1, <3>2, <3>3
  <2>8. n = m - 1 /\ n + 1 = m /\ n \in 0 .. l
    BY <2>3, <2>6, <2>7
  <2> QED BY <1>1, <2>3, <2>4, <2>8 DEF early
<1> QED BY <1>2, <1>3

LEMMA DequeueTakes ==
  ASSUME NEW E, NEW q \in QueueOf(E), NEW r, NEW n, n = CountBefore(q, r)
  PROVE  /\ DequeueBefore(q, r) \in QueueOf(E)
         /\ Len(Pending(DequeueBefore(q, r))) = Len(Pending(q)) - n
         /\ \A k \in 1 .. Len(Pending(q)) - n : Pending(DequeueBefore(q, r))[k] = Pending(q)[n + k]
<1> DEFINE d == DequeueBefore(q, r)
<1>1. /\ q.elements \in Seq(E) /\ q.iHead \in Nat /\ Len(q.elements) \in Nat
      /\ q.iHead <= Len(q.elements)
  BY DEF QueueOf
<1>2. n \in 0 .. Len(Pending(q)) /\ Len(Pending(q)) = Len(q.elements) - q.iHead
  BY CountSplits, PendingType
<1>3. d.elements = q.elements /\ d.iHead = q.iHead + n /\ d \in [elements : Seq(E), iHead : Nat]
  BY <1>1, <1>2 DEF DequeueBefore, QueueOf
<1>4. d \in QueueOf(E)
  BY <1>1, <1>2, <1>3 DEF QueueOf
<1>5. Len(Pending(d)) = Len(Pending(q)) - n
  BY <1>1, <1>2, <1>3, <1>4, PendingType
<1>6. ASSUME NEW k \in 1 .. Len(Pending(q)) - n PROVE Pending(d)[k] = Pending(q)[n + k]
  <2>1. Pending(d)[k] = q.elements[(q.iHead + n) + k]
    BY <1>3, <1>4, <1>5, PendingType
  <2>2. n + k \in 1 .. Len(Pending(q)) /\ q.iHead + (n + k) = (q.iHead + n) + k
    BY <1>1, <1>2
  <2>3. Pending(q)[n + k] = q.elements[q.iHead + (n + k)]
    BY <2>2, PendingType
  <2> QED BY <2>1, <2>2, <2>3
<1> QED BY <1>4, <1>5, <1>6

-----------------------------------------------------------------------------
\* Quotients and remainders, of which the counters and the registers are full.

LEMMA DivMod ==
  ASSUME NEW n \in Int, NEW d \in Nat \ {0}
  PROVE  /\ n \div d \in Int /\ n % d \in 0 .. d - 1
         /\ n = d * (n \div d) + (n % d)
<1>1. n \div d \in Int /\ n % d \in Int
  OBVIOUS
<1>2. 0 <= n % d /\ n % d < d
  OBVIOUS
<1>3. n = d * (n \div d) + (n % d)
  OBVIOUS
<1> QED BY <1>1, <1>2, <1>3

\* Quotient and remainder are the only ones.
LEMMA DivUnique ==
  ASSUME NEW n \in Int, NEW d \in Nat \ {0}, NEW q \in Int, NEW r \in 0 .. d - 1,
         n = d * q + r
  PROVE  n \div d = q /\ n % d = r
<1>1. PICK i \in Int, m \in 0 .. d - 1 : n \div d = i /\ n % d = m /\ n = d * i + m
  BY DivMod
<1>2. d * (i - q) = r - m
  BY <1>1
<1>3. CASE i - q >= 1
  <2>1. d * (i - q) >= d
    BY <1>3
  <2> QED BY <1>2, <2>1
<1>4. CASE i - q <= -1
  <2>1. d * (i - q) <= -d
    BY <1>4
  <2> QED BY <1>2, <2>1
<1>5. CASE i = q
  BY <1>1, <1>2, <1>5
<1> QED BY <1>3, <1>4, <1>5

\* Reducing a number first changes its remainder by nothing, and its quotient
\* by what was taken away.
LEMMA ReduceFirst ==
  ASSUME NEW a \in Int, NEW b \in Int, NEW d \in Nat \ {0}
  PROVE  /\ ((a % d) + b) % d = (a + b) % d
         /\ (a + b) \div d = (a \div d) + ((a % d) + b) \div d
<1>1. PICK i \in Int, m \in 0 .. d - 1 : a \div d = i /\ a % d = m /\ a = d * i + m
  BY DivMod
<1>2. PICK j \in Int, k \in 0 .. d - 1 :
        (m + b) \div d = j /\ (m + b) % d = k /\ m + b = d * j + k
  BY DivMod
<1>3. i + j \in Int /\ d * (i + j) = (d * i) + (d * j)
  OBVIOUS
<1>4. a + b \in Int /\ a + b = d * (i + j) + k
  BY <1>1, <1>2, <1>3
<1>5. (a + b) \div d = i + j /\ (a + b) % d = k
  BY <1>3, <1>4, DivUnique
<1> QED BY <1>1, <1>2, <1>5

\* What a number is made of.
Splits(x, d) ==
  \E k \in Int, r \in 0 .. d - 1 : x % d = r /\ x = d * k + r

LEMMA EveryNumberSplits ==
  ASSUME NEW x \in Int, NEW d \in Nat \ {0}
  PROVE  Splits(x, d)
BY DivMod DEF Splits

\* A remainder's remainder, when the smaller divisor divides the larger.
LEMMA ModMod ==
  ASSUME NEW n \in Int, NEW c \in Nat \ {0}, NEW d \in Nat \ {0}, c % d = 0
  PROVE  (n % c) % d = n % d
<1>1. PICK i \in Int, m \in 0 .. c - 1 : n % c = m /\ n = c * i + m
  <2>1. Splits(n, c)
    BY EveryNumberSplits
  <2> QED BY <2>1 DEF Splits
<1>2. PICK j \in Int : c = d * j
  <2>1. Splits(c, d)
    BY EveryNumberSplits
  <2> QED BY <2>1 DEF Splits
<1>3. PICK k \in Int, r \in 0 .. d - 1 : m % d = r /\ m = d * k + r
  <2>1. m \in Int
    OBVIOUS
  <2>2. Splits(m, d)
    BY <2>1, EveryNumberSplits
  <2> QED BY <2>2 DEF Splits
<1>4. PICK p \in Int : p = j * i
  OBVIOUS
<1>5. c * i = d * p
  <2>1. (d * j) * i = d * (j * i)
    OBVIOUS
  <2> QED BY <1>2, <1>4, <2>1
<1>6. p + k \in Int /\ d * (p + k) = (d * p) + (d * k)
  OBVIOUS
<1>7. n = d * (p + k) + r
  BY <1>1, <1>3, <1>5, <1>6
<1>8. n % d = r
  BY <1>6, <1>7, DivUnique
<1> QED BY <1>1, <1>3, <1>8
=============================================================================
