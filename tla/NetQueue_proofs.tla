--------------------------- MODULE NetQueue_proofs --------------------------
(***************************************************************************)
(* Facts about the ring buffer, for every size of the ring.                *)
(***************************************************************************)
EXTENDS NetQueue, TLAPS

\* A slot index reduces every position to a slot of the ring.
LEMMA SlotType == ASSUME NEW a \in Nat PROVE Slot(a) \in SlotIndex
BY NetQueueAssumption DEF Slot, SlotIndex

\* Two positions less than a ring apart never share a slot.
LEMMA SlotDistinct ==
  ASSUME NEW a \in Nat, NEW b \in Nat, a < b, b < a + NETQUEUE_SIZE
  PROVE  Slot(a) # Slot(b)
<1> DEFINE N == NETQUEUE_SIZE
<1>1. N \in Nat /\ N > 0
  BY NetQueueAssumption
<1>2. /\ a = N * (a \div N) + (a % N) /\ (a \div N) \in Int
      /\ b = N * (b \div N) + (b % N) /\ (b \div N) \in Int
  BY <1>1
<1> HIDE DEF N
<1>3. SUFFICES ASSUME a % N = b % N PROVE FALSE
  BY DEF Slot, N
<1>4. PICK i \in Int, j \in Int : a = N * i + (b % N) /\ b = N * j + (b % N)
  BY <1>2, <1>3
<1>5. b - a = N * (j - i)
  BY <1>1, <1>4
<1>6. CASE j - i <= 0
  BY <1>1, <1>5, <1>6
<1>7. CASE j - i >= 1
  BY <1>1, <1>5, <1>7 DEF N
<1> QED BY <1>6, <1>7

-----------------------------------------------------------------------------
\* The calls that move one cursor keep a queue a queue.
LEMMA CursorType ==
  ASSUME NEW q \in Queue, NEW n \in Nat
  PROVE  /\ NetQueueReset(q, n) \in Queue
         /\ NetQueueDequeue(q) \in Queue
         /\ NetQueueFront(q) \in Element
<1>1. q.uHead \in Nat /\ q.uTail \in Nat /\ q.Elements \in [SlotIndex -> Element]
  BY DEF Queue
<1>2. NetQueueReset(q, n) \in Queue
  BY <1>1 DEF NetQueueReset, Queue
<1>3. [q EXCEPT !.uHead = @ + 1] \in Queue
  BY <1>1 DEF Queue
<1>4. NetQueueFront(q) \in Element
  BY <1>1, SlotType DEF NetQueueFront
<1> QED BY <1>2, <1>3, <1>4 DEF NetQueueDequeue

\* Appending data that fits a ring keeps a queue a queue.
LEMMA ExtendType ==
  ASSUME NEW q \in Queue, NEW data \in Seq(Element)
  PROVE  /\ Extend(q, data) \in Queue
         /\ Extend(q, data).uHead = q.uHead
         /\ Extend(q, data).uTail = q.uTail + Len(data)
<1> DEFINE at(s) == { i \in 1 .. Len(data) : Slot(q.uTail + i - 1) = s }
           E == [ s \in SlotIndex |-> IF at(s) = {} THEN q.Elements[s]
                                     ELSE data[CHOOSE i \in at(s) : TRUE] ]
<1>1. Extend(q, data) = [uHead |-> q.uHead, uTail |-> q.uTail + Len(data),
                         Elements |-> E]
  BY DEF Extend
<1>2. E \in [SlotIndex -> Element]
  <2>1. ASSUME NEW s \in SlotIndex, at(s) # {}
        PROVE  data[CHOOSE i \in at(s) : TRUE] \in Element
    <3>1. (CHOOSE i \in at(s) : TRUE) \in 1 .. Len(data)
      BY <2>1
    <3> QED BY <3>1
  <2>2. \A s \in SlotIndex : q.Elements[s] \in Element
    BY DEF Queue
  <2> QED BY <2>1, <2>2
<1>3. q.uHead \in Nat /\ q.uTail + Len(data) \in Nat
  BY DEF Queue
<1> HIDE DEF E
<1> QED BY <1>1, <1>2, <1>3 DEF Queue

\* The appended data is found at the positions that follow the old tail.
LEMMA ExtendNew ==
  ASSUME NEW q \in Queue, NEW data \in Seq(Element),
         Len(data) <= NETQUEUE_SIZE,
         NEW pos \in Nat, q.uTail <= pos, pos < q.uTail + Len(data)
  PROVE  Extend(q, data).Elements[Slot(pos)] = data[pos - q.uTail + 1]
<1> DEFINE at(s) == { i \in 1 .. Len(data) : Slot(q.uTail + i - 1) = s }
           k == pos - q.uTail + 1
<1>0. q.uTail \in Nat /\ Len(data) \in Nat /\ Slot(pos) \in SlotIndex
      /\ NETQUEUE_SIZE \in Nat
  BY SlotType, NetQueueAssumption DEF Queue
<1>1. k \in 1 .. Len(data) /\ q.uTail + k - 1 = pos
  BY <1>0
<1>2. k \in at(Slot(pos))
  BY <1>1
<1>3. ASSUME NEW i \in at(Slot(pos)) PROVE i = k
  <2>1. i \in 1 .. Len(data) /\ Slot(q.uTail + i - 1) = Slot(pos)
    OBVIOUS
  <2> DEFINE j == q.uTail + i - 1
  <2>2. j \in Nat /\ j < pos + NETQUEUE_SIZE /\ pos < j + NETQUEUE_SIZE
    BY <1>0, <2>1
  <2>3. j = pos
    BY <2>1, <2>2, SlotDistinct
  <2> QED BY <1>0, <2>1, <2>3
<1>4. (CHOOSE i \in at(Slot(pos)) : TRUE) = k
  BY <1>2, <1>3
<1> QED BY <1>0, <1>2, <1>4 DEF Extend

\* What lies less than a ring before the new tail is not overwritten.
LEMMA ExtendOld ==
  ASSUME NEW q \in Queue, NEW data \in Seq(Element),
         NEW pos \in Nat, pos < q.uTail,
         q.uTail + Len(data) <= pos + NETQUEUE_SIZE
  PROVE  Extend(q, data).Elements[Slot(pos)] = q.Elements[Slot(pos)]
<1> DEFINE at(s) == { i \in 1 .. Len(data) : Slot(q.uTail + i - 1) = s }
<1>0. q.uTail \in Nat /\ Len(data) \in Nat /\ Slot(pos) \in SlotIndex
      /\ NETQUEUE_SIZE \in Nat
  BY SlotType, NetQueueAssumption DEF Queue
<1>1. ASSUME NEW i \in 1 .. Len(data) PROVE Slot(q.uTail + i - 1) # Slot(pos)
  <2> DEFINE j == q.uTail + i - 1
  <2>1. j \in Nat /\ pos < j /\ j < pos + NETQUEUE_SIZE
    BY <1>0
  <2> QED BY <2>1, SlotDistinct
<1>2. at(Slot(pos)) = {}
  BY <1>1
<1> QED BY <1>0, <1>2 DEF Extend

-----------------------------------------------------------------------------
\* EnqueueFrom only moves the tail of a queue, forward, within the ring.
LEMMA EnqueueFromType ==
  ASSUME NEW q \in Queue, NEW uStart \in Nat, NEW data \in Seq(Element)
  PROVE  /\ EnqueueFrom(q, uStart, data) \in Queue
         /\ EnqueueFrom(q, uStart, data).uHead = q.uHead
         /\ EnqueueFrom(q, uStart, data).uTail >= q.uTail
         /\ EnqueueFrom(q, uStart, data) = q
            \/ /\ EnqueueFrom(q, uStart, data).uTail <= uStart + Len(data)
               /\ EnqueueFrom(q, uStart, data).uTail <= q.uHead + NETQUEUE_SIZE
<1> DEFINE fresh == uStart + Len(data) - q.uTail
           room  == NETQUEUE_SIZE - NetQueueGetCount(q)
           n     == Lesser(fresh, room)
           d     == [i \in 1 .. n |-> data[q.uTail - uStart + i]]
<1>0. /\ q.uHead \in Nat /\ q.uTail \in Nat /\ Len(data) \in Nat
      /\ NETQUEUE_SIZE \in Nat
  BY NetQueueAssumption DEF Queue
<1>1. n \in Int /\ n <= fresh /\ n <= room
  BY <1>0 DEF Lesser, NetQueueGetCount
<1>2. CASE uStart <= q.uTail /\ n > 0
  <2>1. d \in Seq(Element) /\ Len(d) = n
    <3>1. n \in Nat
      BY <1>1, <1>2
    <3>2. ASSUME NEW i \in 1 .. n
          PROVE  data[q.uTail - uStart + i] \in Element
      <4>1. q.uTail - uStart + i \in 1 .. Len(data)
        BY <1>0, <1>1, <1>2
      <4> QED BY <4>1
    <3> HIDE DEF n
    <3> QED BY <3>1, <3>2
  <2>2. EnqueueFrom(q, uStart, data) = Extend(q, d)
    BY <1>2 DEF EnqueueFrom
  <2>3. n <= uStart + Len(data) - q.uTail
        /\ n <= NETQUEUE_SIZE - (q.uTail - q.uHead)
    BY <1>1 DEF NetQueueGetCount
  <2> HIDE DEF n, d
  <2>4. /\ Extend(q, d) \in Queue /\ Extend(q, d).uHead = q.uHead
        /\ Extend(q, d).uTail = q.uTail + n
    BY <2>1, ExtendType
  <2>5. q.uTail + n <= uStart + Len(data) /\ q.uTail + n <= q.uHead + NETQUEUE_SIZE
        /\ q.uTail + n >= q.uTail
    BY <1>0, <1>1, <1>2, <2>3
  <2> QED BY <2>2, <2>4, <2>5
<1>3. CASE ~(uStart <= q.uTail /\ n > 0)
  <2>1. EnqueueFrom(q, uStart, data) = q
    BY <1>3 DEF EnqueueFrom
  <2> QED BY <1>0, <2>1
<1> QED BY <1>2, <1>3

\* What EnqueueFrom adds is the data at its positions, and what the queue
\* held stays.
LEMMA EnqueueFromElements ==
  ASSUME NEW q \in Queue, NEW uStart \in Nat, NEW data \in Seq(Element),
         q.uHead <= q.uTail,
         NEW pos \in Nat, Holds(EnqueueFrom(q, uStart, data), pos)
  PROVE  \/ /\ Holds(q, pos)
            /\ EnqueueFrom(q, uStart, data).Elements[Slot(pos)]
                 = q.Elements[Slot(pos)]
         \/ /\ pos - uStart + 1 \in 1 .. Len(data)
            /\ EnqueueFrom(q, uStart, data).Elements[Slot(pos)]
                 = data[pos - uStart + 1]
<1> DEFINE fresh == uStart + Len(data) - q.uTail
           room  == NETQUEUE_SIZE - NetQueueGetCount(q)
           n     == Lesser(fresh, room)
           d     == [i \in 1 .. n |-> data[q.uTail - uStart + i]]
<1>0. /\ q.uHead \in Nat /\ q.uTail \in Nat /\ Len(data) \in Nat
      /\ NETQUEUE_SIZE \in Nat
  BY NetQueueAssumption DEF Queue
<1>1. n \in Int /\ n <= fresh /\ n <= room
  BY <1>0 DEF Lesser, NetQueueGetCount
<1>2. CASE uStart <= q.uTail /\ n > 0
  <2>1. d \in Seq(Element) /\ Len(d) = n
    <3>1. n \in Nat
      BY <1>1, <1>2
    <3>2. ASSUME NEW i \in 1 .. n
          PROVE  data[q.uTail - uStart + i] \in Element
      <4>1. q.uTail - uStart + i \in 1 .. Len(data)
        BY <1>0, <1>1, <1>2
      <4> QED BY <4>1
    <3> HIDE DEF n
    <3> QED BY <3>1, <3>2
  <2>2. EnqueueFrom(q, uStart, data) = Extend(q, d)
    BY <1>2 DEF EnqueueFrom
  <2>3. /\ n <= uStart + Len(data) - q.uTail
        /\ n <= NETQUEUE_SIZE - (q.uTail - q.uHead)
    BY <1>1 DEF NetQueueGetCount
  <2>4. q.uHead <= pos /\ pos < q.uTail + n
    BY <2>1, <2>2, ExtendType DEF Holds
  <2>5. \A i \in 1 .. n : d[i] = data[q.uTail - uStart + i]
    OBVIOUS
  <2> HIDE DEF n, d
  <2>6. CASE pos < q.uTail
    <3>1. q.uTail + Len(d) <= pos + NETQUEUE_SIZE
      BY <1>0, <1>1, <2>1, <2>3, <2>4
    <3> QED BY <2>1, <2>2, <2>4, <2>6, <3>1, ExtendOld DEF Holds
  <2>7. CASE q.uTail <= pos
    <3>1. Len(d) <= NETQUEUE_SIZE
      BY <1>0, <1>1, <2>1, <2>3
    <3>2. Extend(q, d).Elements[Slot(pos)] = d[pos - q.uTail + 1]
      BY <2>1, <2>4, <2>7, <3>1, ExtendNew
    <3>3. pos - q.uTail + 1 \in 1 .. n
      BY <1>0, <1>1, <2>4, <2>7
    <3>4. d[pos - q.uTail + 1] = data[q.uTail - uStart + (pos - q.uTail + 1)]
      BY <2>5, <3>3
    <3>5. q.uTail - uStart + (pos - q.uTail + 1) = pos - uStart + 1
      BY <1>0
    <3>6. pos - uStart + 1 \in 1 .. Len(data)
      BY <1>0, <1>1, <1>2, <2>3, <2>4, <2>7
    <3> QED BY <2>2, <3>2, <3>4, <3>5, <3>6
  <2> QED BY <1>0, <2>6, <2>7
<1>3. CASE ~(uStart <= q.uTail /\ n > 0)
  <2>1. EnqueueFrom(q, uStart, data) = q
    BY <1>3 DEF EnqueueFrom
  <2> QED BY <2>1
<1> QED BY <1>2, <1>3
=============================================================================
