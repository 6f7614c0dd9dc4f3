------------------------------ MODULE NetQueue ------------------------------
(***************************************************************************)
(* The ring buffer of controller inputs that netplay keeps for each peer   *)
(* (Modules/netplay/Source/common/netqueue.c).  The two cursors are        *)
(* sequence numbers that only the slot index reduces modulo the size, so   *)
(* uTail - uHead is the number of elements held.  An operator here is one  *)
(* call: it takes the queue before and returns the queue after.            *)
(*                                                                         *)
(* The cursors are Uint32 in the code.  A game starts them at 0 and moves  *)
(* them 60 times a second, so they are naturals here: the wrap at 2^32 is  *)
(* two years away.                                                         *)
(***************************************************************************)
EXTENDS Integers, Sequences

CONSTANTS
  NETQUEUE_SIZE,   \* slots of a ring (128 in the code)
  Element          \* the inputs a slot can hold

ASSUME NetQueueAssumption ==
  /\ NETQUEUE_SIZE \in Nat \ {0}
  /\ 0 \in Element

-----------------------------------------------------------------------------
SlotIndex == 0 .. NETQUEUE_SIZE - 1

Queue == [uHead : Nat, uTail : Nat, Elements : [SlotIndex -> Element]]

\* uPos & NETQUEUE_MASK
Slot(uPos) == uPos % NETQUEUE_SIZE

\* A queue as memset leaves it.
NetQueueNew == [uHead |-> 0, uTail |-> 0, Elements |-> [s \in SlotIndex |-> 0]]

\* Faulty: the tail of the game before survives.
NetQueueResetHead(q, uSeqNum) == [q EXCEPT !.uHead = uSeqNum]

\* Only the cursors are reset: the slots keep what they held.
NetQueueReset(q, uSeqNum) == [q EXCEPT !.uHead = uSeqNum, !.uTail = uSeqNum]

NetQueueGetCount(q) == q.uTail - q.uHead

\* The element NetQueueDequeue hands out, and the queue it leaves.
NetQueueFront(q) == q.Elements[Slot(q.uHead)]

NetQueueDequeue(q) ==
  IF NetQueueGetCount(q) > 0 THEN [q EXCEPT !.uHead = @ + 1] ELSE q

\* A full queue refuses the element (and the call returns FALSE).
NetQueueEnqueue(q, e) ==
  IF NetQueueGetCount(q) < NETQUEUE_SIZE
  THEN [q EXCEPT !.Elements[Slot(q.uTail)] = e, !.uTail = @ + 1]
  ELSE q

\* Only the next position in sequence is accepted.
NetQueueEnqueueAt(q, uPos, e) ==
  IF uPos = q.uTail THEN NetQueueEnqueue(q, e) ELSE q

\* NetQueueGetElement returns TRUE.
Holds(q, uPos) == q.uHead <= uPos /\ uPos < q.uTail

Lesser(a, b) == IF a <= b THEN a ELSE b

(***************************************************************************)
(* The elements NetQueueFetchRange stores, in order.  Its last parameter,  *)
(* nMaxElements, bounds a length the loops never look at, so it has no     *)
(* part in the result.                                                     *)
(***************************************************************************)
NetQueueFetchRange(q, uStart, uEnd) ==
  IF uStart <= uEnd
  THEN [i \in 1 .. (IF Holds(q, uStart) THEN Lesser(uEnd, q.uTail) - uStart ELSE 0)
          |-> q.Elements[Slot(uStart + i - 1)]]
  ELSE [i \in 1 .. (IF Holds(q, uEnd) THEN uEnd - q.uHead + 1 ELSE 0)
          |-> q.Elements[Slot(uEnd - i + 1)]]

-----------------------------------------------------------------------------
(***************************************************************************)
(* The loops of calls the client makes, in closed form.                    *)
(***************************************************************************)

\* The queue after the elements of data, which fit, have been enqueued.
Extend(q, data) ==
  LET at(s) == { i \in 1 .. Len(data) : Slot(q.uTail + i - 1) = s }
  IN  [ uHead    |-> q.uHead,
        uTail    |-> q.uTail + Len(data),
        Elements |-> [ s \in SlotIndex |->
                         IF at(s) = {} THEN q.Elements[s]
                         ELSE data[CHOOSE i \in at(s) : TRUE] ] ]

\* Faulty: data is appended wherever it starts.
EnqueueAnyway(q, uStart, data) ==
  LET room == NETQUEUE_SIZE - NetQueueGetCount(q)
  IN  Extend(q, SubSeq(data, 1, Lesser(room, Len(data))))

\* NetQueueEnqueueAt for each element of data in turn, the first at uStart:
\* what lies before the tail is skipped, what does not fit is refused.
EnqueueFrom(q, uStart, data) ==
  LET fresh == uStart + Len(data) - q.uTail
      room  == NETQUEUE_SIZE - NetQueueGetCount(q)
      n     == Lesser(fresh, room)
  IN  IF uStart <= q.uTail /\ n > 0
      THEN Extend(q, [i \in 1 .. n |-> data[q.uTail - uStart + i]])
      ELSE q
=============================================================================
