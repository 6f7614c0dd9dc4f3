------------------------------- MODULE SNQueue ------------------------------
(***************************************************************************)
(* The queue in which the console core keeps writes of the CPU until the   *)
(* chip they are for catches up (snqueue.h).  One operator per function.   *)
(* An element has the time of its write, uCycle: for the PPU a line.       *)
(***************************************************************************)
EXTENDS Naturals, Sequences, FiniteSets

CONSTANT SNQUEUE_SIZE     \* elements of the array (512)

ASSUME SNQueueAssumption == SNQUEUE_SIZE \in Nat \ {0}

\* The array up to m_iTail, and m_iHead.
SNQueueReset == [elements |-> << >>, iHead |-> 0]

IsEmpty(q) == q.iHead = Len(q.elements)

\* Faulty: one more element than there are.
HasRoomInclusive(q) == IsEmpty(q) \/ Len(q.elements) <= SNQUEUE_SIZE

\* Only an empty queue starts again at the front of its array: what has been
\* taken from one that is not makes no room.
HasRoom(q) == IsEmpty(q) \/ Len(q.elements) < SNQUEUE_SIZE

Enqueue(q, e) ==
  IF IsEmpty(q) THEN [elements |-> <<e>>, iHead |-> 0]
                ELSE [q EXCEPT !.elements = Append(@, e)]

\* What Dequeue() returns until it returns NULL.
Pending(q) == SubSeq(q.elements, q.iHead + 1, Len(q.elements))

\* How many elements Dequeue(uCycle) returns until it returns NULL.
CountBefore(q, uCycle) ==
  Cardinality({ i \in 1 .. Len(Pending(q)) :
                  \A j \in 1 .. i : Pending(q)[j].uCycle < uCycle })

DequeueBefore(q, uCycle) == [q EXCEPT !.iHead = @ + CountBefore(q, uCycle)]

DequeueAll(q) == [q EXCEPT !.iHead = Len(q.elements)]
=============================================================================
