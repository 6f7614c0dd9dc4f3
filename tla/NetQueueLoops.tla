---------------------------- MODULE NetQueueLoops ---------------------------
(***************************************************************************)
(* The loops that call the ring buffer once per element, one call a step:  *)
(* the one of _NetClientPeerInputData, which enqueues the elements of a    *)
(* packet, and the two of NetQueueFetchRange.  Module NetQueue gives what  *)
(* each leaves in closed form, and the lockstep protocol is stated with    *)
(* those; here they are compared, from every queue the client can have.    *)
(* An operator called Faulty is what the code must not do; nothing uses it.*)
(***************************************************************************)
EXTENDS NetQueue

CONSTANTS
  MaxTail,   \* bound: elements ever enqueued one by one
  MaxData    \* bound: elements of a packet

ASSUME NetQueueLoopsAssumption == MaxTail \in Nat /\ MaxData \in Nat

VARIABLES
  q,        \* the queue
  loop,     \* the loop under way
  uStart,   \* its first cursor
  uEnd,     \* its second cursor
  inputs,   \* the elements it has still to enqueue
  fetched,  \* the elements it has fetched
  call      \* history: what the loop was called with

cursors == <<uStart, uEnd>>
loopsVars == <<q, loop, cursors, inputs, fetched, call>>

LoopsInit ==
  /\ q = NetQueueNew
  /\ loop = "none"
  /\ uStart = 0 /\ uEnd = 0
  /\ inputs = << >> /\ fetched = << >>
  /\ call = [q |-> q, uStart |-> 0, uEnd |-> 0, inputs |-> << >>]

-----------------------------------------------------------------------------
\* Between loops: an input is enqueued or dequeued, or an acknowledgement
\* moves the head, perhaps back.
Single(after) ==
  /\ loop = "none"
  /\ q' = after
  /\ UNCHANGED <<loop, cursors, inputs, fetched, call>>

Begin(which, s, e, d) ==
  /\ loop = "none"
  /\ loop' = which
  /\ uStart' = s /\ uEnd' = e /\ inputs' = d /\ fetched' = << >>
  /\ call' = [q |-> q, uStart |-> s, uEnd |-> e, inputs |-> d]
  /\ UNCHANGED q

\* _NetClientPeerInputData has decoded the elements d, the first of which is
\* at position s.
BeginEnqueue(s, d) == Begin("enqueue", s, 0, d)

EnqueueNext ==
  /\ loop = "enqueue" /\ inputs # << >>
  /\ q' = NetQueueEnqueueAt(q, uStart, Head(inputs))
  /\ uStart' = uStart + 1
  /\ inputs' = Tail(inputs)
  /\ UNCHANGED <<loop, uEnd, fetched, call>>

\* NetQueueFetchRange compares the cursors once, by their difference.
BeginFetch(s, e) == Begin(IF e - s >= 0 THEN "forward" ELSE "backward", s, e, << >>)

\* Faulty: the element at uEnd is fetched too.
FetchForwardInclusive ==
  /\ loop = "forward" /\ uStart <= uEnd /\ Holds(q, uStart)
  /\ fetched' = Append(fetched, q.Elements[Slot(uStart)])
  /\ uStart' = uStart + 1
  /\ UNCHANGED <<q, loop, uEnd, inputs, call>>

FetchForward ==
  /\ loop = "forward" /\ uStart # uEnd /\ Holds(q, uStart)
  /\ fetched' = Append(fetched, q.Elements[Slot(uStart)])
  /\ uStart' = uStart + 1
  /\ UNCHANGED <<q, loop, uEnd, inputs, call>>

\* The backward loop walks away from uStart, so only the head ends it.
FetchBackward ==
  /\ loop = "backward" /\ uStart # uEnd /\ Holds(q, uEnd)
  /\ fetched' = Append(fetched, q.Elements[Slot(uEnd)])
  /\ uEnd' = uEnd - 1
  /\ UNCHANGED <<q, loop, uStart, inputs, call>>

\* The loop's condition fails, or the element is not there.
Ended ==
  \/ loop = "enqueue" /\ inputs = << >>
  \/ loop = "forward" /\ (uStart = uEnd \/ ~Holds(q, uStart))
  \/ loop = "backward" /\ (uStart = uEnd \/ ~Holds(q, uEnd))

Return ==
  /\ Ended
  /\ loop' = "none"
  /\ UNCHANGED <<q, cursors, inputs, fetched, call>>

LoopsNext ==
  \/ q.uTail < MaxTail /\ \E e \in Element : Single(NetQueueEnqueue(q, e))
  \/ Single(NetQueueDequeue(q))
  \/ \E uAckPos \in 0 .. q.uTail : Single([q EXCEPT !.uHead = uAckPos])
  \/ \E s \in 0 .. q.uTail + 1, d \in UNION { [1 .. n -> Element] : n \in 1 .. MaxData } :
       q.uTail < MaxTail /\ BeginEnqueue(s, d)
  \/ \E s, e \in 0 .. q.uTail + 1 : BeginFetch(s, e)
  \/ EnqueueNext \/ FetchForward \/ FetchBackward \/ Return

LoopsSpec == LoopsInit /\ [][LoopsNext]_loopsVars

-----------------------------------------------------------------------------
\* The loops say what the closed forms say that the rest of the protocol is modelled and
\* proved with.  That of _NetClientPeerInputData: what the queue already has is skipped, a
\* gap makes it take nothing, and a full queue ends it, whatever cursor the packet came
\* with; those of NetQueueFetchRange: also backwards, where they run past uStart.
LoopsAreClosed ==
  Ended =>
    /\ loop = "enqueue" => q = EnqueueFrom(call.q, call.uStart, call.inputs)
    /\ loop \in {"forward", "backward"} =>
         fetched = NetQueueFetchRange(call.q, call.uStart, call.uEnd)
=============================================================================
