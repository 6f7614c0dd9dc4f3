------------------------- MODULE NetLockstep_proofs -------------------------
(***************************************************************************)
(* The lockstep protocol, for every set of clients, every ring size, every *)
(* latency and every bound.                                                *)
(***************************************************************************)
EXTENDS NetLockstep, NetQueue_proofs

\* n copies of one input.
Copies(v, n) == [i \in 1 .. n |-> v]

LEMMA CopiesType ==
  ASSUME NEW v \in Element, NEW n \in Nat
  PROVE  Copies(v, n) \in Seq(Element) /\ Len(Copies(v, n)) = n
BY DEF Copies

\* What a player presses is an input.
LEMMA PadType ==
  ASSUME TypeOK, NEW c \in Client, NEW v \in Pad[c][uFrame[c]]
  PROVE  v \in Element
BY NetLockstepAssumption DEF TypeOK

\* The calls of a pass are counted by naturals.
LEMMA CallsType ==
  ASSUME NEW th \in Int
  PROVE  FrameCalls(th) \in Nat /\ StallCalls(th) \in Nat
BY DEF FrameCalls, StallCalls

\* A throttle is a number, and counting it down keeps it in its range.
LEMMA ThrottleType ==
  ASSUME NEW th \in ThrottleRange
  PROVE  th \in Int /\ AfterFrame(th) \in ThrottleRange
                    /\ AfterStall(th) \in ThrottleRange
<1>1. th \in Int
  BY NetLockstepAssumption DEF ThrottleRange
<1>2. 0 \in ThrottleRange
  BY DEF ThrottleRange
<1>3. CASE th < 0
  <2>1. PICK low \in Throttles : low <= th
    BY <1>1, <1>3 DEF ThrottleRange
  <2>2. low \in Int
    BY NetLockstepAssumption
  <2>3. CASE th + 1 < 0
    <3>1. th + 1 \in Int /\ low <= th + 1
      BY <1>1, <2>1, <2>2
    <3> QED BY <1>1, <1>3, <2>1, <2>3, <3>1
            DEF AfterFrame, AfterStall, ThrottleRange
  <2>4. CASE ~(th + 1 < 0)
    <3>1. th + 1 = 0
      BY <1>1, <1>3, <2>4
    <3> QED BY <1>1, <1>2, <1>3, <3>1 DEF AfterFrame, AfterStall
  <2> QED BY <2>3, <2>4
<1>4. CASE ~(th < 0)
  BY <1>1, <1>2, <1>4 DEF AfterFrame, AfterStall
<1> QED BY <1>3, <1>4

\* The inputs a queue accepts fit its ring.
LEMMA AcceptedFits ==
  ASSUME NEW oq \in [Client -> Queue], NEW k \in Nat, NEW n \in 0 .. k,
         Accepted(oq, k, n), NEW p \in Client, n # 0
  PROVE  NetQueueGetCount(oq[p]) + n <= NETQUEUE_SIZE
<1>1. NetQueueGetCount(oq[p]) < NETQUEUE_SIZE + 1 - n
  BY DEF Accepted, CheckOutputLimit
<1>2. NetQueueGetCount(oq[p]) \in Int /\ NETQUEUE_SIZE \in Nat
  <2>1. oq[p] \in Queue
    OBVIOUS
  <2> QED BY <2>1, NetQueueAssumption DEF NetQueueGetCount, Queue
<1> QED BY <1>1, <1>2

LEMMA EnqueueInputType ==
  ASSUME NEW oq \in [Client -> Queue], NEW v \in Element, NEW n \in Nat
  PROVE  EnqueueInput(oq, v, n) \in [Client -> Queue]
BY CopiesType, ExtendType DEF EnqueueInput, Copies

\* What a transmit fetches, from the head to the tail, is the whole queue.
LEMMA FetchAll ==
  ASSUME NEW q \in Queue, q.uHead <= q.uTail
  PROVE  NetQueueFetchRange(q, q.uHead, q.uTail)
           = [i \in 1 .. q.uTail - q.uHead |-> q.Elements[Slot(q.uHead + i - 1)]]
BY DEF NetQueueFetchRange, Holds, Lesser, Queue

LEMMA FetchAllType ==
  ASSUME NEW q \in Queue
  PROVE  NetQueueFetchRange(q, q.uHead, q.uTail) \in Seq(Element)
<1>1. q.uHead \in Nat /\ q.uTail \in Nat
  BY DEF Queue
<1>2. CASE q.uHead <= q.uTail
  <2> DEFINE n == q.uTail - q.uHead
             f == [i \in 1 .. n |-> q.Elements[Slot(q.uHead + i - 1)]]
  <2>1. n \in Nat
    BY <1>1, <1>2
  <2>2. ASSUME NEW i \in 1 .. n PROVE f[i] \in Element
    <3>1. q.uHead + i - 1 \in Nat
      BY <1>1, <2>1
    <3> QED BY <3>1, SlotType DEF Queue
  <2> HIDE DEF n
  <2>3. f \in Seq(Element)
    BY <2>1, <2>2
  <2> QED BY <1>2, <2>3, FetchAll DEF n
<1>3. CASE ~(q.uHead <= q.uTail)
  <2>1. NetQueueFetchRange(q, q.uHead, q.uTail) = << >>
    BY <1>1, <1>3 DEF NetQueueFetchRange, Holds
  <2> QED BY <2>1
<1> QED BY <1>2, <1>3

-----------------------------------------------------------------------------
\* Type correctness is preserved by every step.
LEMMA TypeStep == TypeOK /\ [Next]_vars => TypeOK'
<1> SUFFICES ASSUME TypeOK, [Next]_vars PROVE TypeOK'
  OBVIOUS
<1> USE NetLockstepAssumption
<1>0. ASSUME NEW c \in Client, NEW oq \in [Client -> Queue], NEW v \in Element,
             NEW k \in Nat, NEW before \in Seq(Element),
             SendInput(c, oq, v, k, before)
      PROVE  /\ outq' \in [Client -> [Client -> Queue]]
             /\ sent' \in [Client -> Seq(Element)]
             /\ xmit' \in [Client -> SUBSET Client]
  <2>1. PICK n \in 0 .. k :
          /\ outq' = [outq EXCEPT ![c] = EnqueueInput(oq, v, n)]
          /\ sent' = [sent EXCEPT ![c] = before \o Copies(v, n)]
          /\ xmit' = [xmit EXCEPT ![c] =
               IF CheckOutputLimit(EnqueueInput(oq, v, n), NETQUEUE_SIZE)
               THEN Client ELSE @]
    BY <1>0 DEF SendInput, Transmit, Copies
  <2>2. EnqueueInput(oq, v, n) \in [Client -> Queue]
    BY EnqueueInputType
  <2>3. before \o Copies(v, n) \in Seq(Element)
    BY CopiesType
  <2>4. outq' \in [Client -> [Client -> Queue]]
    BY <2>1, <2>2 DEF TypeOK
  <2>5. sent' \in [Client -> Seq(Element)]
    BY <2>1, <2>3 DEF TypeOK
  <2>6. xmit' \in [Client -> SUBSET Client]
    BY <2>1 DEF TypeOK
  <2> QED BY <2>4, <2>5, <2>6
<1>01. ASSUME NEW c \in Client, NEW left \in ThrottleRange,
              UpdateThrottle(c, left)
       PROVE  iThrottle' \in [Client -> ThrottleRange]
              /\ updates' \in 0 .. MaxUpdates
  <2>1. Throttles \subseteq ThrottleRange
    BY DEF ThrottleRange
  <2>2. iThrottle' \in [Client -> ThrottleRange]
    BY <1>01, <2>1 DEF UpdateThrottle, TypeOK
  <2>3. updates' \in 0 .. MaxUpdates
    BY <1>01 DEF UpdateThrottle, TypeOK
  <2> QED BY <2>2, <2>3
<1>1. ASSUME NEW c \in Client, NEW v \in Pad[c][uFrame[c]],
             ProcessFrame(c, v)
      PROVE  TypeOK'
  <2>1. /\ v \in Element /\ iThrottle[c] \in ThrottleRange
        /\ sent[c] \in Seq(Element) /\ outq[c] \in [Client -> Queue]
    BY PadType DEF TypeOK
  <2>2. /\ AfterFrame(iThrottle[c]) \in ThrottleRange
        /\ FrameCalls(iThrottle[c]) \in Nat
    BY <2>1, ThrottleType, CallsType
  <2>3. SendInput(c, outq[c], v, FrameCalls(iThrottle[c]), sent[c])
    BY <1>1 DEF ProcessFrame
  <2>4. /\ outq' \in [Client -> [Client -> Queue]]
        /\ sent' \in [Client -> Seq(Element)]
        /\ xmit' \in [Client -> SUBSET Client]
    BY <1>0, <2>1, <2>2, <2>3
  <2>5. iThrottle' \in [Client -> ThrottleRange] /\ updates' \in 0 .. MaxUpdates
    BY <1>1, <2>2, <1>01 DEF ProcessFrame
  <2>6. inq' \in [Client -> [Client -> Queue]]
    <3>1. \A p \in Client : NetQueueDequeue(inq[c][p]) \in Queue
      BY CursorType DEF TypeOK
    <3> QED BY <1>1, <3>1 DEF ProcessFrame, TypeOK
  <2>7. played' \in [Client -> Seq([Client -> Element])]
    <3>1. \A p \in Client : NetQueueFront(inq[c][p]) \in Element
      BY CursorType DEF TypeOK
    <3>2. [p \in Client |-> NetQueueFront(inq[c][p])] \in [Client -> Element]
      BY <3>1
    <3> QED BY <1>1, <3>2 DEF ProcessFrame, TypeOK
  <2>8. uFrame' \in [Client -> 0 .. MaxFrame]
    BY <1>1 DEF ProcessFrame, TypeOK
  <2>9. UNCHANGED <<srv, game, eGameState, net, smashed>>
    BY <1>1 DEF ProcessFrame, server
  <2> QED BY <2>4, <2>5, <2>6, <2>7, <2>8, <2>9 DEF TypeOK
<1>2. ASSUME NEW c \in Client, NEW v \in Pad[c][uFrame[c]],
             ProcessStall(c, v)
      PROVE  TypeOK'
  <2>1. /\ v \in Element /\ iThrottle[c] \in ThrottleRange
        /\ sent[c] \in Seq(Element) /\ outq[c] \in [Client -> Queue]
    BY PadType DEF TypeOK
  <2>2. /\ AfterStall(iThrottle[c]) \in ThrottleRange
        /\ StallCalls(iThrottle[c]) \in Nat
    BY <2>1, ThrottleType, CallsType
  <2>3. SendInput(c, outq[c], v, StallCalls(iThrottle[c]), sent[c])
    BY <1>2 DEF ProcessStall
  <2>4. /\ outq' \in [Client -> [Client -> Queue]]
        /\ sent' \in [Client -> Seq(Element)]
        /\ xmit' \in [Client -> SUBSET Client]
    BY <1>0, <2>1, <2>2, <2>3
  <2>5. iThrottle' \in [Client -> ThrottleRange] /\ updates' \in 0 .. MaxUpdates
    BY <1>2, <2>2, <1>01 DEF ProcessStall
  <2>6. UNCHANGED <<srv, game, eGameState, uFrame, inq, net, smashed, played>>
    BY <1>2 DEF ProcessStall, server
  <2> QED BY <2>4, <2>5, <2>6 DEF TypeOK
<1>3. ASSUME NEW c \in Client, NEW p \in Client, PeerTransmit(c, p)
      PROVE  TypeOK'
  <2> DEFINE q     == outq[c][p]
             range == NetQueueFetchRange(q, q.uHead, q.uTail)
             m     == [from |-> c, to |-> p, uAckPos |-> inq[c][p].uTail,
                       uStartPos |-> q.uHead, data |-> range]
  <2>1. q \in Queue /\ inq[c][p] \in Queue
    BY DEF TypeOK
  <2>2. m \in Packet
    BY <2>1, FetchAllType DEF Packet, Queue
  <2>3. net' \in SUBSET (net \union {m})
    BY <1>3 DEF PeerTransmit, NetClientSendUDP
  <2>4. smashed' \subseteq Client /\ xmit' \in [Client -> SUBSET Client]
    BY <1>3 DEF PeerTransmit, TypeOK
  <2>5. UNCHANGED <<server, uFrame, throttle, queues, history>>
    BY <1>3 DEF PeerTransmit
  <2> QED BY <2>2, <2>3, <2>4, <2>5
          DEF TypeOK, server, throttle, queues, history
<1>4. ASSUME NEW m \in net, PeerInputData(m) PROVE TypeOK'
  <2> DEFINE c == m.to
             p == m.from
  <2>1. m \in Packet
    BY DEF TypeOK
  <2>2. /\ c \in Client /\ p \in Client
        /\ m.uAckPos \in Nat /\ m.uStartPos \in Nat /\ m.data \in Seq(Element)
    BY <2>1 DEF Packet
  <2>3. outq[c][p] \in Queue /\ inq[c][p] \in Queue
    <3> HIDE DEF c, p
    <3> QED BY <2>2 DEF TypeOK
  <2>4. Acknowledge(outq[c][p], m.uAckPos) \in Queue
    BY <2>2, <2>3 DEF Acknowledge, Queue
  <2>5. EnqueueFrom(inq[c][p], m.uStartPos, m.data) \in Queue
    BY <2>2, <2>3, EnqueueFromType
  <2>6. outq' = [outq EXCEPT ![c][p] = Acknowledge(outq[c][p], m.uAckPos)]
        /\ inq' = [inq EXCEPT ![c][p] =
                     EnqueueFrom(inq[c][p], m.uStartPos, m.data)]
    BY <1>4 DEF PeerInputData
  <2> HIDE DEF c, p
  <2>7. outq' \in [Client -> [Client -> Queue]]
    BY <2>2, <2>4, <2>6 DEF TypeOK
  <2>8. inq' \in [Client -> [Client -> Queue]]
    BY <2>2, <2>5, <2>6 DEF TypeOK
  <2>9. net' \subseteq net
    BY <1>4 DEF PeerInputData, Deliver
  <2>10. UNCHANGED <<server, uFrame, throttle, xmit, smashed, history>>
    BY <1>4 DEF PeerInputData
  <2> QED BY <2>7, <2>8, <2>9, <2>10 DEF TypeOK, server, throttle, history
<1>5. ASSUME NEW m \in net, Lose(m) PROVE TypeOK'
  BY <1>5 DEF TypeOK, Lose, server, queues, throttle, history
<1>6. CASE StartGame
  BY <1>6 DEF TypeOK, StartGame, queues, throttle
<1>7. ASSUME NEW c \in Client, RecvStartGame(c) PROVE TypeOK'
  <2> DEFINE fresh(q) == NetQueueReset(q, 0)
             oq == [p \in Client |-> fresh(outq[c][p])]
             iq == [p \in Client |-> fresh(inq[c][p])]
  <2>1. oq \in [Client -> Queue] /\ iq \in [Client -> Queue]
    <3>1. \A p \in Client : /\ NetQueueReset(outq[c][p], 0) \in Queue
                            /\ NetQueueReset(inq[c][p], 0) \in Queue
      <4>1. \A p \in Client : outq[c][p] \in Queue /\ inq[c][p] \in Queue
        BY DEF TypeOK
      <4>2. 0 \in Nat
        OBVIOUS
      <4> QED BY <4>1, <4>2, CursorType
    <3> QED BY <3>1
  <2>2. 0 \in Element /\ << >> \in Seq(Element)
    BY NetQueueAssumption
  <2>3. SendInput(c, oq, 0, uLatency, << >>)
    BY <1>7 DEF RecvStartGame
  <2>4. /\ outq' \in [Client -> [Client -> Queue]]
        /\ sent' \in [Client -> Seq(Element)]
        /\ xmit' \in [Client -> SUBSET Client]
    BY <1>0, <2>1, <2>2, <2>3
  <2>5. inq' = [inq EXCEPT ![c] = iq]
    BY <1>7 DEF RecvStartGame
  <2>6. inq' \in [Client -> [Client -> Queue]]
    BY <2>1, <2>5 DEF TypeOK
  <2>7. /\ game' \in [Client -> 0 .. MaxGames]
        /\ eGameState' \in [Client -> {"LOADING", "PLAY"}]
        /\ uFrame' \in [Client -> 0 .. MaxFrame]
    BY <1>7 DEF RecvStartGame, TypeOK
  <2>8. UNCHANGED <<srv, throttle, net, smashed, played>>
    BY <1>7 DEF RecvStartGame
  <2> QED BY <2>4, <2>6, <2>7, <2>8 DEF TypeOK, throttle
<1>8. ASSUME NEW c \in Client, RecvLoadReq(c) PROVE TypeOK'
  BY <1>8 DEF TypeOK, RecvLoadReq, queues, throttle, history
<1>9. CASE UNCHANGED vars
  BY <1>9 DEF TypeOK, vars, server, queues, throttle, history
<1> QED BY <1>1, <1>2, <1>3, <1>4, <1>5, <1>6, <1>7, <1>8, <1>9
        DEF Next, Server, Network, Main, Sending

LEMMA InitType == Init => TypeOK
<1> SUFFICES ASSUME Init PROVE TypeOK
  OBVIOUS
<1>1. NetQueueNew \in Queue
  BY NetQueueAssumption DEF NetQueueNew, Queue
<1> QED BY <1>1, NetLockstepAssumption DEF Init, TypeOK, ThrottleRange

\* Whatever the network does, every variable keeps its type.
THEOREM TypeCorrect == Spec => []TypeOK
BY InitType, TypeStep, PTL DEF Spec

-----------------------------------------------------------------------------
(***************************************************************************)
(* What the calls on queues keep of a queue that holds a piece of an input *)
(* stream.                                                                 *)
(***************************************************************************)

\* t continues s.
Continues(t, s) == Len(s) <= Len(t) /\ \A i \in 1 .. Len(s) : t[i] = s[i]

\* Appending copies continues a stream with them.
LEMMA AppendCopies ==
  ASSUME NEW s \in Seq(Element), NEW v \in Element, NEW n \in Nat
  PROVE  /\ s \o Copies(v, n) \in Seq(Element)
         /\ Len(s \o Copies(v, n)) = Len(s) + n
         /\ Continues(s \o Copies(v, n), s)
         /\ \A i \in Len(s) + 1 .. Len(s) + n : (s \o Copies(v, n))[i] = v
<1>1. Copies(v, n) \in Seq(Element) /\ Len(Copies(v, n)) = n
  BY CopiesType
<1>2. \A i \in 1 .. n : Copies(v, n)[i] = v
  BY DEF Copies
<1>3. ASSUME NEW i \in Len(s) + 1 .. Len(s) + n
      PROVE  (s \o Copies(v, n))[i] = v
  <2>1. i - Len(s) \in 1 .. n
    OBVIOUS
  <2>2. (s \o Copies(v, n))[i] = Copies(v, n)[i - Len(s)]
    BY <1>1
  <2> QED BY <1>2, <2>1, <2>2
<1>4. /\ s \o Copies(v, n) \in Seq(Element)
      /\ Len(s \o Copies(v, n)) = Len(s) + n
      /\ \A i \in 1 .. Len(s) : (s \o Copies(v, n))[i] = s[i]
  BY <1>1
<1>5. Continues(s \o Copies(v, n), s)
  BY <1>4 DEF Continues
<1> QED BY <1>3, <1>4, <1>5

\* Enqueuing what is appended to the input keeps an output queue in step.
LEMMA HoldsTailExtend ==
  ASSUME NEW q \in Queue, NEW s \in Seq(Element), HoldsTail(q, s),
         NEW v \in Element, NEW n \in Nat,
         n = 0 \/ NetQueueGetCount(q) + n <= NETQUEUE_SIZE
  PROVE  HoldsTail(Extend(q, Copies(v, n)), s \o Copies(v, n))
<1> DEFINE d == Copies(v, n)
           r == Extend(q, d)
           t == s \o d
<1>1. d \in Seq(Element) /\ Len(d) = n
  BY CopiesType
<1>2. r \in Queue /\ r.uHead = q.uHead /\ r.uTail = q.uTail + n
  BY <1>1, ExtendType
<1>3. Len(t) = Len(s) + n /\ Continues(t, s)
      /\ \A i \in Len(s) + 1 .. Len(s) + n : t[i] = v
  BY AppendCopies
<1>4. /\ q.uHead \in Nat /\ q.uTail \in Nat /\ NETQUEUE_SIZE \in Nat
      /\ q.uTail = Len(s) /\ q.uHead <= q.uTail
  BY NetQueueAssumption DEF Queue, HoldsTail
<1>5. n <= NETQUEUE_SIZE
  BY <1>4 DEF NetQueueGetCount
<1>6. \A i \in 1 .. n : d[i] = v
  BY DEF Copies
<1> HIDE DEF d, r, t
<1>7. ASSUME NEW pos \in 0 .. r.uTail - 1, r.uTail <= pos + NETQUEUE_SIZE
      PROVE  r.Elements[Slot(pos)] = t[pos + 1]
  <2>1. pos \in Nat /\ pos < q.uTail + n /\ q.uTail + n <= pos + NETQUEUE_SIZE
    BY <1>2, <1>4, <1>7
  <2>2. CASE pos < q.uTail
    <3>1. r.Elements[Slot(pos)] = q.Elements[Slot(pos)]
      BY <1>1, <2>1, <2>2, ExtendOld DEF r
    <3>2. pos \in 0 .. q.uTail - 1 /\ q.uTail <= pos + NETQUEUE_SIZE
      BY <1>4, <2>1, <2>2
    <3>3. q.Elements[Slot(pos)] = s[pos + 1]
      BY <3>2 DEF HoldsTail
    <3>4. t[pos + 1] = s[pos + 1]
      BY <1>3, <1>4, <2>1, <2>2 DEF Continues
    <3> QED BY <3>1, <3>3, <3>4
  <2>3. CASE ~(pos < q.uTail)
    <3>1. pos - q.uTail + 1 \in 1 .. n /\ q.uTail <= pos
      BY <1>4, <2>1, <2>3
    <3>2. r.Elements[Slot(pos)] = d[pos - q.uTail + 1]
      BY <1>1, <1>5, <2>1, <3>1, ExtendNew DEF r
    <3>3. pos + 1 \in Len(s) + 1 .. Len(s) + n
      BY <1>4, <2>1, <2>3
    <3> QED BY <1>3, <1>6, <3>1, <3>2, <3>3
  <2> QED BY <2>2, <2>3
<1>8. r.uTail = Len(t) /\ r.uHead <= r.uTail
  BY <1>2, <1>3, <1>4
<1>9. HoldsTail(r, t)
  BY <1>7, <1>8 DEF HoldsTail
<1> QED BY <1>9 DEF r, t, d

\* A queue that has been reset is in step with an empty input.
LEMMA HoldsReset ==
  ASSUME NEW q \in Queue, NEW s \in Seq(Element)
  PROVE  /\ HoldsTail(NetQueueReset(q, 0), << >>)
         /\ HoldsPiece(NetQueueReset(q, 0), s)
         /\ NetQueueReset(q, 0).uHead = 0 /\ NetQueueReset(q, 0).uTail = 0
<1> DEFINE r == NetQueueReset(q, 0)
<1>1. r.uHead = 0 /\ r.uTail = 0
  BY DEF NetQueueReset, Queue
<1> HIDE DEF r
<1>2. HoldsTail(r, << >>)
  BY <1>1 DEF HoldsTail
<1>3. HoldsPiece(r, s)
  BY <1>1, NetQueueAssumption DEF HoldsPiece
<1> QED BY <1>1, <1>2, <1>3 DEF r

\* A piece of an input is a piece of what the input becomes.
LEMMA HoldsPieceGrows ==
  ASSUME NEW q \in Queue, NEW s \in Seq(Element), NEW t \in Seq(Element),
         HoldsPiece(q, s), Continues(t, s)
  PROVE  HoldsPiece(q, t)
<1>1. /\ q.uHead \in Nat /\ q.uTail \in Nat /\ Len(s) \in Nat /\ Len(t) \in Nat
      /\ q.uTail <= Len(s) /\ Len(s) <= Len(t)
  BY DEF Queue, HoldsPiece, Continues
<1>2. ASSUME NEW pos \in q.uHead .. q.uTail - 1
      PROVE  q.Elements[Slot(pos)] = t[pos + 1]
  <2>1. pos + 1 \in 1 .. Len(s)
    BY <1>1
  <2> QED BY <2>1 DEF HoldsPiece, Continues
<1> QED BY <1>1, <1>2 DEF HoldsPiece

\* Dequeuing hands out the next input of the stream.
LEMMA HoldsPieceDequeue ==
  ASSUME NEW q \in Queue, NEW s \in Seq(Element), HoldsPiece(q, s),
         NetQueueGetCount(q) # 0
  PROVE  /\ HoldsPiece(NetQueueDequeue(q), s)
         /\ NetQueueDequeue(q).uHead = q.uHead + 1
         /\ NetQueueDequeue(q).uTail = q.uTail
         /\ q.uHead + 1 <= Len(s)
         /\ NetQueueFront(q) = s[q.uHead + 1]
<1> DEFINE r == NetQueueDequeue(q)
<1>1. /\ q.uHead \in Nat /\ q.uTail \in Nat /\ Len(s) \in Nat
      /\ q.uHead < q.uTail /\ q.uTail <= Len(s) /\ NETQUEUE_SIZE \in Nat
      /\ q.uTail <= q.uHead + NETQUEUE_SIZE
  BY NetQueueAssumption DEF Queue, HoldsPiece, NetQueueGetCount
<1>2. r = [q EXCEPT !.uHead = @ + 1]
  BY <1>1 DEF NetQueueDequeue, NetQueueGetCount
<1>3. r.uHead = q.uHead + 1 /\ r.uTail = q.uTail /\ r.Elements = q.Elements
  BY <1>2 DEF Queue
<1> HIDE DEF r
<1>4. HoldsPiece(r, s)
  BY <1>1, <1>3 DEF HoldsPiece
<1>5. q.uHead \in q.uHead .. q.uTail - 1
  BY <1>1
<1>6. NetQueueFront(q) = s[q.uHead + 1]
  BY <1>5 DEF HoldsPiece, NetQueueFront
<1> QED BY <1>1, <1>3, <1>4, <1>6 DEF r

\* Data that is a piece of the input, wherever it starts, extends the piece.
LEMMA HoldsPieceEnqueue ==
  ASSUME NEW q \in Queue, NEW s \in Seq(Element), HoldsPiece(q, s),
         NEW uStart \in Nat, NEW data \in Seq(Element),
         uStart + Len(data) <= Len(s),
         \A i \in 1 .. Len(data) : data[i] = s[uStart + i]
  PROVE  HoldsPiece(EnqueueFrom(q, uStart, data), s)
<1> DEFINE r == EnqueueFrom(q, uStart, data)
<1>1. /\ q.uHead \in Nat /\ q.uTail \in Nat /\ Len(s) \in Nat
      /\ Len(data) \in Nat /\ NETQUEUE_SIZE \in Nat
      /\ q.uHead <= q.uTail /\ q.uTail <= Len(s)
      /\ q.uTail <= q.uHead + NETQUEUE_SIZE
  BY NetQueueAssumption DEF Queue, HoldsPiece
<1>2. /\ r \in Queue /\ r.uHead = q.uHead /\ r.uTail >= q.uTail
      /\ r = q \/ /\ r.uTail <= uStart + Len(data)
                  /\ r.uTail <= q.uHead + NETQUEUE_SIZE
  BY EnqueueFromType
<1>3. r.uTail \in Nat
  BY <1>2 DEF Queue
<1>4. /\ r.uHead <= r.uTail /\ r.uTail <= Len(s)
      /\ r.uTail <= r.uHead + NETQUEUE_SIZE
  BY <1>1, <1>2, <1>3
<1>5. ASSUME NEW pos \in r.uHead .. r.uTail - 1
      PROVE  r.Elements[Slot(pos)] = s[pos + 1]
  <2>1. pos \in Nat /\ Holds(r, pos)
    <3> HIDE DEF r
    <3> QED BY <1>1, <1>2, <1>3 DEF Holds
  <2>2. \/ Holds(q, pos) /\ r.Elements[Slot(pos)] = q.Elements[Slot(pos)]
        \/ /\ pos - uStart + 1 \in 1 .. Len(data)
           /\ r.Elements[Slot(pos)] = data[pos - uStart + 1]
    BY <1>1, <2>1, EnqueueFromElements
  <2> HIDE DEF r
  <2>3. CASE Holds(q, pos) /\ r.Elements[Slot(pos)] = q.Elements[Slot(pos)]
    <3>1. pos \in q.uHead .. q.uTail - 1
      BY <1>1, <2>1, <2>3 DEF Holds
    <3> QED BY <2>3, <3>1 DEF HoldsPiece
  <2>4. CASE /\ pos - uStart + 1 \in 1 .. Len(data)
             /\ r.Elements[Slot(pos)] = data[pos - uStart + 1]
    <3>1. uStart + (pos - uStart + 1) = pos + 1
      BY <2>1
    <3>2. data[pos - uStart + 1] = s[uStart + (pos - uStart + 1)]
      BY <2>4
    <3> QED BY <2>4, <3>1, <3>2
  <2> QED BY <2>2, <2>3, <2>4
<1> HIDE DEF r
<1>6. HoldsPiece(r, s)
  BY <1>4, <1>5 DEF HoldsPiece
<1> QED BY <1>6 DEF r

\* What a transmit fetches is a piece of the input.
LEMMA FetchIsPiece ==
  ASSUME NEW q \in Queue, NEW s \in Seq(Element), HoldsTail(q, s),
         Len(NetQueueFetchRange(q, q.uHead, q.uTail)) <= NETQUEUE_SIZE
  PROVE  LET r == NetQueueFetchRange(q, q.uHead, q.uTail)
         IN  /\ q.uHead + Len(r) <= Len(s)
             /\ \A i \in 1 .. Len(r) : r[i] = s[q.uHead + i]
<1> DEFINE r == NetQueueFetchRange(q, q.uHead, q.uTail)
<1>1. /\ q.uHead \in Nat /\ q.uTail \in Nat /\ NETQUEUE_SIZE \in Nat
      /\ q.uTail = Len(s) /\ q.uHead <= q.uTail
  BY NetQueueAssumption DEF Queue, HoldsTail
<1>2. r = [i \in 1 .. q.uTail - q.uHead |-> q.Elements[Slot(q.uHead + i - 1)]]
  BY <1>1, FetchAll
<1>3. Len(r) = q.uTail - q.uHead
  BY <1>1, <1>2
<1>4. Len(r) <= NETQUEUE_SIZE
  OBVIOUS
<1> HIDE DEF r
<1>5. ASSUME NEW i \in 1 .. Len(r) PROVE r[i] = s[q.uHead + i]
  <2>1. q.uHead + i - 1 \in 0 .. q.uTail - 1
        /\ q.uTail <= q.uHead + i - 1 + NETQUEUE_SIZE
        /\ q.uHead + i - 1 + 1 = q.uHead + i
    BY <1>1, <1>3, <1>4
  <2>2. q.Elements[Slot(q.uHead + i - 1)] = s[q.uHead + i - 1 + 1]
    BY <2>1 DEF HoldsTail
  <2> QED BY <1>2, <1>3, <2>1, <2>2
<1> QED BY <1>1, <1>3, <1>5 DEF r

-----------------------------------------------------------------------------
(***************************************************************************)
(* The inductive invariant.                                                *)
(***************************************************************************)

\* A pass of the main loop continues the input of its client, and the output
\* queues follow.
SendsOn(c, n, v) ==
  /\ outq' = [outq EXCEPT ![c] =
                [p \in Client |-> Extend(outq[c][p], Copies(v, n))]]
  /\ sent' = [sent EXCEPT ![c] = sent[c] \o Copies(v, n)]
  /\ \A p \in Client :
       n = 0 \/ NetQueueGetCount(outq[c][p]) + n <= NETQUEUE_SIZE

\* Growing the input of a client in the game, with its output queues, keeps
\* what the invariant says of everything else.
LEMMA SendsOnStep ==
  \A c \in Client : \A n \in Nat : \A v \in Element :
    /\ TypeOK /\ OutputInv /\ InGame(c) /\ SendsOn(c, n, v)
    /\ game' = game /\ srv' = srv
    => /\ \A p \in Client : sent'[p] \in Seq(Element) /\ Continues(sent'[p], sent[p])
       /\ OutputInv'
       /\ \A d, p \in Client : outq'[d][p].uHead = outq[d][p].uHead
<1> TAKE c \in Client
<1> TAKE n \in Nat
<1> TAKE v \in Element
<1> HAVE /\ TypeOK /\ OutputInv /\ InGame(c) /\ SendsOn(c, n, v)
         /\ game' = game /\ srv' = srv
<1>1. sent[c] \in Seq(Element) /\ sent \in [Client -> Seq(Element)]
  BY DEF TypeOK
<1>2. sent' = [sent EXCEPT ![c] = sent[c] \o Copies(v, n)]
  BY DEF SendsOn
<1>3. /\ sent[c] \o Copies(v, n) \in Seq(Element)
      /\ Continues(sent[c] \o Copies(v, n), sent[c])
  BY <1>1, AppendCopies
<1>4. ASSUME NEW p \in Client
      PROVE  sent'[p] \in Seq(Element) /\ Continues(sent'[p], sent[p])
  <2>1. CASE p = c
    BY <1>1, <1>2, <1>3, <2>1
  <2>2. CASE p # c
    <3>1. sent'[p] = sent[p] /\ sent[p] \in Seq(Element)
      BY <1>1, <1>2, <2>2
    <3> QED BY <3>1 DEF Continues
  <2> QED BY <2>1, <2>2
<1>5. ASSUME NEW d \in Client, NEW p \in Client
      PROVE  /\ outq'[d][p].uHead = outq[d][p].uHead
             /\ InGame(d) => HoldsTail(outq'[d][p], sent'[d])
  <2>1. outq[d][p] \in Queue /\ outq \in [Client -> [Client -> Queue]]
    BY DEF TypeOK
  <2>2. CASE d = c
    <3>1. outq'[c][p] = Extend(outq[c][p], Copies(v, n))
      BY <2>1 DEF SendsOn
    <3>2. HoldsTail(outq[c][p], sent[c])
      BY DEF OutputInv
    <3>3. n = 0 \/ NetQueueGetCount(outq[c][p]) + n <= NETQUEUE_SIZE
      BY DEF SendsOn
    <3>4. sent'[c] = sent[c] \o Copies(v, n)
      BY <1>1, <1>2
    <3>5. HoldsTail(outq'[c][p], sent'[c])
      BY <1>1, <2>1, <2>2, <3>1, <3>2, <3>3, <3>4, HoldsTailExtend
    <3>6. outq'[c][p].uHead = outq[c][p].uHead
      BY <2>1, <2>2, <3>1, CopiesType, ExtendType
    <3> QED BY <2>2, <3>5, <3>6
  <2>3. CASE d # c
    <3>1. outq'[d] = outq[d] /\ sent'[d] = sent[d]
      BY <1>1, <1>2, <2>1, <2>3 DEF SendsOn
    <3> QED BY <3>1 DEF OutputInv
  <2> QED BY <2>2, <2>3
<1>6. OutputInv'
  BY <1>5 DEF OutputInv, InGame
<1> QED BY <1>4, <1>5, <1>6

\* Every step preserves the invariant, provided that nothing of a game is
\* under way when the next one starts.
LEMMA InvStep ==
  DrainOnLoad /\ TypeOK /\ TypeOK' /\ IInv /\ [Next]_vars => IInv'
<1> SUFFICES ASSUME DrainOnLoad, TypeOK, TypeOK', IInv, [Next]_vars PROVE IInv'
  OBVIOUS
<1> USE DEF InGame
<1>a. /\ GameInv /\ OutputInv /\ InputInv /\ AckedIsDelivered
      /\ PacketInv /\ PlayedInv
  BY DEF IInv
<1>b. ASSUME NEW c \in Client, NEW v \in Element, NEW k \in Nat,
             SendInput(c, outq[c], v, k, sent[c])
      PROVE  \E n \in 0 .. k : SendsOn(c, n, v)
  <2>1. PICK n \in 0 .. k :
          /\ Accepted(outq[c], k, n)
          /\ outq' = [outq EXCEPT ![c] = EnqueueInput(outq[c], v, n)]
          /\ sent' = [sent EXCEPT ![c] = sent[c] \o Copies(v, n)]
    BY <1>b DEF SendInput, Copies
  <2>2. outq[c] \in [Client -> Queue]
    BY DEF TypeOK
  <2>3. EnqueueInput(outq[c], v, n)
          = [p \in Client |-> Extend(outq[c][p], Copies(v, n))]
    BY DEF EnqueueInput, Copies
  <2>4. \A p \in Client :
          n = 0 \/ NetQueueGetCount(outq[c][p]) + n <= NETQUEUE_SIZE
    BY <2>1, <2>2, AcceptedFits
  <2>5. SendsOn(c, n, v)
    BY <2>1, <2>3, <2>4 DEF SendsOn
  <2> QED BY <2>5
\* What a pass of c that sends keeps, apart from what it plays.
<1>c. ASSUME NEW c \in Client, NEW v \in Element, NEW k \in Nat,
             InGame(c), eGameState' = eGameState, game' = game, srv' = srv,
             net' = net,
             SendInput(c, outq[c], v, k, sent[c]),
             \A d, p \in Client : inq'[d][p].uTail = inq[d][p].uTail
      PROVE  /\ \A p \in Client : /\ sent'[p] \in Seq(Element)
                                  /\ Continues(sent'[p], sent[p])
             /\ OutputInv' /\ AckedIsDelivered' /\ PacketInv'
             /\ \A d \in Client : ~InGame(d) =>
                  sent'[d] = << >> /\ played[d] = << >> /\ xmit'[d] = {}
  <2>1. PICK n \in 0 .. k : SendsOn(c, n, v)
    BY <1>b, <1>c
  <2>2. /\ \A p \in Client : /\ sent'[p] \in Seq(Element)
                             /\ Continues(sent'[p], sent[p])
        /\ OutputInv'
        /\ \A d, p \in Client : outq'[d][p].uHead = outq[d][p].uHead
    <3>1. n \in Nat /\ TypeOK /\ OutputInv /\ InGame(c) /\ SendsOn(c, n, v)
          /\ game' = game /\ srv' = srv
      BY <1>a, <1>c, <2>1
    <3> QED BY ONLY <3>1, SendsOnStep, c \in Client, v \in Element
  <2>3. AckedIsDelivered'
    BY <1>a, <1>c, <2>2 DEF AckedIsDelivered, Received
  <2>4. PacketInv'
    <3> SUFFICES ASSUME NEW m \in net
                 PROVE  /\ InGame(m.from)
                        /\ m.uAckPos <= inq'[m.from][m.to].uTail
                        /\ m.uStartPos + Len(m.data) <= Len(sent'[m.from])
                        /\ \A i \in 1 .. Len(m.data) :
                             m.data[i] = sent'[m.from][m.uStartPos + i]
      BY <1>c DEF PacketInv
    <3>1. /\ m.from \in Client /\ m.to \in Client
          /\ m.uStartPos \in Nat /\ m.data \in Seq(Element)
      BY DEF TypeOK, Packet
    <3>2. /\ InGame(m.from)
          /\ m.uAckPos <= inq[m.from][m.to].uTail
          /\ m.uStartPos + Len(m.data) <= Len(sent[m.from])
          /\ \A i \in 1 .. Len(m.data) :
               m.data[i] = sent[m.from][m.uStartPos + i]
      BY <1>a DEF PacketInv
    <3>3. sent[m.from] \in Seq(Element) /\ sent'[m.from] \in Seq(Element)
          /\ Continues(sent'[m.from], sent[m.from])
      BY <2>2, <3>1 DEF TypeOK
    <3>4. m.uStartPos + Len(m.data) <= Len(sent'[m.from])
      BY <3>1, <3>2, <3>3 DEF Continues
    <3>5. ASSUME NEW i \in 1 .. Len(m.data)
          PROVE  m.data[i] = sent'[m.from][m.uStartPos + i]
      <4>1. m.uStartPos + i \in 1 .. Len(sent[m.from])
        BY <3>1, <3>2, <3>3
      <4> QED BY <3>2, <3>3, <4>1 DEF Continues
    <3>6. m.uAckPos <= inq'[m.from][m.to].uTail
      BY <1>c, <3>1, <3>2
    <3> QED BY <3>2, <3>4, <3>5, <3>6
  <2>5. ASSUME NEW d \in Client, ~InGame(d)
        PROVE  sent'[d] = << >> /\ played[d] = << >> /\ xmit'[d] = {}
    <3>1. d # c /\ sent[d] = << >> /\ played[d] = << >> /\ xmit[d] = {}
      BY <1>a, <1>c, <2>5 DEF GameInv
    <3>2. sent'[d] = sent[d] /\ xmit'[d] = xmit[d]
      BY <1>c, <3>1 DEF SendInput, Transmit, TypeOK
    <3> QED BY <3>1, <3>2
  <2> QED BY <2>2, <2>3, <2>4, <2>5
<1>1. ASSUME NEW c \in Client, NEW v \in Pad[c][uFrame[c]],
             ProcessFrame(c, v)
      PROVE  IInv'
  <2>1. /\ v \in Element /\ FrameCalls(iThrottle[c]) \in Nat
        /\ InGame(c) /\ sent[c] \in Seq(Element)
    <3>1. iThrottle[c] \in ThrottleRange /\ eGameState[c] = "PLAY"
      BY <1>1 DEF TypeOK, ProcessFrame, CanProcess
    <3> QED BY <1>a, <3>1, PadType, ThrottleType, CallsType DEF GameInv, TypeOK
  <2>2. ASSUME NEW d \in Client, NEW p \in Client
        PROVE  /\ d # c => inq'[d][p] = inq[d][p]
               /\ d = c => /\ inq'[d][p] = NetQueueDequeue(inq[d][p])
                           /\ NetQueueGetCount(inq[d][p]) # 0
    BY <1>1 DEF ProcessFrame, NetClientIsInputReady, TypeOK
  <2>3. ASSUME NEW p \in Client
        PROVE  /\ HoldsPiece(NetQueueDequeue(inq[c][p]), sent[p])
               /\ NetQueueDequeue(inq[c][p]).uHead = uFrame[c] + 1
               /\ NetQueueDequeue(inq[c][p]).uTail = inq[c][p].uTail
               /\ uFrame[c] + 1 <= Len(sent[p])
               /\ NetQueueFront(inq[c][p]) = sent[p][uFrame[c] + 1]
    <3>1. inq[c][p] \in Queue /\ sent[p] \in Seq(Element)
      BY DEF TypeOK
    <3>2. HoldsPiece(inq[c][p], sent[p]) /\ inq[c][p].uHead = uFrame[c]
      BY <1>a, <2>1 DEF InputInv
    <3> QED BY <2>2, <3>1, <3>2, HoldsPieceDequeue
  <2>4. \A d, p \in Client : inq'[d][p].uTail = inq[d][p].uTail
    BY <2>2, <2>3
  <2>5. /\ game' = game /\ srv' = srv /\ eGameState' = eGameState
        /\ net' = net
        /\ SendInput(c, outq[c], v, FrameCalls(iThrottle[c]), sent[c])
        /\ uFrame' = [uFrame EXCEPT ![c] = @ + 1]
        /\ played' = [played EXCEPT ![c] =
             Append(@, [p \in Client |-> NetQueueFront(inq[c][p])])]
    BY <1>1 DEF ProcessFrame, server
  <2>6. /\ \A p \in Client : /\ sent'[p] \in Seq(Element)
                             /\ Continues(sent'[p], sent[p])
        /\ OutputInv' /\ AckedIsDelivered' /\ PacketInv'
        /\ \A d \in Client : ~InGame(d) =>
             sent'[d] = << >> /\ played[d] = << >> /\ xmit'[d] = {}
    BY <1>c, <2>1, <2>4, <2>5
  <2>7. GameInv'
    <3>1. \A d \in Client : d # c => played'[d] = played[d]
      BY <2>5 DEF TypeOK
    <3> QED BY <1>a, <2>1, <2>5, <2>6, <3>1 DEF GameInv
  <2>8. InputInv'
    <3> SUFFICES ASSUME NEW d \in Client, NEW p \in Client, InGame(d)
                 PROVE  /\ inq'[d][p].uHead = uFrame'[d]
                        /\ HoldsPiece(inq'[d][p], sent'[p])
      BY <2>5 DEF InputInv
    <3>1. /\ inq[d][p] \in Queue /\ inq'[d][p] \in Queue
          /\ sent[p] \in Seq(Element) /\ sent'[p] \in Seq(Element)
      BY DEF TypeOK
    <3>2. inq'[d][p].uHead = uFrame'[d] /\ HoldsPiece(inq'[d][p], sent[p])
      <4>1. CASE d = c
        <5>1. uFrame'[c] = uFrame[c] + 1
          BY <2>5 DEF TypeOK
        <5> QED BY <2>2, <2>3, <4>1, <5>1
      <4>2. CASE d # c
        <5>1. uFrame'[d] = uFrame[d]
          BY <2>5, <4>2 DEF TypeOK
        <5>2. inq[d][p].uHead = uFrame[d] /\ HoldsPiece(inq[d][p], sent[p])
          BY <1>a DEF InputInv
        <5> QED BY <2>2, <4>2, <5>1, <5>2
      <4> QED BY <4>1, <4>2
    <3> QED BY <2>6, <3>1, <3>2, HoldsPieceGrows
  <2>9. PlayedInv'
    <3> SUFFICES ASSUME NEW d \in Client, InGame(d)
                 PROVE  /\ Len(played'[d]) = uFrame'[d]
                        /\ \A p \in Client : \A n \in 1 .. Len(played'[d]) :
                             /\ n <= Len(sent'[p])
                             /\ played'[d][n][p] = sent'[p][n]
      BY <2>5 DEF PlayedInv
    <3>0. /\ played[d] \in Seq([Client -> Element])
          /\ Len(played[d]) = uFrame[d] /\ uFrame[d] \in Nat
          /\ \A p \in Client : \A n \in 1 .. Len(played[d]) :
               n <= Len(sent[p]) /\ played[d][n][p] = sent[p][n]
      <4>1. played[d] \in Seq([Client -> Element])
        BY DEF TypeOK
      <4>2. uFrame[d] \in Nat
        BY DEF TypeOK
      <4> QED BY <1>a, <4>1, <4>2 DEF PlayedInv
    <3>1. ASSUME NEW p \in Client, NEW n \in Nat, 1 <= n, n <= Len(sent[p])
          PROVE  n <= Len(sent'[p]) /\ sent'[p][n] = sent[p][n]
      <4>1. Len(sent[p]) \in Nat /\ Len(sent'[p]) \in Nat
        <5>1. sent[p] \in Seq(Element) /\ sent'[p] \in Seq(Element)
          BY DEF TypeOK
        <5> QED BY <5>1
      <4>2. n \in 1 .. Len(sent[p])
        BY <3>1, <4>1
      <4> QED BY <2>6, <4>1, <4>2 DEF Continues
    <3>2. CASE d # c
      <4>1. played'[d] = played[d] /\ uFrame'[d] = uFrame[d]
        BY <2>5, <3>2 DEF TypeOK
      <4> QED BY <3>0, <3>1, <4>1
    <3>3. CASE d = c
      <4> DEFINE f == [p \in Client |-> NetQueueFront(inq[c][p])]
      <4>1. f \in [Client -> Element]
        <5>1. \A p \in Client : inq[c][p] \in Queue
          BY DEF TypeOK
        <5> QED BY <5>1, CursorType
      <4>2. played'[c] = Append(played[c], f) /\ uFrame'[c] = uFrame[c] + 1
        BY <2>5 DEF TypeOK
      <4>3. \A p \in Client : f[p] = sent[p][uFrame[c] + 1]
                              /\ uFrame[c] + 1 <= Len(sent[p])
        BY <2>3
      <4> HIDE DEF f
      <4>4. Len(played'[c]) = uFrame'[c]
        BY <3>0, <3>3, <4>1, <4>2
      <4>5. ASSUME NEW p \in Client, NEW n \in 1 .. Len(played'[c])
            PROVE  n <= Len(sent'[p]) /\ played'[c][n][p] = sent'[p][n]
        <5>1. CASE n = uFrame[c] + 1
          <6>1. played'[c][n] = f
            BY <3>0, <3>3, <4>1, <4>2, <5>1
          <6>2. n \in Nat /\ 1 <= n /\ n <= Len(sent[p]) /\ f[p] = sent[p][n]
            BY <3>0, <3>3, <4>3, <5>1
          <6> QED BY <3>1, <6>1, <6>2
        <5>2. CASE n # uFrame[c] + 1
          <6>1. n \in 1 .. Len(played[c]) /\ n \in Nat /\ 1 <= n
            BY <3>0, <3>3, <4>2, <4>4, <5>2
          <6>2. played'[c][n] = played[c][n]
            BY <3>0, <3>3, <4>1, <4>2, <6>1
          <6>3. n <= Len(sent[p]) /\ played[c][n][p] = sent[p][n]
            BY <3>0, <3>3, <6>1
          <6> QED BY <3>1, <6>1, <6>2, <6>3
        <5> QED BY <5>1, <5>2
      <4> QED BY <3>3, <4>4, <4>5
    <3> QED BY <3>2, <3>3
  <2> QED BY <2>6, <2>7, <2>8, <2>9 DEF IInv
<1>2. ASSUME NEW c \in Client, NEW v \in Pad[c][uFrame[c]],
             ProcessStall(c, v)
      PROVE  IInv'
  <2>1. /\ v \in Element /\ StallCalls(iThrottle[c]) \in Nat
        /\ InGame(c) /\ sent[c] \in Seq(Element)
    <3>1. iThrottle[c] \in ThrottleRange /\ eGameState[c] = "PLAY"
      BY <1>2 DEF TypeOK, ProcessStall, CanProcess
    <3> QED BY <1>a, <3>1, PadType, ThrottleType, CallsType DEF GameInv, TypeOK
  <2>2. /\ game' = game /\ srv' = srv /\ eGameState' = eGameState
        /\ net' = net /\ inq' = inq /\ uFrame' = uFrame /\ played' = played
        /\ SendInput(c, outq[c], v, StallCalls(iThrottle[c]), sent[c])
    BY <1>2 DEF ProcessStall, server
  <2>3. /\ \A p \in Client : /\ sent'[p] \in Seq(Element)
                             /\ Continues(sent'[p], sent[p])
        /\ OutputInv' /\ AckedIsDelivered' /\ PacketInv'
        /\ \A d \in Client : ~InGame(d) =>
             sent'[d] = << >> /\ played[d] = << >> /\ xmit'[d] = {}
    BY <1>c, <2>1, <2>2
  <2>4. GameInv'
    BY <1>a, <2>1, <2>2, <2>3 DEF GameInv
  <2>5. InputInv'
    <3> SUFFICES ASSUME NEW d \in Client, NEW p \in Client, InGame(d)
                 PROVE  inq[d][p].uHead = uFrame[d]
                        /\ HoldsPiece(inq[d][p], sent'[p])
      BY <2>2 DEF InputInv
    <3>1. /\ inq[d][p] \in Queue
          /\ sent[p] \in Seq(Element) /\ sent'[p] \in Seq(Element)
      BY DEF TypeOK
    <3>2. inq[d][p].uHead = uFrame[d] /\ HoldsPiece(inq[d][p], sent[p])
      BY <1>a DEF InputInv
    <3> QED BY <2>3, <3>1, <3>2, HoldsPieceGrows
  <2>6. PlayedInv'
    <3> SUFFICES ASSUME NEW d \in Client, InGame(d)
                 PROVE  /\ Len(played[d]) = uFrame[d]
                        /\ \A p \in Client : \A n \in 1 .. Len(played[d]) :
                             /\ n <= Len(sent'[p])
                             /\ played[d][n][p] = sent'[p][n]
      BY <2>2 DEF PlayedInv
    <3>1. /\ Len(played[d]) = uFrame[d] /\ Len(played[d]) \in Nat
          /\ \A p \in Client : \A n \in 1 .. Len(played[d]) :
               n <= Len(sent[p]) /\ played[d][n][p] = sent[p][n]
      <4>1. played[d] \in Seq([Client -> Element])
        BY DEF TypeOK
      <4> QED BY <1>a, <4>1 DEF PlayedInv
    <3>2. ASSUME NEW p \in Client, NEW n \in 1 .. Len(played[d])
          PROVE  n <= Len(sent'[p]) /\ played[d][n][p] = sent'[p][n]
      <4>1. sent[p] \in Seq(Element) /\ sent'[p] \in Seq(Element)
        BY DEF TypeOK
      <4>2. n \in 1 .. Len(sent[p])
        BY <3>1, <4>1
      <4> QED BY <2>3, <3>1, <4>1, <4>2 DEF Continues
    <3> QED BY <3>1, <3>2
  <2> QED BY <2>3, <2>4, <2>5, <2>6 DEF IInv
<1>3. ASSUME NEW c \in Client, NEW p \in Client, PeerTransmit(c, p)
      PROVE  IInv'
  <2> DEFINE q     == outq[c][p]
             range == NetQueueFetchRange(q, q.uHead, q.uTail)
             new   == [from |-> c, to |-> p, uAckPos |-> inq[c][p].uTail,
                       uStartPos |-> q.uHead, data |-> range]
  <2>1. /\ UNCHANGED <<srv, game, eGameState, uFrame, inq, outq, sent, played>>
        /\ p \in xmit[c] /\ xmit' = [xmit EXCEPT ![c] = xmit[c] \ {p}]
    BY <1>3 DEF PeerTransmit, server, queues, history
  <2>2. InGame(c) /\ q \in Queue /\ HoldsTail(q, sent[c])
        /\ sent[c] \in Seq(Element)
    BY <1>a, <2>1 DEF GameInv, OutputInv, TypeOK
  <2>3. \/ net' = net
        \/ net' \subseteq net \union {new} /\ Len(range) <= FETCH_MAX
    <3>1. CASE UNCHANGED net
      BY <3>1
    <3>2. CASE Len(range) \in 1 .. FETCH_MAX /\ NetClientSendUDP(new)
      BY <3>2, NetLockstepAssumption DEF NetClientSendUDP
    <3> QED BY <1>3, <3>1, <3>2 DEF PeerTransmit
  <2>4. PacketInv'
    <3> SUFFICES ASSUME NEW m \in net', m \notin net
                 PROVE  /\ InGame(m.from)
                        /\ m.uAckPos <= inq[m.from][m.to].uTail
                        /\ m.uStartPos + Len(m.data) <= Len(sent[m.from])
                        /\ \A i \in 1 .. Len(m.data) :
                             m.data[i] = sent[m.from][m.uStartPos + i]
      BY <1>a, <2>1 DEF PacketInv
    <3>1. m = new /\ Len(range) <= FETCH_MAX
      BY <2>3
    <3>2. Len(range) <= NETQUEUE_SIZE
      <4>1. Len(range) \in Nat
        BY <2>2, FetchAllType
      <4> HIDE DEF range
      <4> QED BY <3>1, <4>1, NetLockstepAssumption, NetQueueAssumption
    <3>3. /\ q.uHead + Len(range) <= Len(sent[c])
          /\ \A i \in 1 .. Len(range) : range[i] = sent[c][q.uHead + i]
      BY <2>2, <3>2, FetchIsPiece
    <3>4. inq[c][p].uTail <= inq[c][p].uTail
      <4>1. inq[c][p] \in Queue
        BY DEF TypeOK
      <4> QED BY <4>1 DEF Queue
    <3> HIDE DEF range, q
    <3> QED BY <2>2, <3>1, <3>3, <3>4
  <2>5. GameInv'
    BY <1>a, <2>1 DEF GameInv, TypeOK
  <2>6. OutputInv' /\ InputInv' /\ AckedIsDelivered' /\ PlayedInv'
    BY <1>a, <2>1 DEF OutputInv, InputInv, AckedIsDelivered, Received, PlayedInv
  <2> QED BY <2>4, <2>5, <2>6 DEF IInv
<1>4. ASSUME NEW m \in net, PeerInputData(m) PROVE IInv'
  <2>1. PICK c \in Client, p \in Client :
          /\ c = m.to /\ p = m.from
          /\ m.uAckPos \in Nat /\ m.uStartPos \in Nat /\ m.data \in Seq(Element)
    BY DEF TypeOK, Packet
  <2>2. /\ outq' = [outq EXCEPT ![c][p] = Acknowledge(outq[c][p], m.uAckPos)]
        /\ inq' = [inq EXCEPT ![c][p] =
                     EnqueueFrom(inq[c][p], m.uStartPos, m.data)]
        /\ eGameState[c] = "PLAY" /\ net' \subseteq net
        /\ UNCHANGED <<srv, game, eGameState, uFrame, xmit, sent, played>>
    BY <1>4, <2>1 DEF PeerInputData, Deliver, server, history
  <2>3. InGame(c) /\ InGame(p)
    BY <1>a, <2>1, <2>2 DEF GameInv, PacketInv
  <2>4. /\ m.uAckPos <= inq[p][c].uTail
        /\ m.uStartPos + Len(m.data) <= Len(sent[p])
        /\ \A i \in 1 .. Len(m.data) : m.data[i] = sent[p][m.uStartPos + i]
    BY <1>a, <2>1 DEF PacketInv
  <2>5. ASSUME NEW d \in Client, NEW r \in Client
        PROVE  /\ inq[d][r] \in Queue /\ outq[d][r] \in Queue
               /\ sent[d] \in Seq(Element)
               /\ ~(d = c /\ r = p) => /\ inq'[d][r] = inq[d][r]
                                       /\ outq'[d][r] = outq[d][r]
    <3>1. /\ inq \in [Client -> [Client -> Queue]]
          /\ outq \in [Client -> [Client -> Queue]]
          /\ sent[d] \in Seq(Element)
      BY DEF TypeOK
    <3>2. ~(d = c /\ r = p) => inq'[d][r] = inq[d][r]
      BY <2>2, <3>1
    <3>3. ~(d = c /\ r = p) => outq'[d][r] = outq[d][r]
      BY <2>2, <3>1
    <3> QED BY <3>1, <3>2, <3>3
  <2>6. /\ inq'[c][p] = EnqueueFrom(inq[c][p], m.uStartPos, m.data)
        /\ outq'[c][p] = Acknowledge(outq[c][p], m.uAckPos)
    BY <2>2 DEF TypeOK
  <2>7. /\ inq'[c][p] \in Queue /\ inq'[c][p].uHead = inq[c][p].uHead
        /\ inq'[c][p].uTail >= inq[c][p].uTail
    <3>1. inq[c][p] \in Queue
      BY <2>5
    <3> QED BY <2>1, <2>6, <3>1, EnqueueFromType
  <2>8. \A d, r \in Client : /\ inq'[d][r].uTail \in Nat /\ inq[d][r].uTail \in Nat
                             /\ inq'[d][r].uTail >= inq[d][r].uTail
    <3> SUFFICES ASSUME NEW d \in Client, NEW r \in Client
                 PROVE  /\ inq'[d][r].uTail \in Nat /\ inq[d][r].uTail \in Nat
                        /\ inq'[d][r].uTail >= inq[d][r].uTail
      OBVIOUS
    <3>1. CASE d = c /\ r = p
      BY <2>5, <2>7, <3>1 DEF Queue
    <3>2. CASE ~(d = c /\ r = p)
      BY <2>5, <3>2 DEF Queue
    <3> QED BY <3>1, <3>2
  <2>9. InputInv'
    <3>1. HoldsPiece(inq'[c][p], sent[p]) /\ inq'[c][p].uHead = uFrame[c]
      <4>1. HoldsPiece(inq[c][p], sent[p]) /\ inq[c][p].uHead = uFrame[c]
        BY <1>a, <2>3 DEF InputInv
      <4>2. inq[c][p] \in Queue /\ sent[p] \in Seq(Element)
        BY <2>5
      <4>3. HoldsPiece(EnqueueFrom(inq[c][p], m.uStartPos, m.data), sent[p])
        BY <2>1, <2>4, <4>1, <4>2, HoldsPieceEnqueue
      <4> QED BY <2>6, <2>7, <4>1, <4>3
    <3> QED BY <1>a, <2>2, <2>5, <3>1 DEF InputInv
  <2>10. /\ outq'[c][p].uTail = outq[c][p].uTail
         /\ outq'[c][p].Elements = outq[c][p].Elements
         /\ \/ outq'[c][p].uHead = outq[c][p].uHead
            \/ /\ outq'[c][p].uHead = m.uAckPos
               /\ m.uAckPos <= outq[c][p].uTail
    BY <2>5, <2>6 DEF Acknowledge, Queue
  <2>11. OutputInv'
    <3>1. HoldsTail(outq'[c][p], sent[c])
      <4>1. HoldsTail(outq[c][p], sent[c])
        BY <1>a, <2>3 DEF OutputInv
      <4> QED BY <2>10, <4>1 DEF HoldsTail
    <3> QED BY <1>a, <2>2, <2>5, <3>1 DEF OutputInv
  <2>12. AckedIsDelivered'
    <3> SUFFICES ASSUME NEW d \in Client, NEW r \in Client, InGame(d)
                 PROVE  outq'[d][r].uHead
                          <= (IF InGame(r) THEN inq'[r][d].uTail ELSE 0)
      BY <2>2 DEF AckedIsDelivered, Received
    <3>1. outq[d][r].uHead <= (IF InGame(r) THEN inq[r][d].uTail ELSE 0)
      BY <1>a DEF AckedIsDelivered, Received
    <3>2. outq[d][r].uHead \in Nat
      BY <2>5 DEF Queue
    <3>3. CASE d = c /\ r = p
      <4>1. inq[p][c].uTail <= inq'[p][c].uTail
            /\ inq[p][c].uTail \in Nat /\ inq'[p][c].uTail \in Nat
        BY <2>8
      <4>2. outq'[c][p].uHead <= inq[p][c].uTail
        BY <2>3, <2>4, <2>10, <3>1, <3>3
      <4>3. outq'[c][p].uHead \in Nat
        BY <2>1, <2>10, <3>2, <3>3
      <4> QED BY <2>3, <3>3, <4>1, <4>2, <4>3
    <3>4. CASE ~(d = c /\ r = p)
      BY <2>5, <2>8, <3>1, <3>2, <3>4
    <3> QED BY <3>3, <3>4
  <2>13. PacketInv'
    <3> SUFFICES ASSUME NEW k \in net
                 PROVE  /\ InGame(k.from)
                        /\ k.uAckPos <= inq'[k.from][k.to].uTail
                        /\ k.uStartPos + Len(k.data) <= Len(sent[k.from])
                        /\ \A i \in 1 .. Len(k.data) :
                             k.data[i] = sent[k.from][k.uStartPos + i]
      BY <2>2 DEF PacketInv
    <3>1. k.from \in Client /\ k.to \in Client /\ k.uAckPos \in Nat
      BY DEF TypeOK, Packet
    <3>2. k.uAckPos <= inq[k.from][k.to].uTail
      BY <1>a DEF PacketInv
    <3>3. k.uAckPos <= inq'[k.from][k.to].uTail
      BY <2>8, <3>1, <3>2
    <3> QED BY <1>a, <3>3 DEF PacketInv
  <2>14. GameInv' /\ PlayedInv'
    BY <1>a, <2>2 DEF GameInv, PlayedInv
  <2> QED BY <2>9, <2>11, <2>12, <2>13, <2>14 DEF IInv
<1>5. ASSUME NEW m \in net, Lose(m) PROVE IInv'
  <2>1. UNCHANGED <<srv, game, eGameState, uFrame, inq, outq, xmit, sent, played>>
        /\ net' \subseteq net
    BY <1>5 DEF Lose, server, queues, history
  <2> QED BY <1>a, <2>1 DEF IInv, GameInv, OutputInv, InputInv, PacketInv,
                            AckedIsDelivered, Received, PlayedInv
<1>6. CASE StartGame
  <2>1. /\ \A c \in Client : /\ eGameState'[c] = "LOADING"
                             /\ ~(game'[c] = srv')
        /\ net' = {} /\ xmit' = [c \in Client |-> {}]
        /\ sent' = [c \in Client |-> << >>]
        /\ played' = [c \in Client |-> << >>]
    BY <1>6 DEF StartGame, TypeOK
  <2> QED BY <2>1 DEF IInv, GameInv, OutputInv, InputInv, PacketInv,
                      AckedIsDelivered, PlayedInv
<1>7. ASSUME NEW c \in Client, RecvStartGame(c) PROVE IInv'
  <2> DEFINE oq == [p \in Client |-> NetQueueReset(outq[c][p], 0)]
  <2>1. /\ game[c] < srv /\ game' = [game EXCEPT ![c] = srv]
        /\ eGameState' = [eGameState EXCEPT ![c] = "PLAY"]
        /\ uFrame' = [uFrame EXCEPT ![c] = 0]
        /\ inq' = [inq EXCEPT ![c] =
                     [p \in Client |-> NetQueueReset(inq[c][p], 0)]]
        /\ SendInput(c, oq, 0, uLatency, << >>)
        /\ UNCHANGED <<srv, net, played>>
    BY <1>7 DEF RecvStartGame
  <2>2. ~InGame(c) /\ sent[c] = << >> /\ played[c] = << >>
    <3>1. game[c] # srv
      BY <2>1 DEF TypeOK
    <3> QED BY <1>a, <3>1 DEF GameInv
  <2>3. PICK n \in 0 .. uLatency :
          /\ Accepted(oq, uLatency, n)
          /\ outq' = [outq EXCEPT ![c] = EnqueueInput(oq, 0, n)]
          /\ sent' = [sent EXCEPT ![c] = << >> \o Copies(0, n)]
    BY <2>1 DEF SendInput, Copies
  <2>x. \A d \in Client : d # c => xmit'[d] = xmit[d]
    <3>1. PICK t : xmit' = [xmit EXCEPT ![c] = t]
      BY <2>1 DEF SendInput, Transmit
    <3> QED BY <3>1 DEF TypeOK
  <2>4. 0 \in Element /\ n \in Nat /\ << >> \in Seq(Element)
        /\ Copies(0, n) \in Seq(Element) /\ uLatency \in Nat
    BY NetQueueAssumption, NetLockstepAssumption, CopiesType
  <2>5. ASSUME NEW d \in Client
        PROVE  /\ sent[d] \in Seq(Element) /\ sent'[d] \in Seq(Element)
               /\ Continues(sent'[d], sent[d])
               /\ d # c => /\ sent'[d] = sent[d] /\ outq'[d] = outq[d]
                           /\ inq'[d] = inq[d] /\ uFrame'[d] = uFrame[d]
                           /\ game'[d] = game[d]
                           /\ eGameState'[d] = eGameState[d]
    <3>1. sent[d] \in Seq(Element) /\ sent'[d] \in Seq(Element)
      BY DEF TypeOK
    <3>2. d # c => /\ sent'[d] = sent[d] /\ outq'[d] = outq[d]
                   /\ inq'[d] = inq[d] /\ uFrame'[d] = uFrame[d]
                   /\ game'[d] = game[d] /\ eGameState'[d] = eGameState[d]
      BY <2>1, <2>3 DEF TypeOK
    <3>3. CASE d = c
      BY <2>2, <3>1, <3>3 DEF Continues
    <3>4. CASE d # c
      BY <3>1, <3>2, <3>4 DEF Continues
    <3> QED BY <3>1, <3>2, <3>3, <3>4
  <2>6. game'[c] = srv /\ uFrame'[c] = 0 /\ sent'[c] = << >> \o Copies(0, n)
    BY <2>1, <2>3 DEF TypeOK
  <2>7. ASSUME NEW p \in Client
        PROVE  /\ HoldsTail(outq'[c][p], sent'[c])
               /\ outq'[c][p].uHead = 0
               /\ HoldsPiece(inq'[c][p], sent'[p])
               /\ inq'[c][p].uHead = 0 /\ inq'[c][p].uTail = 0
    <3>1. outq[c][p] \in Queue /\ inq[c][p] \in Queue
      BY DEF TypeOK
    <3>2. oq[p] = NetQueueReset(outq[c][p], 0) /\ oq[p] \in Queue
      BY <3>1, CursorType
    <3>3. oq \in [Client -> Queue]
      <4>1. \A r \in Client : outq[c][r] \in Queue
        BY DEF TypeOK
      <4>2. 0 \in Nat
        OBVIOUS
      <4>3. \A r \in Client : NetQueueReset(outq[c][r], 0) \in Queue
        BY <4>1, <4>2, CursorType
      <4> QED BY <4>3
    <3>4. HoldsTail(oq[p], << >>) /\ oq[p].uHead = 0
      BY <3>1, <3>2, <2>5, HoldsReset
    <3>5. n = 0 \/ NetQueueGetCount(oq[p]) + n <= NETQUEUE_SIZE
      <4> HIDE DEF oq
      <4> QED BY <2>3, <2>4, <3>3, AcceptedFits
    <3>6. outq'[c][p] = Extend(oq[p], Copies(0, n))
      BY <2>3 DEF EnqueueInput, Copies, TypeOK
    <3>7. inq'[c][p] = NetQueueReset(inq[c][p], 0)
      BY <2>1 DEF TypeOK
    <3>8. sent'[p] \in Seq(Element)
      BY <2>5
    <3> HIDE DEF oq
    <3>9. HoldsTail(outq'[c][p], sent'[c])
      BY <2>4, <2>6, <3>2, <3>4, <3>5, <3>6, HoldsTailExtend
    <3>10. outq'[c][p].uHead = 0
      BY <2>4, <3>2, <3>4, <3>6, ExtendType
    <3>11. /\ HoldsPiece(inq'[c][p], sent'[p])
           /\ inq'[c][p].uHead = 0 /\ inq'[c][p].uTail = 0
      BY <3>1, <3>7, <3>8, HoldsReset
    <3> QED BY <3>9, <3>10, <3>11
  <2>8. GameInv'
    <3>1. ASSUME NEW d \in Client, d # c
          PROVE  /\ eGameState'[d] = "PLAY" => game'[d] = srv'
                 /\ game'[d] # srv' =>
                      sent'[d] = << >> /\ played'[d] = << >> /\ xmit'[d] = {}
      BY <1>a, <2>1, <2>x, <2>5, <3>1 DEF GameInv
    <3> QED BY <2>1, <2>6, <3>1 DEF GameInv
  <2>9. OutputInv'
    BY <1>a, <2>1, <2>5, <2>7 DEF OutputInv
  <2>10. InputInv'
    <3> SUFFICES ASSUME NEW d \in Client, NEW p \in Client, game'[d] = srv
                 PROVE  inq'[d][p].uHead = uFrame'[d]
                        /\ HoldsPiece(inq'[d][p], sent'[p])
      BY <2>1 DEF InputInv
    <3>1. CASE d = c
      BY <2>6, <2>7, <3>1
    <3>2. CASE d # c
      <4>1. inq[d][p] \in Queue
        BY DEF TypeOK
      <4>2. inq[d][p].uHead = uFrame[d] /\ HoldsPiece(inq[d][p], sent[p])
        BY <1>a, <2>5, <3>2 DEF InputInv
      <4>3. HoldsPiece(inq[d][p], sent'[p])
        BY <2>5, <4>1, <4>2, HoldsPieceGrows
      <4> QED BY <2>5, <3>2, <4>2, <4>3
    <3> QED BY <3>1, <3>2
  <2>11. AckedIsDelivered'
    <3> SUFFICES ASSUME NEW d \in Client, NEW p \in Client, game'[d] = srv
                 PROVE  outq'[d][p].uHead
                          <= (IF game'[p] = srv THEN inq'[p][d].uTail ELSE 0)
      BY <2>1 DEF AckedIsDelivered, Received
    <3>1. CASE d = c
      <4>1. inq'[p][c].uTail \in Nat
        BY DEF TypeOK, Queue
      <4> QED BY <2>7, <3>1, <4>1
    <3>2. CASE d # c
      <4>1. outq[d][p].uHead <= (IF game[p] = srv THEN inq[p][d].uTail ELSE 0)
        BY <1>a, <2>5, <3>2 DEF AckedIsDelivered, Received
      <4>2. CASE p = c
        BY <2>2, <2>5, <2>6, <2>7, <3>2, <4>1, <4>2
      <4>3. CASE p # c
        BY <2>5, <3>2, <4>1, <4>3
      <4> QED BY <4>2, <4>3
    <3> QED BY <3>1, <3>2
  <2>12. PacketInv'
    <3>1. ASSUME NEW m \in net PROVE m.from \in Client /\ m.from # c
      BY <1>a, <2>2, <3>1 DEF TypeOK, Packet, PacketInv
    <3> QED BY <1>a, <2>1, <2>5, <3>1 DEF PacketInv
  <2>13. PlayedInv'
    <3> SUFFICES ASSUME NEW d \in Client, game'[d] = srv
                 PROVE  /\ Len(played[d]) = uFrame'[d]
                        /\ \A p \in Client : \A n1 \in 1 .. Len(played[d]) :
                             /\ n1 <= Len(sent'[p])
                             /\ played[d][n1][p] = sent'[p][n1]
      BY <2>1 DEF PlayedInv
    <3>1. CASE d = c
      BY <2>2, <2>6, <3>1
    <3>2. CASE d # c
      <4>1. /\ Len(played[d]) = uFrame[d]
            /\ \A p \in Client : \A n1 \in 1 .. Len(played[d]) :
                 n1 <= Len(sent[p]) /\ played[d][n1][p] = sent[p][n1]
        BY <1>a, <2>5, <3>2 DEF PlayedInv
      <4>2. ASSUME NEW p \in Client, NEW n1 \in 1 .. Len(played[d])
            PROVE  n1 <= Len(sent'[p]) /\ played[d][n1][p] = sent'[p][n1]
        <5>1. sent[p] \in Seq(Element) /\ sent'[p] \in Seq(Element)
          BY <2>5
        <5>2. Len(sent[p]) \in Nat /\ Len(sent'[p]) \in Nat
          BY <5>1
        <5>3. n1 \in 1 .. Len(sent[p])
          BY <4>1, <5>2
        <5> QED BY <2>5, <4>1, <5>2, <5>3 DEF Continues
      <4> QED BY <2>5, <3>2, <4>1, <4>2
    <3> QED BY <3>1, <3>2
  <2> QED BY <2>8, <2>9, <2>10, <2>11, <2>12, <2>13 DEF IInv
<1>8. ASSUME NEW c \in Client, RecvLoadReq(c) PROVE IInv'
  <2>1. UNCHANGED <<srv, game, uFrame, inq, outq, xmit, net, sent, played>>
        /\ eGameState' = [eGameState EXCEPT ![c] = "LOADING"]
    BY <1>8 DEF RecvLoadReq, queues, history
  <2>2. GameInv'
    BY <1>a, <2>1 DEF GameInv, TypeOK
  <2> QED BY <1>a, <2>1, <2>2 DEF IInv, OutputInv, InputInv, PacketInv,
                                  AckedIsDelivered, Received, PlayedInv
<1>9. CASE UNCHANGED vars
  <2>1. UNCHANGED <<srv, game, eGameState, uFrame, inq, outq, xmit, net, sent,
                    played>>
    BY <1>9 DEF vars, server, queues, history
  <2> QED BY <1>a, <2>1 DEF IInv, GameInv, OutputInv, InputInv, PacketInv,
                            AckedIsDelivered, Received, PlayedInv
<1> QED BY <1>1, <1>2, <1>3, <1>4, <1>5, <1>6, <1>7, <1>8, <1>9
        DEF Next, Server, Network, Main, Sending

-----------------------------------------------------------------------------
(***************************************************************************)
(* The theorems.                                                           *)
(***************************************************************************)

\* The invariant holds at the start and is preserved.
THEOREM Invariant == ASSUME DrainOnLoad PROVE Spec => []IInv
<1>1. Init => TypeOK /\ IInv
  <2> SUFFICES ASSUME Init PROVE IInv
    BY InitType
  <2> USE DEF Init
  <2>1. GameInv /\ PacketInv /\ PlayedInv
    BY DEF GameInv, PacketInv, PlayedInv, InGame
  <2>2. OutputInv /\ InputInv
    BY NetQueueAssumption
       DEF OutputInv, InputInv, HoldsTail, HoldsPiece, NetQueueNew
  <2>3. AckedIsDelivered
    BY DEF AckedIsDelivered, Received, InGame, NetQueueNew
  <2> QED BY <2>1, <2>2, <2>3 DEF IInv
<1>2. TypeOK /\ IInv /\ [Next]_vars => (TypeOK /\ IInv)'
  BY TypeStep, InvStep
<1> QED BY <1>1, <1>2, PTL DEF Spec

\* The invariant with the types it is inductive with.
THEOREM InductiveInvHolds == ASSUME DrainOnLoad PROVE Spec => []InductiveInv
<1> QED BY TypeCorrect, Invariant, PTL DEF InductiveInv

\* In lockstep: two clients that have both executed a frame executed it with
\* the same inputs, whatever the network lost, repeated or reordered.
THEOREM LockstepHolds == ASSUME DrainOnLoad PROVE Spec => []Lockstep
<1>1. TypeOK /\ IInv => Lockstep
  <2> SUFFICES ASSUME TypeOK, PlayedInv, GameInv,
                      NEW c \in Client, NEW d \in Client,
                      NEW n \in 1 .. Lesser(Len(played[c]), Len(played[d]))
               PROVE  played[c][n] = played[d][n]
    BY DEF IInv, Lockstep
  <2>1. played[c] \in Seq([Client -> Element])
        /\ played[d] \in Seq([Client -> Element])
    BY DEF TypeOK
  <2>2. n \in 1 .. Len(played[c]) /\ n \in 1 .. Len(played[d])
    BY <2>1 DEF Lesser
  <2>3. InGame(c) /\ InGame(d)
    BY <2>2 DEF GameInv
  <2>4. \A p \in Client : played[c][n][p] = played[d][n][p]
    BY <2>2, <2>3 DEF PlayedInv
  <2>5. played[c][n] \in [Client -> Element]
        /\ played[d][n] \in [Client -> Element]
    BY <2>1, <2>2
  <2> QED BY <2>4, <2>5
<1> QED BY <1>1, TypeCorrect, Invariant, PTL

\* What has been acknowledged has been delivered: a retransmission never
\* starts after the first input its receiver misses.
THEOREM AckedIsDeliveredHolds ==
  ASSUME DrainOnLoad PROVE Spec => []AckedIsDelivered
<1>1. IInv => AckedIsDelivered
  BY DEF IInv
<1> QED BY <1>1, Invariant, PTL

-----------------------------------------------------------------------------
\* A pass of the main loop of c appends to the input of c, and to no other.
LEMMA SendIsPress ==
  \A c \in Client : \A oq : \A v \in Element : \A k \in Nat :
    TypeOK /\ SendInput(c, oq, v, k, sent[c]) => Service!Press(c)
<1> TAKE c \in Client
<1> TAKE oq
<1> TAKE v \in Element
<1> TAKE k \in Nat
<1> HAVE TypeOK /\ SendInput(c, oq, v, k, sent[c])
<1>1. PICK n \in 0 .. k : sent' = [sent EXCEPT ![c] = sent[c] \o Copies(v, n)]
  BY DEF SendInput, Copies
<1>2. sent \in [Client -> Seq(Element)]
  BY DEF TypeOK
<1>3. Continues(sent[c] \o Copies(v, n), sent[c])
  BY <1>2, AppendCopies
<1>4. /\ DOMAIN sent' = Client /\ sent'[c] = sent[c] \o Copies(v, n)
      /\ \A d \in Client \ {c} : sent'[d] = sent[d]
  BY <1>1, <1>2
<1> QED BY <1>3, <1>4 DEF Service!Press, Service!Continues, Continues

\* Every step of the protocol is a step of the shared input streams, or none.
LEMMA RefinementStep ==
  TypeOK /\ IInv /\ [Next]_vars => [Service!Next]_(Service!vars)
<1> SUFFICES ASSUME TypeOK, IInv, [Next]_vars
             PROVE  Service!Next \/ UNCHANGED <<sent, played>>
  BY DEF Service!vars
<1>1. ASSUME NEW c \in Client, NEW v \in Pad[c][uFrame[c]],
             ProcessFrame(c, v)
      PROVE  Service!Next
  <2>1. /\ v \in Element /\ FrameCalls(iThrottle[c]) \in Nat
        /\ InGame(c)
    <3>1. iThrottle[c] \in ThrottleRange /\ eGameState[c] = "PLAY"
      BY <1>1 DEF TypeOK, ProcessFrame, CanProcess
    <3> QED BY <3>1, PadType, ThrottleType, CallsType DEF IInv, GameInv
  <2>2. Service!Press(c)
    <3>1. SendInput(c, outq[c], v, FrameCalls(iThrottle[c]), sent[c])
      BY <1>1 DEF ProcessFrame
    <3>2. PICK k \in Nat : SendInput(c, outq[c], v, k, sent[c])
      BY <2>1, <3>1
    <3> QED BY <2>1, <3>2, SendIsPress DEF SendInput, Transmit, Service!Press
  <2>3. ASSUME NEW p \in Client
        PROVE  /\ Len(played[c]) < Len(sent[p])
               /\ NetQueueFront(inq[c][p]) = sent[p][Len(played[c]) + 1]
    <3>1. /\ inq[c][p] \in Queue /\ sent[p] \in Seq(Element)
          /\ uFrame[c] \in Nat
      BY DEF TypeOK
    <3>2. /\ HoldsPiece(inq[c][p], sent[p]) /\ inq[c][p].uHead = uFrame[c]
          /\ Len(played[c]) = uFrame[c]
      BY <2>1 DEF IInv, InputInv, PlayedInv
    <3>3. NetQueueGetCount(inq[c][p]) # 0
      BY <1>1 DEF ProcessFrame, NetClientIsInputReady
    <3>4. /\ uFrame[c] + 1 <= Len(sent[p])
          /\ NetQueueFront(inq[c][p]) = sent[p][uFrame[c] + 1]
      BY <3>1, <3>2, <3>3, HoldsPieceDequeue
    <3> QED BY <3>1, <3>2, <3>4
  <2>4. [p \in Client |-> NetQueueFront(inq[c][p])]
          = [p \in Client |-> sent[p][Len(played[c]) + 1]]
    BY <2>3
  <2>5. Service!Play(c)
    BY <1>1, <2>3, <2>4 DEF ProcessFrame, Service!Play, Service!Frame
  <2> QED BY <2>2, <2>5 DEF Service!Next, Service!Turn
<1>2. ASSUME NEW c \in Client, NEW v \in Pad[c][uFrame[c]],
             ProcessStall(c, v)
      PROVE  Service!Next
  <2>1. v \in Element /\ StallCalls(iThrottle[c]) \in Nat
    <3>1. iThrottle[c] \in ThrottleRange
      BY DEF TypeOK
    <3> QED BY <3>1, PadType, ThrottleType, CallsType
  <2>2. Service!Press(c)
    <3>1. PICK k \in Nat : SendInput(c, outq[c], v, k, sent[c])
      BY <1>2, <2>1 DEF ProcessStall
    <3> QED BY <2>1, <3>1, SendIsPress DEF SendInput, Transmit, Service!Press
  <2>3. played' = played
    BY <1>2 DEF ProcessStall
  <2> QED BY <2>2, <2>3 DEF Service!Next, Service!Turn
<1>3. CASE StartGame
  BY <1>3 DEF StartGame, Service!Next, Service!Restart, Service!Empty
<1>4. ASSUME NEW c \in Client, RecvStartGame(c) PROVE Service!Next
  <2>1. 0 \in Element /\ uLatency \in Nat
    BY NetQueueAssumption, NetLockstepAssumption
  <2>2. sent[c] = << >>
    <3>1. ~InGame(c)
      BY <1>4 DEF RecvStartGame, InGame, TypeOK
    <3> QED BY <3>1 DEF IInv, GameInv
  <2>3. Service!Press(c)
    <3>1. PICK oq : SendInput(c, oq, 0, uLatency, sent[c])
      BY <1>4, <2>2 DEF RecvStartGame
    <3> QED BY <2>1, <3>1, SendIsPress DEF SendInput, Transmit, Service!Press
  <2>4. played' = played
    BY <1>4 DEF RecvStartGame
  <2> QED BY <2>3, <2>4 DEF Service!Next, Service!Turn
<1>5. ASSUME NEW c \in Client, NEW p \in Client, PeerTransmit(c, p)
      PROVE  UNCHANGED <<sent, played>>
  BY <1>5 DEF PeerTransmit, history
<1>6. ASSUME NEW m \in net, PeerInputData(m) \/ Lose(m)
      PROVE  UNCHANGED <<sent, played>>
  BY <1>6 DEF PeerInputData, Lose, history
<1>7. ASSUME NEW c \in Client, RecvLoadReq(c) PROVE UNCHANGED <<sent, played>>
  BY <1>7 DEF RecvLoadReq, history
<1>8. CASE UNCHANGED vars
  BY <1>8 DEF vars, history
<1> QED BY <1>1, <1>2, <1>3, <1>4, <1>5, <1>6, <1>7, <1>8
        DEF Next, Server, Network, Main, Sending

\* The protocol gives every emulator one shared input stream per player.
THEOREM ImplementsSharedInput == ASSUME DrainOnLoad PROVE Spec => ServiceSpec
<1>1. Init => Service!Init
  BY DEF Init, Service!Init, Service!Empty
<1>2. TypeOK /\ IInv /\ [Next]_vars => [Service!Next]_(Service!vars)
  BY RefinementStep
<1> QED BY <1>1, <1>2, TypeCorrect, Invariant, PTL
        DEF Spec, ServiceSpec, Service!Spec

-----------------------------------------------------------------------------
\* How far the protocol lets clients, cursors and queues drift apart.

\* No throttle pads the input of a client.
NeverPads == \A th \in Throttles : th <= 0

\* A client sends at most one input per frame after the neutral inputs of the
\* start, so that its input and its frames stay the latency apart.
LEMMA PaceStep ==
  NeverPads /\ TypeOK /\ TypeOK' /\ IInv /\ PaceInv /\ [Next]_vars => PaceInv'
<1> SUFFICES ASSUME NeverPads, TypeOK, TypeOK', IInv, PaceInv, [Next]_vars
             PROVE  PaceInv'
  OBVIOUS
<1> USE DEF InGame
<1>a. uLatency \in Nat
  BY NetLockstepAssumption
<1>b. ASSUME NEW c \in Client
      PROVE  /\ iThrottle[c] \in Int /\ iThrottle'[c] \in Int
             /\ sent[c] \in Seq(Element) /\ sent'[c] \in Seq(Element)
             /\ uFrame[c] \in Nat /\ uFrame'[c] \in Nat
  <2>1. iThrottle[c] \in ThrottleRange /\ iThrottle'[c] \in ThrottleRange
    BY DEF TypeOK
  <2> QED BY <2>1, ThrottleType DEF TypeOK
<1>c. ASSUME NEW c \in Client, NEW left \in Int, left <= 0,
             UpdateThrottle(c, left)
      PROVE  \A d \in Client : iThrottle'[d] <= 0
  <2>1. PICK th \in Int : th <= 0 /\ iThrottle' = [iThrottle EXCEPT ![c] = th]
    BY <1>c, NetLockstepAssumption DEF UpdateThrottle, NeverPads
  <2> QED BY <2>1 DEF PaceInv, TypeOK
\* What a pass of c adds to the input of c.
<1>d. ASSUME NEW c \in Client, NEW v \in Element, NEW k \in Nat,
             SendInput(c, outq[c], v, k, sent[c])
      PROVE  /\ Len(sent'[c]) <= Len(sent[c]) + k
             /\ \A d \in Client : d # c => sent'[d] = sent[d]
  <2>1. PICK n \in 0 .. k : sent' = [sent EXCEPT ![c] = sent[c] \o Copies(v, n)]
    BY <1>d DEF SendInput, Copies
  <2>2. sent'[c] = sent[c] \o Copies(v, n)
    BY <2>1 DEF TypeOK
  <2>3. Len(sent[c] \o Copies(v, n)) = Len(sent[c]) + n
    BY <1>b, AppendCopies
  <2> QED BY <1>b, <2>1, <2>2, <2>3 DEF TypeOK
<1>1. ASSUME NEW c \in Client, NEW v \in Pad[c][uFrame[c]],
             ProcessFrame(c, v)
      PROVE  PaceInv'
  <2>1. /\ v \in Element /\ iThrottle[c] <= 0
        /\ FrameCalls(iThrottle[c]) \in Nat /\ FrameCalls(iThrottle[c]) <= 1
        /\ AfterFrame(iThrottle[c]) \in Int /\ AfterFrame(iThrottle[c]) <= 0
    BY <1>b, PadType DEF PaceInv, FrameCalls, AfterFrame
  <2>2. \A d \in Client : iThrottle'[d] <= 0
    BY <1>1, <1>c, <2>1 DEF ProcessFrame
  <2>3. /\ Len(sent'[c]) <= Len(sent[c]) + FrameCalls(iThrottle[c])
        /\ \A d \in Client : d # c => sent'[d] = sent[d]
    BY <1>1, <1>d, <2>1 DEF ProcessFrame
  <2>4. /\ uFrame'[c] = uFrame[c] + 1
        /\ \A d \in Client : d # c => uFrame'[d] = uFrame[d]
        /\ game' = game /\ srv' = srv
    BY <1>1 DEF ProcessFrame, server, TypeOK
  <2>5. ASSUME NEW d \in Client, InGame(d)
        PROVE  Len(sent'[d]) <= uFrame'[d] + uLatency
    <3>1. Len(sent[d]) <= uFrame[d] + uLatency
      BY <2>5 DEF PaceInv
    <3>2. Len(sent[d]) \in Nat /\ Len(sent'[d]) \in Nat
      BY <1>b
    <3>3. CASE d = c
      <4>1. Len(sent'[c]) <= Len(sent[c]) + 1
        BY <2>1, <2>3, <3>2, <3>3
      <4> QED BY <1>a, <1>b, <2>4, <3>1, <3>2, <3>3, <4>1
    <3>4. CASE d # c
      BY <2>3, <2>4, <3>1, <3>4
    <3> QED BY <3>3, <3>4
  <2> QED BY <2>2, <2>4, <2>5 DEF PaceInv
<1>2. ASSUME NEW c \in Client, NEW v \in Pad[c][uFrame[c]],
             ProcessStall(c, v)
      PROVE  PaceInv'
  <2>1. /\ v \in Element /\ StallCalls(iThrottle[c]) = 0
        /\ AfterStall(iThrottle[c]) \in Int /\ AfterStall(iThrottle[c]) <= 0
    BY <1>b, PadType DEF PaceInv, StallCalls, AfterStall
  <2>2. \A d \in Client : iThrottle'[d] <= 0
    BY <1>2, <1>c, <2>1 DEF ProcessStall
  <2>3. /\ Len(sent'[c]) <= Len(sent[c]) + 0
        /\ \A d \in Client : d # c => sent'[d] = sent[d]
    BY <1>2, <1>d, <2>1 DEF ProcessStall
  <2>4. uFrame' = uFrame /\ game' = game /\ srv' = srv
    BY <1>2 DEF ProcessStall, server
  <2>5. ASSUME NEW d \in Client, InGame(d)
        PROVE  Len(sent'[d]) <= uFrame'[d] + uLatency
    <3>1. Len(sent[d]) <= uFrame[d] + uLatency
      BY <2>5 DEF PaceInv
    <3>2. Len(sent[d]) \in Nat /\ Len(sent'[d]) \in Nat
      BY <1>b
    <3>3. Len(sent'[d]) <= Len(sent[d])
      BY <2>3, <3>2
    <3> QED BY <1>a, <1>b, <2>4, <3>1, <3>2, <3>3
  <2> QED BY <2>2, <2>4, <2>5 DEF PaceInv
<1>3. ASSUME NEW c \in Client, NEW p \in Client, PeerTransmit(c, p)
      PROVE  PaceInv'
  BY <1>3 DEF PeerTransmit, PaceInv, server, throttle, history
<1>4. ASSUME NEW m \in net, PeerInputData(m) \/ Lose(m) PROVE PaceInv'
  BY <1>4 DEF PeerInputData, Lose, PaceInv, server, throttle, history
<1>5. CASE StartGame
  <2>1. \A c \in Client : ~(game'[c] = srv') /\ iThrottle'[c] = iThrottle[c]
    BY <1>5 DEF StartGame, TypeOK, throttle
  <2> QED BY <2>1 DEF PaceInv
<1>6. ASSUME NEW c \in Client, RecvStartGame(c) PROVE PaceInv'
  <2>1. 0 \in Element /\ iThrottle' = iThrottle /\ srv' = srv
    BY <1>6, NetQueueAssumption DEF RecvStartGame, throttle
  <2>2. PICK n \in 0 .. uLatency :
          sent' = [sent EXCEPT ![c] = << >> \o Copies(0, n)]
    BY <1>6 DEF RecvStartGame, SendInput, Copies
  <2>3. Len(sent'[c]) <= uLatency
    <3>1. n \in Nat /\ n <= uLatency
      BY <1>a
    <3>2. Len(<< >> \o Copies(0, n)) = n
      BY <2>1, <3>1, CopiesType
    <3>3. sent'[c] = << >> \o Copies(0, n)
      BY <2>2 DEF TypeOK
    <3> QED BY <3>1, <3>2, <3>3
  <2>4. uFrame'[c] = 0
        /\ \A d \in Client : d # c => /\ uFrame'[d] = uFrame[d]
                                      /\ game'[d] = game[d]
                                      /\ sent'[d] = sent[d]
    BY <1>6, <2>2 DEF RecvStartGame, TypeOK
  <2>5. Len(sent'[c]) <= uFrame'[c] + uLatency
    BY <1>a, <2>3, <2>4
  <2> QED BY <2>1, <2>4, <2>5 DEF PaceInv
<1>7. ASSUME NEW c \in Client, RecvLoadReq(c) PROVE PaceInv'
  BY <1>7 DEF RecvLoadReq, PaceInv, throttle, history
<1>8. CASE UNCHANGED vars
  BY <1>8 DEF vars, PaceInv, server, throttle, history
<1> QED BY <1>1, <1>2, <1>3, <1>4, <1>5, <1>6, <1>7, <1>8
        DEF Next, Server, Network, Main, Sending

LEMMA PaceInvariant == ASSUME DrainOnLoad, NeverPads PROVE Spec => []PaceInv
<1>1. Init => PaceInv
  BY NetLockstepAssumption DEF Init, PaceInv, InGame
<1>2. TypeOK /\ TypeOK' /\ IInv /\ PaceInv /\ [Next]_vars => PaceInv'
  BY PaceStep
<1> QED BY <1>1, <1>2, TypeCorrect, Invariant, PTL DEF Spec

\* The number of inputs received of a peer lies between the frame reached and
\* the number the peer has sent.
LEMMA ReceivedBetween ==
  TypeOK /\ IInv => \A c, p \in Client :
    /\ uFrame[c] \in Nat /\ Len(sent[c]) \in Nat /\ inq[c][p].uTail \in Nat
    /\ InGame(c) => uFrame[c] <= inq[c][p].uTail /\ inq[c][p].uTail <= Len(sent[p])
<1> SUFFICES ASSUME TypeOK, InputInv, NEW c \in Client, NEW p \in Client
             PROVE  /\ uFrame[c] \in Nat /\ Len(sent[c]) \in Nat
                    /\ inq[c][p].uTail \in Nat
                    /\ InGame(c) => /\ uFrame[c] <= inq[c][p].uTail
                                    /\ inq[c][p].uTail <= Len(sent[p])
  BY DEF IInv
<1>1. uFrame[c] \in Nat /\ sent[c] \in Seq(Element) /\ inq[c][p] \in Queue
  BY DEF TypeOK
<1>2. inq[c][p].uTail \in Nat
  BY <1>1 DEF Queue
<1> QED BY <1>1, <1>2 DEF InputInv, HoldsPiece

\* No client plays more frames ahead of another than the latency, when no
\* throttle pads.
THEOREM LeadBoundedHolds ==
  ASSUME DrainOnLoad, NeverPads PROVE Spec => []LeadBounded
<1>1. TypeOK /\ IInv /\ PaceInv => LeadBounded
  <2> SUFFICES ASSUME TypeOK, IInv, PaceInv, NEW c \in Client, NEW p \in Client,
                      InGame(c), InGame(p)
               PROVE  uFrame[c] - uFrame[p] <= uLatency
    BY DEF LeadBounded
  <2>1. uFrame[c] <= Len(sent[p]) /\ Len(sent[p]) <= uFrame[p] + uLatency
    BY ReceivedBetween DEF PaceInv
  <2> QED BY <2>1, ReceivedBetween, NetLockstepAssumption
<1> QED BY <1>1, TypeCorrect, Invariant, PaceInvariant, PTL

\* No client sends more than twice the latency ahead of what a peer has
\* received, when no throttle pads.
THEOREM WindowBoundedHolds ==
  ASSUME DrainOnLoad, NeverPads PROVE Spec => []WindowBounded
<1>1. TypeOK /\ IInv /\ PaceInv => WindowBounded
  <2> SUFFICES ASSUME TypeOK, IInv, PaceInv, NEW c \in Client, NEW p \in Client,
                      InGame(c)
               PROVE  Len(sent[c]) - Received(p, c) <= 2 * uLatency
    BY DEF WindowBounded
  <2>1. uFrame[c] <= Len(sent[p]) /\ Len(sent[c]) <= uFrame[c] + uLatency
    BY ReceivedBetween DEF PaceInv
  <2>2. CASE InGame(p)
    <3>1. Len(sent[p]) <= uFrame[p] + uLatency /\ uFrame[p] <= inq[p][c].uTail
      BY <2>2, ReceivedBetween DEF PaceInv
    <3>2. /\ uFrame[c] \in Nat /\ uFrame[p] \in Nat
          /\ Len(sent[c]) \in Nat /\ Len(sent[p]) \in Nat
          /\ inq[p][c].uTail \in Nat /\ uLatency \in Nat
      BY ReceivedBetween, NetLockstepAssumption
    <3>3. Received(p, c) = inq[p][c].uTail
      BY <2>2 DEF Received
    <3>4. /\ uFrame[c] <= uFrame[p] + uLatency
          /\ Len(sent[c]) <= uFrame[c] + uLatency
          /\ uFrame[p] <= inq[p][c].uTail
      BY <2>1, <3>1, <3>2
    <3>5. Len(sent[c]) - inq[p][c].uTail <= 2 * uLatency
      BY ONLY <3>2, <3>4
    <3> QED BY <3>3, <3>5
  <2>3. CASE ~InGame(p)
    <3>1. Len(sent[p]) = 0
      BY <2>3 DEF IInv, GameInv
    <3> QED BY <2>1, <2>3, <3>1, ReceivedBetween, NetLockstepAssumption
            DEF Received
  <2> QED BY <2>2, <2>3
<1> QED BY <1>1, TypeCorrect, Invariant, PaceInvariant, PTL

\* How far ahead clients and their inputs are, when no throttle pads.
THEOREM AheadBoundedHolds ==
  ASSUME DrainOnLoad, NeverPads PROVE Spec => []AheadBounded
<1> QED BY WindowBoundedHolds, LeadBoundedHolds, PTL DEF AheadBounded

-----------------------------------------------------------------------------
\* Whatever arrives, even packets of a game that is over, no cursor of a queue
\* overtakes the other: the count is never negative.
THEOREM CountNonNegativeHolds == Spec => []CountNonNegative
<1>1. Init => CountNonNegative
  BY DEF Init, CountNonNegative, NetQueueGetCount, NetQueueNew
<1>2. TypeOK /\ CountNonNegative /\ [Next]_vars => CountNonNegative'
  <2> SUFFICES ASSUME TypeOK, CountNonNegative, [Next]_vars
               PROVE  CountNonNegative'
    OBVIOUS
  <2>a. ASSUME NEW q \in Queue
        PROVE  /\ NetQueueGetCount(q) \in Int
               /\ NetQueueGetCount(q) >= 0 <=> q.uHead <= q.uTail
    BY DEF NetQueueGetCount, Queue
  <2>b. \A c, p \in Client : /\ inq[c][p] \in Queue /\ outq[c][p] \in Queue
                             /\ NetQueueGetCount(inq[c][p]) >= 0
                             /\ NetQueueGetCount(outq[c][p]) >= 0
    BY DEF TypeOK, CountNonNegative
  <2>c. ASSUME NEW c \in Client, NEW oq \in [Client -> Queue], NEW v \in Element,
               NEW k \in Nat, NEW before,
               \A p \in Client : NetQueueGetCount(oq[p]) >= 0,
               SendInput(c, oq, v, k, before)
        PROVE  \A d, p \in Client : NetQueueGetCount(outq'[d][p]) >= 0
    <3>1. PICK n \in 0 .. k :
            outq' = [outq EXCEPT ![c] =
                       [p \in Client |-> Extend(oq[p], Copies(v, n))]]
      BY <2>c DEF SendInput, EnqueueInput, Copies
    <3>2. ASSUME NEW p \in Client
          PROVE  NetQueueGetCount(Extend(oq[p], Copies(v, n))) >= 0
      <4>1. oq[p] \in Queue /\ n \in Nat /\ NetQueueGetCount(oq[p]) >= 0
        BY <2>c
      <4>2. Copies(v, n) \in Seq(Element) /\ Len(Copies(v, n)) = n
        BY <4>1, CopiesType
      <4>3. /\ Extend(oq[p], Copies(v, n)).uHead = oq[p].uHead
            /\ Extend(oq[p], Copies(v, n)).uTail = oq[p].uTail + n
        BY <4>1, <4>2, ExtendType
      <4> QED BY <4>1, <4>3 DEF NetQueueGetCount, Queue
    <3> QED BY <2>b, <3>1, <3>2 DEF TypeOK
  <2>1. ASSUME NEW c \in Client, NEW v \in Pad[c][uFrame[c]],
               ProcessFrame(c, v)
        PROVE  CountNonNegative'
    <3>1. v \in Element /\ FrameCalls(iThrottle[c]) \in Nat
          /\ outq[c] \in [Client -> Queue]
      <4>1. iThrottle[c] \in ThrottleRange
        BY DEF TypeOK
      <4> QED BY <4>1, PadType, ThrottleType, CallsType DEF TypeOK
    <3>2. \A d, p \in Client : NetQueueGetCount(outq'[d][p]) >= 0
      BY <2>1, <2>b, <2>c, <3>1 DEF ProcessFrame
    <3>3. ASSUME NEW q \in Queue, NetQueueGetCount(q) >= 0
          PROVE  NetQueueGetCount(NetQueueDequeue(q)) >= 0
      BY <3>3 DEF NetQueueGetCount, NetQueueDequeue, Queue
    <3>4. \A d, p \in Client : NetQueueGetCount(inq'[d][p]) >= 0
      BY <2>1, <2>b, <3>3 DEF ProcessFrame, TypeOK
    <3> QED BY <3>2, <3>4 DEF CountNonNegative
  <2>2. ASSUME NEW c \in Client, NEW v \in Pad[c][uFrame[c]],
               ProcessStall(c, v)
        PROVE  CountNonNegative'
    <3>1. v \in Element /\ StallCalls(iThrottle[c]) \in Nat
          /\ outq[c] \in [Client -> Queue]
      <4>1. iThrottle[c] \in ThrottleRange
        BY DEF TypeOK
      <4> QED BY <4>1, PadType, ThrottleType, CallsType DEF TypeOK
    <3>2. \A d, p \in Client : NetQueueGetCount(outq'[d][p]) >= 0
      BY <2>2, <2>b, <2>c, <3>1 DEF ProcessStall
    <3>3. inq' = inq
      BY <2>2 DEF ProcessStall
    <3> QED BY <2>b, <3>2, <3>3 DEF CountNonNegative
  <2>3. ASSUME NEW m \in net, PeerInputData(m) PROVE CountNonNegative'
    <3>1. PICK c \in Client, p \in Client :
            /\ c = m.to /\ p = m.from
            /\ m.uAckPos \in Nat /\ m.uStartPos \in Nat
            /\ m.data \in Seq(Element)
      BY DEF TypeOK, Packet
    <3>2. /\ outq' = [outq EXCEPT ![c][p] = Acknowledge(outq[c][p], m.uAckPos)]
          /\ inq' = [inq EXCEPT ![c][p] =
                       EnqueueFrom(inq[c][p], m.uStartPos, m.data)]
      BY <2>3, <3>1 DEF PeerInputData
    <3>3. NetQueueGetCount(Acknowledge(outq[c][p], m.uAckPos)) >= 0
      BY <2>b, <3>1 DEF Acknowledge, NetQueueGetCount, Queue
    <3>4. NetQueueGetCount(EnqueueFrom(inq[c][p], m.uStartPos, m.data)) >= 0
      <4>1. /\ EnqueueFrom(inq[c][p], m.uStartPos, m.data) \in Queue
            /\ EnqueueFrom(inq[c][p], m.uStartPos, m.data).uHead
                 = inq[c][p].uHead
            /\ EnqueueFrom(inq[c][p], m.uStartPos, m.data).uTail
                 >= inq[c][p].uTail
        BY <2>b, <3>1, EnqueueFromType
      <4> QED BY <2>b, <4>1 DEF NetQueueGetCount, Queue
    <3> QED BY <2>b, <3>2, <3>3, <3>4 DEF CountNonNegative, TypeOK
  <2>4. ASSUME NEW c \in Client, RecvStartGame(c) PROVE CountNonNegative'
    <3> DEFINE oq == [p \in Client |-> NetQueueReset(outq[c][p], 0)]
               iq == [p \in Client |-> NetQueueReset(inq[c][p], 0)]
    <3>1. 0 \in Element /\ uLatency \in Nat /\ 0 \in Nat
      BY NetQueueAssumption, NetLockstepAssumption
    <3>2. ASSUME NEW q \in Queue
          PROVE  NetQueueReset(q, 0) \in Queue
                 /\ NetQueueGetCount(NetQueueReset(q, 0)) >= 0
      <4>1. NetQueueReset(q, 0).uHead = 0 /\ NetQueueReset(q, 0).uTail = 0
        BY DEF NetQueueReset, Queue
      <4>2. NetQueueReset(q, 0) \in Queue
        BY <3>1, CursorType
      <4> QED BY <4>1, <4>2 DEF NetQueueGetCount
    <3>3. /\ oq \in [Client -> Queue]
          /\ \A p \in Client : NetQueueGetCount(oq[p]) >= 0
          /\ \A p \in Client : NetQueueGetCount(iq[p]) >= 0
      BY <2>b, <3>2
    <3>4. SendInput(c, oq, 0, uLatency, << >>) /\ inq' = [inq EXCEPT ![c] = iq]
      BY <2>4 DEF RecvStartGame
    <3> HIDE DEF oq, iq
    <3>5. \A d, p \in Client : NetQueueGetCount(outq'[d][p]) >= 0
      BY <2>c, <3>1, <3>3, <3>4
    <3>6. \A d, p \in Client : NetQueueGetCount(inq'[d][p]) >= 0
      BY <2>b, <3>3, <3>4 DEF TypeOK
    <3> QED BY <3>5, <3>6 DEF CountNonNegative
  <2>5. CASE UNCHANGED queues
    BY <2>5, <2>b DEF queues, CountNonNegative
  <2>6. ASSUME NEW c \in Client,
               (\E p \in Client : PeerTransmit(c, p)) \/ RecvLoadReq(c)
        PROVE  UNCHANGED queues
    BY <2>6 DEF PeerTransmit, RecvLoadReq
  <2>7. ASSUME NEW m \in net, Lose(m) PROVE UNCHANGED queues
    BY <2>7 DEF Lose
  <2>8. CASE StartGame
    BY <2>5, <2>8 DEF StartGame
  <2>9. CASE UNCHANGED vars
    BY <2>5, <2>9 DEF vars
  <2> QED BY <2>1, <2>2, <2>3, <2>4, <2>5, <2>6, <2>7, <2>8, <2>9
          DEF Next, Server, Network, Main, Sending
<1> QED BY <1>1, <1>2, TypeCorrect, PTL DEF Spec
=============================================================================
