----------------------------- MODULE NetLockstep ----------------------------
(***************************************************************************)
(* The lockstep protocol of netplay (Modules/netplay/Source/common/        *)
(* netclient.c): every connected client sends its controller input to      *)
(* every client, itself included, by unreliable UDP, retransmits what has  *)
(* not been acknowledged, and executes a frame only when it holds an input *)
(* of every peer.                                                          *)
(*                                                                         *)
(* Three threads of a client appear, by the actions they take:             *)
(*   main  NetClientProcess, once per pass of the main loop, and the       *)
(*         NetClientTransmit it ends with;                                 *)
(*   tcp   the STARTGAME and LOADREQ messages of the server, and the       *)
(*         NetClientTransmit that STARTGAME ends with;                     *)
(*   udp   the packets of the peers.                                       *)
(* A thread gives up the processor only where it blocks, which these       *)
(* threads do in the send call of each packet: one step is what runs from  *)
(* one send to the next.                                                   *)
(*                                                                         *)
(* A pass of the main loop begins only when no transmit of the client is   *)
(* under way: the pass that overtakes the sends of STARTGAME is left out,  *)
(* as the same packets coming later show its effect.                       *)
(*                                                                         *)
(* The module covers a fixed set of connected clients.  The server's part  *)
(* (it starts a game when every client has loaded it) is the environment.  *)
(* An operator called Faulty is what the code must not do; nothing uses it *)
(* but the runs that show which property would notice.                     *)
(***************************************************************************)
EXTENDS NetQueue, FiniteSets

CONSTANTS
  Client,        \* the connected clients, by peer slot
  Pad,           \* Pad[c][n]: what c may press when n frames have been played
  uLatency,      \* inputs of artificial latency, from STARTGAME
  FETCH_MAX,     \* elements that fit the buffer of _NetClientPeerTransmit (64)
  Throttles,     \* the values _NetClientUpdateThrottle can leave in iThrottle
  Ordered,       \* packets between two clients stay in order, none is repeated
  DrainOnLoad,   \* nothing of a game is still under way when the next starts
  MaxGames,      \* bound: games the server starts
  MaxFrame,      \* bound: frames of a game
  MaxSent,       \* bound: inputs a client sends in a game
  MaxInFlight,   \* bound: packets under way
  MaxOnLink,     \* bound: of these, packets from one client to another
  MaxUpdates     \* bound: changes of a throttle

ASSUME NetLockstepAssumption ==
  /\ Client \subseteq Nat
  /\ Pad \in [Client -> [0 .. MaxFrame -> SUBSET Element]]
  /\ uLatency \in Nat
  /\ FETCH_MAX \in 0 .. NETQUEUE_SIZE
  /\ Throttles \subseteq Int
  /\ Ordered \in BOOLEAN /\ DrainOnLoad \in BOOLEAN
  /\ MaxGames \in Nat /\ MaxFrame \in Nat /\ MaxSent \in Nat
  /\ MaxUpdates \in Nat

VARIABLES
  srv,          \* games the server has started
  game,         \* game[c]: games of which c has handled the STARTGAME
  eGameState,   \* eGameState[c]: LOADING or PLAY
  uFrame,       \* uFrame[c]: frames c has taken the input of
  iThrottle,    \* iThrottle[c]: inputs to skip (< 0) or to pad (> 0)
  inq,          \* inq[c][p]: InputQueue of peer p at client c
  outq,         \* outq[c][p]: OutputQueue of peer p at client c
  xmit,         \* xmit[c]: peers the transmit under way at c has still to serve
  net,          \* packets under way
  updates,      \* bound: changes of a throttle so far
  smashed,      \* clients whose transmit has run past its stack buffer
  sent,         \* history: sent[c], every input c has enqueued in this game
  played        \* history: played[c], every input vector c has dequeued

server == <<srv, game, eGameState>>
queues == <<inq, outq>>
history == <<sent, played>>
throttle == <<iThrottle, updates>>
vars == <<server, uFrame, throttle, queues, xmit, net, smashed, history>>

-----------------------------------------------------------------------------
(***************************************************************************)
(* Packets.  The run-length coding of the data (module NetRunLength) gives *)
(* back the elements it was given, so a packet carries the elements.       *)
(***************************************************************************)
Packet == [from : Client, to : Client, uAckPos : Nat, uStartPos : Nat,
           data : Seq(Element)]

OnLink(c, p) == { m \in net : m.from = c /\ m.to = p }

\* A packet is put under way, or lost when there is no room for it.
NetClientSendUDP(m) ==
  net' = IF /\ Cardinality(net) < MaxInFlight
            /\ Cardinality(OnLink(m.from, m.to)) < MaxOnLink
         THEN net \union {m} ELSE net

\* Between the same clients, a was sent before b: cursors only move forward
\* in a network that keeps order.
SentBefore(a, b) ==
  /\ a.from = b.from /\ a.to = b.to
  /\ a.uAckPos + a.uStartPos + Len(a.data) < b.uAckPos + b.uStartPos + Len(b.data)

\* Packet m is delivered; the network may go on to deliver a second copy.
Deliver(m) ==
  IF Ordered
  THEN (\A k \in net : ~SentBefore(k, m)) /\ net' = net \ {m}
  ELSE net' \in {net, net \ {m}}

-----------------------------------------------------------------------------
(***************************************************************************)
(* Sending.                                                                *)
(***************************************************************************)

\* NetClientCheckOutputLimit(n) on the output queues oq of a client.
CheckOutputLimit(oq, n) == \A p \in Client : NetQueueGetCount(oq[p]) < n

\* The calls to NetClientEnqueueInput that find room everywhere, out of k.
Accepted(oq, k, n) ==
  /\ n \in 0 .. k
  /\ n = 0 \/ CheckOutputLimit(oq, NETQUEUE_SIZE + 1 - n)
  /\ n = k \/ ~CheckOutputLimit(oq, NETQUEUE_SIZE - n)

\* n such calls: the same input to every peer.
EnqueueInput(oq, v, n) ==
  [p \in Client |-> Extend(oq[p], [i \in 1 .. n |-> v])]

\* NetClientTransmit starts: a full queue anywhere stops it for every peer.
\* (A transmit that starts while another of the client is under way takes
\* over what that one has left: each packet says what holds when it is sent.)
Transmit(c, oq) ==
  xmit' = [xmit EXCEPT ![c] =
             IF CheckOutputLimit(oq, NETQUEUE_SIZE) THEN Client ELSE @]

\* A thread of c enqueues v, k times, and begins to transmit.
SendInput(c, oq, v, k, before) ==
  \E n \in 0 .. k :
    /\ Accepted(oq, k, n)
    /\ Len(before) + k <= MaxSent
    /\ outq' = [outq EXCEPT ![c] = EnqueueInput(oq, v, n)]
    /\ sent' = [sent EXCEPT ![c] = before \o [i \in 1 .. n |-> v]]
    /\ Transmit(c, EnqueueInput(oq, v, n))

\* Faulty: a stall sends.
StallCallsAlways(th) == 1

\* The calls of one pass: the input of a frame, unless it is skipped to
\* reduce the latency, and the padding that increases it.
FrameCalls(th) == IF th >= 0 THEN 1 + th ELSE 0
StallCalls(th) == IF th > 0 THEN th ELSE 0

\* What the pass leaves in iThrottle.
AfterFrame(th) == IF th < 0 THEN th + 1 ELSE 0
AfterStall(th) == IF th < 0 THEN th ELSE 0

-----------------------------------------------------------------------------
(***************************************************************************)
(* Main thread: NetClientProcess.                                          *)
(***************************************************************************)

\* Faulty: the input of any peer will do.
AnyInputReady(c) == \E p \in Client : NetQueueGetCount(inq[c][p]) # 0

NetClientIsInputReady(c) == \A p \in Client : NetQueueGetCount(inq[c][p]) # 0

CanProcess(c) ==
  /\ c \notin smashed
  /\ eGameState[c] = "PLAY"
  /\ xmit[c] = {}

\* Every NETPLAY_STATUPDATEFRAMES calls the throttle is set anew, after the
\* calls of this pass have used it up to left.
UpdateThrottle(c, left) ==
  \/ /\ iThrottle' = [iThrottle EXCEPT ![c] = left]
     /\ UNCHANGED updates
  \/ /\ updates < MaxUpdates
     /\ \E th \in Throttles : iThrottle' = [iThrottle EXCEPT ![c] = th]
     /\ updates' = updates + 1

\* An input of every peer is there: it is consumed and the frame is played.
\* A client being throttled back sends no input of its own for this frame.
ProcessFrame(c, v) ==
  /\ CanProcess(c)
  /\ NetClientIsInputReady(c)
  /\ uFrame[c] < MaxFrame
  /\ inq' = [inq EXCEPT ![c] = [p \in Client |-> NetQueueDequeue(@[p])]]
  /\ played' = [played EXCEPT ![c] =
                  Append(@, [p \in Client |-> NetQueueFront(inq[c][p])])]
  /\ uFrame' = [uFrame EXCEPT ![c] = @ + 1]
  /\ SendInput(c, outq[c], v, FrameCalls(iThrottle[c]), sent[c])
  /\ UpdateThrottle(c, AfterFrame(iThrottle[c]))
  /\ UNCHANGED <<server, net, smashed>>

\* A peer's input is missing (or the bound on frames is reached): nothing is
\* consumed, but padding is still sent and everything is retransmitted.
ProcessStall(c, v) ==
  /\ CanProcess(c)
  /\ ~NetClientIsInputReady(c) \/ uFrame[c] = MaxFrame
  /\ SendInput(c, outq[c], v, StallCalls(iThrottle[c]), sent[c])
  /\ UpdateThrottle(c, AfterStall(iThrottle[c]))
  /\ UNCHANGED <<server, uFrame, inq, net, smashed, played>>

\* _NetClientPeerTransmit: everything peer p has not acknowledged, with the
\* acknowledgement of what has come from p.  More than the buffer holds runs
\* past it; nothing is claimed of the client afterwards, so it stops.
PeerTransmit(c, p) ==
  LET q     == outq[c][p]
      range == NetQueueFetchRange(q, q.uHead, q.uTail)
  IN  /\ c \notin smashed
      /\ p \in xmit[c] /\ \A r \in xmit[c] : p <= r
      /\ xmit' = [xmit EXCEPT ![c] = @ \ {p}]
      /\ \/ /\ range = << >>
            /\ UNCHANGED <<net, smashed>>
         \/ /\ Len(range) \in 1 .. FETCH_MAX
            /\ NetClientSendUDP([from |-> c, to |-> p,
                                 uAckPos |-> inq[c][p].uTail,
                                 uStartPos |-> q.uHead, data |-> range])
            /\ UNCHANGED smashed
         \/ /\ Len(range) > FETCH_MAX
            /\ smashed' = smashed \union {c}
            /\ UNCHANGED net
      /\ UNCHANGED <<server, uFrame, throttle, queues, history>>

-----------------------------------------------------------------------------
(***************************************************************************)
(* UDP thread.                                                             *)
(***************************************************************************)

\* Faulty: any packet acknowledges everything.
AcknowledgeAll(q, uAckPos) == [q EXCEPT !.uHead = q.uTail]

\* The acknowledgement of a packet moves the head of the output queue, also
\* backwards when packets overtake one another.
Acknowledge(q, uAckPos) ==
  IF uAckPos <= q.uTail THEN [q EXCEPT !.uHead = uAckPos] ELSE q

\* _NetClientSocketReadUDP and _NetClientPeerInputData: the acknowledgement,
\* then the elements that continue the input queue of the peer.
PeerInputData(m) ==
  LET c == m.to
      p == m.from
  IN  /\ c \notin smashed
      /\ eGameState[c] = "PLAY"
      /\ outq' = [outq EXCEPT ![c][p] = Acknowledge(@, m.uAckPos)]
      /\ inq' = [inq EXCEPT ![c][p] = EnqueueFrom(@, m.uStartPos, m.data)]
      /\ Deliver(m)
      /\ UNCHANGED <<server, uFrame, throttle, xmit, smashed, history>>

\* A packet is lost, or comes to a client that is not playing and is dropped.
Lose(m) ==
  /\ net' = net \ {m}
  /\ UNCHANGED <<server, uFrame, throttle, queues, xmit, smashed, history>>

-----------------------------------------------------------------------------
(***************************************************************************)
(* The server's messages.                                                  *)
(***************************************************************************)

\* Every client has acknowledged the load: the server broadcasts STARTGAME.
\* Loading takes seconds; DrainOnLoad says that by now the packets of the
\* game before are gone and no transmit of it is still in its loop.
StartGame ==
  /\ srv < MaxGames
  /\ \A c \in Client : eGameState[c] = "LOADING" /\ game[c] = srv
  /\ srv' = srv + 1
  /\ IF DrainOnLoad
     THEN net' = {} /\ xmit' = [c \in Client |-> {}]
     ELSE UNCHANGED <<net, xmit>>
  /\ sent' = [c \in Client |-> << >>]
  /\ played' = [c \in Client |-> << >>]
  /\ UNCHANGED <<game, eGameState, uFrame, throttle, queues, smashed>>

\* TCP thread: STARTGAME.  Every queue restarts at uSeqNum, which is always 0,
\* and the artificial latency goes out as uLatency neutral inputs.
RecvStartGame(c) ==
  LET fresh(q) == NetQueueReset(q, 0)
  IN  /\ c \notin smashed
      /\ game[c] < srv
      /\ game' = [game EXCEPT ![c] = srv]
      /\ eGameState' = [eGameState EXCEPT ![c] = "PLAY"]
      /\ uFrame' = [uFrame EXCEPT ![c] = 0]
      /\ inq' = [inq EXCEPT ![c] = [p \in Client |-> fresh(@[p])]]
      /\ SendInput(c, [p \in Client |-> fresh(outq[c][p])], 0,
                   uLatency, << >>)
      /\ UNCHANGED <<srv, throttle, net, smashed, played>>

\* TCP thread: LOADREQ, another game has been chosen.
RecvLoadReq(c) ==
  /\ c \notin smashed
  /\ srv \in 1 .. MaxGames - 1
  /\ game[c] = srv /\ eGameState[c] = "PLAY"
  /\ eGameState' = [eGameState EXCEPT ![c] = "LOADING"]
  /\ UNCHANGED <<srv, game, uFrame, throttle, queues, xmit, net, smashed,
                 history>>

-----------------------------------------------------------------------------
\* Every client is connected and has loaded the first game.
Init ==
  /\ srv = 0
  /\ game = [c \in Client |-> 0]
  /\ eGameState = [c \in Client |-> "LOADING"]
  /\ uFrame = [c \in Client |-> 0]
  /\ iThrottle = [c \in Client |-> 0]
  /\ inq = [c \in Client |-> [p \in Client |-> NetQueueNew]]
  /\ outq = [c \in Client |-> [p \in Client |-> NetQueueNew]]
  /\ xmit = [c \in Client |-> {}]
  /\ net = {}
  /\ updates = 0
  /\ smashed = {}
  /\ sent = [c \in Client |-> << >>]
  /\ played = [c \in Client |-> << >>]

Main(c) ==
  \/ \E v \in Pad[c][uFrame[c]] : ProcessFrame(c, v)
  \/ \E v \in Pad[c][uFrame[c]] : ProcessStall(c, v)

Sending(c) == \E p \in Client : PeerTransmit(c, p)

Server ==
  \/ StartGame
  \/ \E c \in Client : RecvStartGame(c)
  \/ \E c \in Client : RecvLoadReq(c)

Network ==
  \/ \E m \in net : PeerInputData(m)
  \/ \E m \in net : Lose(m)

Next == Server \/ Network \/ \E c \in Client : Main(c) \/ Sending(c)

Spec == Init /\ [][Next]_vars

(***************************************************************************)
(* Fairness.  The main loop runs once per vertical blank and a thread in a *)
(* send returns from it; the TCP messages of the server arrive; and a link *)
(* on which packets keep being sent delivers one of them again and again.  *)
(***************************************************************************)
Fairness ==
  /\ WF_vars(StartGame)
  /\ \A c \in Client :
       /\ WF_vars(RecvStartGame(c))
       /\ WF_vars(Main(c))
       /\ WF_vars(Sending(c))
       /\ \A p \in Client : SF_vars(\E m \in OnLink(p, c) : PeerInputData(m))

FairSpec == Spec /\ Fairness

-----------------------------------------------------------------------------
(***************************************************************************)
(* Properties.                                                             *)
(***************************************************************************)

\* c has handled the latest STARTGAME.
InGame(c) == game[c] = srv

\* The positions p has received of what c has sent in this game.
Received(p, c) == IF InGame(p) THEN inq[p][c].uTail ELSE 0

\* What a throttle counts through on its way to 0.
ThrottleRange == {0} \union Throttles \union
                 { t \in Int : t < 0 /\ \E th \in Throttles : th <= t }

\* Type correctness: cursors stay natural numbers, a throttle counts to 0 and
\* stops there, a packet carries input.
TypeOK ==
  /\ srv \in 0 .. MaxGames
  /\ game \in [Client -> 0 .. MaxGames]
  /\ eGameState \in [Client -> {"LOADING", "PLAY"}]
  /\ uFrame \in [Client -> 0 .. MaxFrame]
  /\ iThrottle \in [Client -> ThrottleRange]
  /\ updates \in 0 .. MaxUpdates
  /\ inq \in [Client -> [Client -> Queue]]
  /\ outq \in [Client -> [Client -> Queue]]
  /\ xmit \in [Client -> SUBSET Client]
  /\ net \subseteq Packet
  /\ smashed \subseteq Client
  /\ sent \in [Client -> Seq(Element)]
  /\ played \in [Client -> Seq([Client -> Element])]

\* Lockstep: two clients that have both executed frame n executed it with the
\* same inputs, whatever the network lost, repeated or reordered.
Lockstep ==
  \A c, d \in Client :
    \A n \in 1 .. Lesser(Len(played[c]), Len(played[d])) :
      played[c][n] = played[d][n]

\* What the head of an output queue has moved past has reached its receiver:
\* a retransmission never starts after the first input still missing.
AckedIsDelivered ==
  \A c, p \in Client : InGame(c) => outq[c][p].uHead <= Received(p, c)

\* No client sends further ahead of what a peer has received than twice the
\* latency, whatever acknowledgements are lost or late (without padding).
\* With packets in order this is also the length of an output queue.
WindowBounded ==
  \A c, p \in Client :
    InGame(c) => Len(sent[c]) - Received(p, c) <= 2 * uLatency

\* No client plays more frames ahead of another than the latency.
LeadBounded ==
  \A c, p \in Client :
    InGame(c) /\ InGame(p) => uFrame[c] - uFrame[p] <= uLatency

\* However packets and acknowledgements are delayed, no client is ahead of
\* another by more than the latency allows, in frames and in what it sends
\* (NetClientIsInputReady, _NetClientPeerTransmit).
AheadBounded == WindowBounded /\ LeadBounded

\* netqueue.c:25, "this should never be < 0".
CountNonNegative ==
  \A c, p \in Client :
    NetQueueGetCount(inq[c][p]) >= 0 /\ NetQueueGetCount(outq[c][p]) >= 0

\* netqueue.c:85, "dont overflow buffer".
FetchFits == smashed = {}

\* Every client plays every frame of a game that is started, as long as the
\* links deliver.
FramesAdvance == \A c \in Client : <>(uFrame[c] = MaxFrame)

\* The lockstep protocol implements one shared input stream per player.
Service == INSTANCE SharedInput WITH input <- sent, played <- played

ServiceSpec == Service!Spec

-----------------------------------------------------------------------------
(***************************************************************************)
(* The inductive invariant behind the safety properties, in parts.  It     *)
(* speaks of the clients that are in the latest game.                      *)
(***************************************************************************)
\* Only a client that has handled the latest STARTGAME plays; one that has
\* not has sent nothing and has no transmit under way.
GameInv ==
  \A c \in Client :
    /\ eGameState[c] = "PLAY" => InGame(c)
    /\ ~InGame(c) => sent[c] = << >> /\ played[c] = << >> /\ xmit[c] = {}

\* The queue q ends where the input s does, and the last NETQUEUE_SIZE inputs
\* are in their slots: also the acknowledged ones, which a head that moves
\* back sends again.
HoldsTail(q, s) ==
  /\ q.uTail = Len(s)
  /\ q.uHead <= q.uTail
  /\ \A pos \in 0 .. q.uTail - 1 :
       q.uTail <= pos + NETQUEUE_SIZE => q.Elements[Slot(pos)] = s[pos + 1]

\* The queue q holds a piece of the input s that fits the ring.
HoldsPiece(q, s) ==
  /\ q.uHead <= q.uTail
  /\ q.uTail <= Len(s)
  /\ q.uTail <= q.uHead + NETQUEUE_SIZE
  /\ \A pos \in q.uHead .. q.uTail - 1 : q.Elements[Slot(pos)] = s[pos + 1]

\* Every output queue of a client ends where its input does.
OutputInv ==
  \A c, p \in Client : InGame(c) => HoldsTail(outq[c][p], sent[c])

\* An input queue holds what its peer has sent from the frame reached on.
InputInv ==
  \A c, p \in Client :
    InGame(c) => inq[c][p].uHead = uFrame[c] /\ HoldsPiece(inq[c][p], sent[p])

\* A packet under way is a piece of its sender's input, and acknowledges no
\* more than its sender has received.
PacketInv ==
  \A m \in net :
    /\ InGame(m.from)
    /\ m.uAckPos <= inq[m.from][m.to].uTail
    /\ m.uStartPos + Len(m.data) <= Len(sent[m.from])
    /\ \A i \in 1 .. Len(m.data) : m.data[i] = sent[m.from][m.uStartPos + i]

\* What a client has played is the input of every player, frame by frame.
PlayedInv ==
  \A c \in Client :
    InGame(c) =>
      /\ Len(played[c]) = uFrame[c]
      /\ \A p \in Client : \A n \in 1 .. Len(played[c]) :
           n <= Len(sent[p]) /\ played[c][n][p] = sent[p][n]

\* A client never runs further ahead of its own frames than the latency, as
\* long as no throttle pads.
PaceInv ==
  \A c \in Client :
    /\ iThrottle[c] <= 0
    /\ InGame(c) => Len(sent[c]) <= uFrame[c] + uLatency

IInv == /\ GameInv /\ OutputInv /\ InputInv /\ AckedIsDelivered
        /\ PacketInv /\ PlayedInv

\* What every step of the protocol keeps, the types of its state included
\* (netclient.c, NetClientProcess and the handlers of its packets).
InductiveInv == TypeOK /\ IInv
=============================================================================
