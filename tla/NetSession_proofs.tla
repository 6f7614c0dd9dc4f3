------------------------- MODULE NetSession_proofs --------------------------
(***************************************************************************)
(* The netplay session, for every number of slots, of games, of requests,  *)
(* of clients that come and of clients that go.                            *)
(***************************************************************************)
EXTENDS NetSession, SequenceTheorems, TLAPS

\* What is sent, and what a thread may be told to do.
LEMMA MessageTypes ==
  /\ \A t \in {"HELLO", "OK", "ERROR", "CLOSE"} : Message(t) \in UpMessage
  /\ \A t \in {"HELLO", "STARTGAME"} : Message(t) \in DownMessage
  /\ \A g \in Game \union {None} : LoadReq(g) \in UpMessage /\ LoadReq(g) \in DownMessage
  /\ Reading \in JobType /\ UnloadGame \in JobType
  /\ \A t \in {"LoadAck", "LoadError", "Abort"} : Job(t, {}, None) \in JobType
  /\ \A g \in Game \union {None} : Job("LoadGame", Client, g) \in JobType
  /\ Job("StartGame", Client, None) \in JobType
BY DEF UpMessage, DownMessage, JobType, Message, LoadReq, Reading, Job, UnloadGame

\* A queue is left of its type, and as it was but for what is read or sent.
LEMMA QueueTypes ==
  ASSUME NEW S, NEW q \in [Client -> Seq(S)], NEW c \in Client
  PROVE  /\ q[c] # << >> => /\ Head(q[c]) \in S
                            /\ [q EXCEPT ![c] = Tail(@)] \in [Client -> Seq(S)]
         /\ \A m \in S : [q EXCEPT ![c] = Append(@, m)] \in [Client -> Seq(S)]
         /\ \A s \in Seq(S) : [q EXCEPT ![c] = s] \in [Client -> Seq(S)]
<1>1. q[c] \in Seq(S)
  OBVIOUS
<1> QED BY <1>1, HeadTailProperties, AppendProperties

\* The fields of messages and jobs.
LEMMA Fields ==
  /\ \A m \in UpMessage : m.game \in Game \union {None}
  /\ \A m \in DownMessage : m.game \in Game \union {None}
  /\ \A j \in JobType : /\ j.game \in Game \union {None}
                        /\ \A s \in SUBSET Client : [j EXCEPT !.todo = s] \in JobType
BY DEF UpMessage, DownMessage, JobType

LEMMA TypeStep == TypeOK /\ SessionInv /\ [Next]_vars => TypeOK'
<1> SUFFICES ASSUME TypeOK, SessionInv, [Next]_vars PROVE TypeOK'
  OBVIOUS
<1>1. ASSUME NEW c \in Client, RecvClientHello(c) PROVE TypeOK'
  BY <1>1, MessageTypes, QueueTypes, Fields DEF RecvClientHello, Read, TypeOK, client, bounds, GameState
<1>2. ASSUME NEW c \in Client, RecvLoadReq(c) PROVE TypeOK'
  BY <1>2, MessageTypes, QueueTypes, Fields DEF RecvLoadReq, Read, TypeOK, client, bounds
<1>3. ASSUME NEW c \in Client, RecvClose(c) PROVE TypeOK'
  BY <1>3, MessageTypes, QueueTypes, Fields DEF RecvClose, Read, TypeOK, client, bounds
<1>4. ASSUME NEW c \in Client, NEW t, NEW what \in {"LoadAck", "LoadError"},
             RecvLoadAck(c, t, what) PROVE TypeOK'
  BY <1>4, MessageTypes, QueueTypes, Fields DEF RecvLoadAck, Read, TypeOK, client, bounds
<1>5. ASSUME NEW c \in Client, Send(c) PROVE TypeOK'
  <2> DEFINE m == IF job[c].does = "StartGame" THEN Message("STARTGAME")
                  ELSE LoadReq(job[c].game)
  <2>1. PICK d \in Client :
          /\ down' = [down EXCEPT ![d] =
                        IF eStatus[d] = "IDLE" THEN @ ELSE Append(@, m)]
          /\ job' = [job EXCEPT ![c].todo = { e \in @ : e > d }]
    BY <1>5 DEF Send, Connected
  <2>2. job[c] \in JobType /\ { e \in job[c].todo : e > d } \in SUBSET Client
    BY DEF TypeOK, JobType
  <2>3. job' \in [Client -> JobType]
    BY <2>1, <2>2, Fields DEF TypeOK
  <2>4. m \in DownMessage
    BY <2>2, MessageTypes, Fields
  <2>5. down' \in [Client -> Seq(DownMessage)]
    <3>1. down \in [Client -> Seq(DownMessage)] /\ down[d] \in Seq(DownMessage)
      BY DEF TypeOK
    <3> HIDE DEF m
    <3>2. Append(down[d], m) \in Seq(DownMessage)
      BY <3>1, <2>4, AppendProperties
    <3> QED BY <2>1, <3>1, <3>2
  <2> QED BY <1>5, <2>3, <2>5 DEF Send, TypeOK, client, bounds
<1>6. ASSUME NEW c \in Client, NEW what, NEW state \in GameState,
             FinishBroadcast(c, what, state) PROVE TypeOK'
  BY <1>6, MessageTypes DEF FinishBroadcast, SetGameState, TypeOK, client, bounds
<1>7. ASSUME NEW c \in Client, FinishLoadAck(c) PROVE TypeOK'
  <2>1. sClientState' = [sClientState EXCEPT ![c] = "LOADED"]
    BY <1>7 DEF FinishLoadAck
  <2>2. sGameState' \in {"LOADED", sGameState}
    BY <1>7 DEF FinishLoadAck
  <2>3. \E j \in JobType : job' = [job EXCEPT ![c] = j]
    BY <1>7, MessageTypes DEF FinishLoadAck
  <2>4. UNCHANGED <<sock, ghost, up, down, client>>
    BY <1>7 DEF FinishLoadAck
  <2>5. /\ sGameState' \in GameState
        /\ sClientState' \in [Client -> GameState]
        /\ job' \in [Client -> JobType]
    BY <2>1, <2>2, <2>3 DEF TypeOK, GameState
  <2> QED BY <2>4, <2>5 DEF TypeOK, client
<1>8. ASSUME NEW c \in Client, FinishLoadError(c) PROVE TypeOK'
  <2>1. \E j \in JobType : job' = [job EXCEPT ![c] = j]
    BY <1>8, MessageTypes DEF FinishLoadError
  <2>2. job' \in [Client -> JobType]
    BY <2>1 DEF TypeOK
  <2>3. UNCHANGED <<sGameState, sClientState, sock, ghost, up, down, client>>
    BY <1>8 DEF FinishLoadError
  <2> QED BY <2>2, <2>3 DEF TypeOK, client
<1>9. ASSUME NEW c \in Client, FinishAbort(c) \/ FinishGhost(c) PROVE TypeOK'
  <2>1. \E j \in JobType : job' = [job EXCEPT ![c] = j]
    BY <1>9, MessageTypes DEF FinishAbort, FinishGhost, TypeOK
  <2>2. Abort(c) /\ ghost' \subseteq ghost
    BY <1>9 DEF FinishAbort, FinishGhost
  <2>3. /\ sClientState' \in [Client -> GameState]
        /\ sGameState' \in GameState
        /\ sock' \in [Client -> {"INVALID", "CONNECTED", "DISCONNECTING"}]
        /\ UNCHANGED <<up, down, client>>
    BY <2>2 DEF Abort, Abandoned, TypeOK, GameState
  <2>4. job' \in [Client -> JobType]
    BY <2>1 DEF TypeOK
  <2> QED BY <2>2, <2>3, <2>4 DEF TypeOK, client
<1>10. ASSUME NEW c \in Client, Accept(c) PROVE TypeOK'
  <2>1. << Message("HELLO") >> \in Seq(UpMessage) /\ << >> \in Seq(DownMessage)
    BY MessageTypes
  <2>2. up' \in [Client -> Seq(UpMessage)] /\ down' \in [Client -> Seq(DownMessage)]
    BY <1>10, <2>1 DEF Accept, TypeOK
  <2>3. loading[c] = None
    BY <1>10 DEF Accept, SessionInv, Attended
  <2> QED BY <1>10, <2>2, <2>3, MessageTypes DEF Accept, TypeOK
<1>11. ASSUME NEW c \in Client, ClientThread(c) PROVE TypeOK'
  <2>1. ASSUME NEW t, Hear(c, t)
        PROVE  down' \in [Client -> Seq(DownMessage)] /\ Head(down[c]).game \in Game \union {None}
    BY <2>1, QueueTypes, Fields DEF Hear, TypeOK
  <2>2. CASE RecvServerHello(c)
    BY <2>1, <2>2 DEF RecvServerHello, TypeOK, server, bounds
  <2>3. CASE RecvLoad(c)
    BY <2>1, <2>3 DEF RecvLoad, TypeOK, server, bounds
  <2>4. CASE RecvUnload(c)
    BY <2>1, <2>4 DEF RecvUnload, Hear, TypeOK, server, bounds
  <2>5. CASE RecvStartGame(c)
    BY <2>1, <2>5 DEF RecvStartGame, Hear, TypeOK, server, bounds
  <2>6. ASSUME NEW ok \in BOOLEAN, Load(c, ok) PROVE TypeOK'
    <3>1. up' \in [Client -> Seq(UpMessage)]
      BY <2>6, MessageTypes, QueueTypes DEF Load, TypeOK
    <3>2. rom' \in [Client -> Game \union {None}]
      BY <2>6 DEF Load, TypeOK
    <3> QED BY <2>6, <3>1, <3>2 DEF Load, TypeOK, server, bounds
  <2> QED BY <1>11, <2>2, <2>3, <2>4, <2>5, <2>6 DEF ClientThread
<1>12. ASSUME NEW c \in Client, Player(c) PROVE TypeOK'
  <2>1. up' \in [Client -> Seq(UpMessage)]
    <3>1. \A m \in UpMessage : [up EXCEPT ![c] = Append(@, m)] \in [Client -> Seq(UpMessage)]
      BY QueueTypes DEF TypeOK
    <3>2. \E m \in UpMessage : up' = [up EXCEPT ![c] = Append(@, m)]
      BY <1>12, MessageTypes DEF Player, Disconnect, ChooseGame
    <3> QED BY <3>1, <3>2
  <2>2. CASE Disconnect(c)
    <3>1. << >> \in Seq(DownMessage)
      OBVIOUS
    <3>2. down' \in [Client -> Seq(DownMessage)]
      BY <2>2, <3>1 DEF Disconnect, TypeOK
    <3> QED BY <2>1, <2>2, <3>2 DEF Disconnect, TypeOK, server
  <2>3. CASE \E g \in Game : ChooseGame(c, g)
    BY <2>1, <2>3 DEF ChooseGame, TypeOK, server, client
  <2> QED BY <1>12, <2>2, <2>3 DEF Player
<1>13. CASE UNCHANGED vars
  BY <1>13 DEF vars, server, client, bounds, TypeOK
<1>14. CASE Next
  <2>1. PICK c \in Client : ServerThread(c) \/ FinishGhost(c) \/ Accept(c) \/ ClientThread(c)
                            \/ Player(c)
    BY <1>14 DEF Next
  <2>2. CASE ServerThread(c)
    <3>1. /\ "LoadAck" \in {"LoadAck", "LoadError"} /\ "LoadError" \in {"LoadAck", "LoadError"}
          /\ "IDLE" \in GameState /\ "LOADING" \in GameState /\ "PLAY" \in GameState
      BY DEF GameState
    <3>2. CASE RecvLoadAck(c, "OK", "LoadAck") \/ RecvLoadAck(c, "ERROR", "LoadError")
      BY <3>1, <3>2, <1>4
    <3>3. CASE \/ FinishBroadcast(c, "LoadGame", "LOADING")
               \/ FinishBroadcast(c, "UnloadGame", "IDLE")
               \/ FinishBroadcast(c, "StartGame", "PLAY")
      BY <3>1, <3>3, <1>6
    <3> QED BY <2>2, <3>2, <3>3, <1>1, <1>2, <1>3, <1>5, <1>7, <1>8, <1>9 DEF ServerThread
  <2> QED BY <2>1, <2>2, <1>9, <1>10, <1>11, <1>12
<1> QED BY <1>13, <1>14
-----------------------------------------------------------------------------
\* A CLOSE stays the last message until it is read, and is sent as the last.
LEMMA ClosedStays ==
  ASSUME NEW q \in Seq(UpMessage)
  PROVE  /\ Closed(q) /\ Head(q).type # "CLOSE" => Closed(Tail(q))
         /\ Closed(q) => q # << >>
         /\ Closed(Append(q, Message("CLOSE")))
<1>1. ASSUME Closed(q), Head(q).type # "CLOSE" PROVE Closed(Tail(q))
  <2>1. q # << >> /\ Head(q) = q[1] /\ Len(q) # 1 /\ Len(q) \in Nat \ {0}
    BY <1>1, EmptySeq DEF Closed
  <2>2. /\ Tail(q) \in Seq(UpMessage) /\ Len(Tail(q)) = Len(q) - 1
        /\ \A i \in 1 .. Len(q) - 1 : Tail(q)[i] = q[i + 1]
    BY <2>1, HeadTailProperties
  <2>3. Len(q) - 1 \in 1 .. Len(q) - 1
    <3>1. \A n \in Nat : n # 0 /\ n # 1 => n - 1 \in 1 .. n - 1
      OBVIOUS
    <3> QED BY <2>1, <3>1
  <2>4. Tail(q)[Len(Tail(q))] = q[Len(q)] /\ Len(Tail(q)) # 0
    BY <2>1, <2>2, <2>3
  <2>5. Tail(q) # << >>
    BY <2>2, <2>4, EmptySeq
  <2>6. q[Len(q)].type = "CLOSE"
    BY <1>1 DEF Closed
  <2> QED BY <2>4, <2>5, <2>6 DEF Closed
<1>2. Closed(Append(q, Message("CLOSE")))
  BY AppendProperties DEF Closed, Message
<1> QED BY <1>1, <1>2 DEF Closed

LEMMA SessionStep == TypeOK /\ SessionInv /\ [Next]_vars => SessionInv'
<1> SUFFICES ASSUME TypeOK, SessionInv, [Next]_vars, NEW d \in Client PROVE Attended(d)'
  BY DEF SessionInv
<1>a. /\ Attended(d) /\ up[d] \in Seq(UpMessage) /\ down[d] \in Seq(DownMessage)
      /\ job[d] \in JobType
  BY DEF SessionInv, TypeOK
<1>b. job \in [Client -> JobType] /\ up \in [Client -> Seq(UpMessage)]
      /\ down \in [Client -> Seq(DownMessage)] /\ eStatus \in [Client -> {"IDLE", "CONNECTING", "CONNECTED"}]
      /\ sock \in [Client -> {"INVALID", "CONNECTED", "DISCONNECTING"}]
      /\ loading \in [Client -> Game \union {None}]
  BY DEF TypeOK
<1>c. /\ Reading.does = "Reading"
      /\ \A what, todo, g : Job(what, todo, g).does = what
  BY DEF Reading, Job
<1>1. ASSUME NEW c \in Client, NEW t, NEW next, t # "CLOSE", Read(c, t, next),
             next = Reading \/ next.does \notin {"Reading", "Abort"},
             UNCHANGED <<sock, eStatus, loading>>,
             down' = down \/ (eStatus[c] # "IDLE" /\ \A e \in Client \ {c} : down'[e] = down[e])
      PROVE  Attended(d)'
  <2>1. CASE d = c
    <3>1. /\ up'[d] = Tail(up[d]) /\ job'[d] = next /\ Head(up[d]).type # "CLOSE"
          /\ sock[d] = "CONNECTED"
      BY <1>1, <2>1, <1>b DEF Read
    <3>2. eStatus[d] # "IDLE" \/ Closed(up'[d])
      BY <3>1, <1>a, ClosedStays DEF Attended
    <3>3. Closed(up'[d]) => up'[d] # << >>
      BY DEF Closed
    <3> QED BY <1>1, <2>1, <3>1, <3>2, <3>3, <1>a, <1>b, <1>c DEF Attended
  <2>2. CASE d # c
    BY <1>1, <2>2, <1>a, <1>b DEF Read, Attended
  <2> QED BY <2>1, <2>2
<1>2. ASSUME NEW c \in Client, RecvClientHello(c) PROVE Attended(d)'
  <2>1. down' = down \/ (eStatus[c] # "IDLE" /\ \A e \in Client \ {c} : down'[e] = down[e])
    BY <1>2, <1>b DEF RecvClientHello
  <2> QED BY <1>2, <1>1, <2>1 DEF RecvClientHello, client
<1>3. ASSUME NEW c \in Client, RecvLoadReq(c) PROVE Attended(d)'
  BY <1>3, <1>1, <1>c DEF RecvLoadReq, client
<1>4. ASSUME NEW c \in Client, NEW t, t # "CLOSE", NEW what \in {"LoadAck", "LoadError"},
             RecvLoadAck(c, t, what) PROVE Attended(d)'
  BY <1>4, <1>1, <1>c DEF RecvLoadAck, client
<1>5. ASSUME NEW c \in Client, RecvClose(c) PROVE Attended(d)'
  BY <1>5, <1>a, <1>b, <1>c DEF RecvClose, Read, client, Attended
<1>6. ASSUME NEW c \in Client, Send(c) PROVE Attended(d)'
  <2> DEFINE m == IF job[c].does = "StartGame" THEN Message("STARTGAME")
                  ELSE LoadReq(job[c].game)
  <2>1. PICK e \in Client :
          /\ down' = [down EXCEPT ![e] =
                        IF eStatus[e] = "IDLE" THEN @ ELSE Append(@, m)]
          /\ job' = [job EXCEPT ![c].todo = { f \in @ : f > e }]
          /\ e \in job[c].todo
    BY <1>6 DEF Send, Connected
  <2>2. job[c].does # "Reading"
    BY <2>1 DEF SessionInv, Attended, Reading
  <2>3. job'[d].does = job[d].does /\ (job[d].does = "Reading" => job'[d] = job[d])
    BY <2>1, <2>2, <1>b DEF JobType
  <2>4. down'[d] # << >> => down[d] # << >> \/ eStatus[d] # "IDLE"
    BY <2>1, <1>b
  <2> QED BY <1>6, <2>3, <2>4, <1>a DEF Send, client, Attended
<1>7. ASSUME NEW c \in Client, NEW what, NEW state, FinishBroadcast(c, what, state)
      PROVE  Attended(d)'
  BY <1>7, <1>a, <1>b, <1>c DEF FinishBroadcast, client, Attended
<1>8. ASSUME NEW c \in Client, FinishLoadAck(c) PROVE Attended(d)'
  <2>1. job'[c] = Reading \/ job'[c] = Job("StartGame", Client, None)
    BY <1>8, <1>b DEF FinishLoadAck
  <2>2. \A e \in Client \ {c} : job'[e] = job[e]
    BY <1>8, <1>b DEF FinishLoadAck
  <2> QED BY <1>8, <2>1, <2>2, <1>a, <1>c DEF FinishLoadAck, Finish, client, Attended
<1>9. ASSUME NEW c \in Client, FinishLoadError(c) PROVE Attended(d)'
  <2>1. job' = [job EXCEPT ![c] = UnloadGame]
        /\ (UnloadGame = Reading \/ UnloadGame.does = "UnloadGame")
    BY <1>9, <1>c DEF FinishLoadError, UnloadGame
  <2> QED BY <1>9, <2>1, <1>a, <1>b, <1>c DEF FinishLoadError, Finish, client, Attended
<1>10. ASSUME NEW c \in Client, FinishAbort(c) \/ FinishGhost(c) PROVE Attended(d)'
  BY <1>10, <1>a, <1>b, <1>c DEF FinishAbort, FinishGhost, Abort, client, Attended
<1>11. ASSUME NEW c \in Client, Accept(c) PROVE Attended(d)'
  BY <1>11, <1>a, <1>b, <1>c DEF Accept, Attended
<1>12. ASSUME NEW c \in Client, NEW t, Hear(c, t) PROVE down[c] # << >> /\ (\A e \in Client \ {c} : down'[e] = down[e])
  BY <1>12, <1>b DEF Hear
<1>13. ASSUME NEW c \in Client, RecvServerHello(c) \/ RecvLoad(c) \/ RecvUnload(c) \/ RecvStartGame(c)
      PROVE Attended(d)'
  BY <1>13, <1>12, <1>a, <1>b
     DEF RecvServerHello, RecvLoad, RecvUnload, RecvStartGame, server, Attended
<1>14. ASSUME NEW c \in Client, NEW ok, Load(c, ok) PROVE Attended(d)'
  <2>1. d # c => up'[d] = up[d] /\ loading'[d] = loading[d]
    BY <1>14, <1>b DEF Load
  <2>2. d = c => loading'[d] = None /\ loading[d] # None
    BY <1>14, <1>b DEF Load
  <2> QED BY <1>14, <2>1, <2>2, <1>a DEF Load, server, Attended
<1>15. ASSUME NEW c \in Client, Disconnect(c) PROVE Attended(d)'
  <2>1. d # c => /\ up'[d] = up[d] /\ loading'[d] = loading[d] /\ down'[d] = down[d]
                 /\ eStatus'[d] = eStatus[d]
    BY <1>15, <1>b DEF Disconnect
  <2>2. d = c => /\ loading'[d] = None /\ down'[d] = << >>
                 /\ Closed(up'[d]) /\ up'[d] # << >>
    BY <1>15, <1>b, ClosedStays DEF Disconnect, Closed
  <2> QED BY <1>15, <2>1, <2>2, <1>a DEF Disconnect, server, Attended
<1>16. ASSUME NEW c \in Client, NEW g \in Game, ChooseGame(c, g) PROVE Attended(d)'
  <2>1. d # c => up'[d] = up[d]
    BY <1>16, <1>b DEF ChooseGame
  <2>2. d = c => eStatus[d] # "IDLE"
    BY <1>16 DEF ChooseGame
  <2> QED BY <1>16, <2>1, <2>2, <1>a DEF ChooseGame, server, client, Attended
<1>17. CASE UNCHANGED vars
  BY <1>17, <1>a DEF vars, server, client, Attended
<1>18. CASE Next
  <2>1. PICK c \in Client : ServerThread(c) \/ FinishGhost(c) \/ Accept(c) \/ ClientThread(c)
                            \/ Player(c)
    BY <1>18 DEF Next
  <2>2. CASE ServerThread(c)
    <3>1. CASE RecvLoadAck(c, "OK", "LoadAck") \/ RecvLoadAck(c, "ERROR", "LoadError")
      <4>1. "LoadAck" \in {"LoadAck", "LoadError"} /\ "LoadError" \in {"LoadAck", "LoadError"}
        OBVIOUS
      <4> QED BY <3>1, <4>1, <1>4
    <3>2. CASE \/ FinishBroadcast(c, "LoadGame", "LOADING")
               \/ FinishBroadcast(c, "UnloadGame", "IDLE")
               \/ FinishBroadcast(c, "StartGame", "PLAY")
      BY <3>2, <1>7
    <3> QED BY <2>2, <3>1, <3>2, <1>2, <1>3, <1>5, <1>6, <1>8, <1>9, <1>10 DEF ServerThread
  <2>3. CASE ClientThread(c)
    BY <2>3, <1>13, <1>14 DEF ClientThread
  <2>4. CASE Player(c)
    BY <2>4, <1>15, <1>16 DEF Player
  <2> QED BY <2>1, <2>2, <2>3, <2>4, <1>10, <1>11
<1> QED BY <1>17, <1>18
-----------------------------------------------------------------------------
LEMMA EmptyStep == TypeOK /\ SessionInv /\ IdleWhenEmpty /\ [Next]_vars => IdleWhenEmpty'
<1> DEFINE Gone(c) == /\ sock[c] = "INVALID" /\ job[c] = Reading
                      /\ eStatus[c] = "IDLE" /\ up[c] = << >>
<1> SUFFICES ASSUME TypeOK, SessionInv, IdleWhenEmpty, [Next]_vars,
                    ghost' = {}, \A c \in Client : Gone(c)'
             PROVE  sGameState' = "IDLE"
  BY DEF IdleWhenEmpty
<1>a. ghost = {} /\ (\A c \in Client : Gone(c)) => sGameState = "IDLE"
  BY DEF IdleWhenEmpty
<1>b. /\ job \in [Client -> JobType] /\ up \in [Client -> Seq(UpMessage)]
      /\ eStatus \in [Client -> {"IDLE", "CONNECTING", "CONNECTED"}]
      /\ sock \in [Client -> {"INVALID", "CONNECTED", "DISCONNECTING"}]
  BY DEF TypeOK
<1>c. \A c \in Client : Attended(c)
  BY DEF SessionInv
<1>2. ASSUME NEW c \in Client, ServerThread(c) PROVE sGameState' = "IDLE"
  <2>1. CASE \/ RecvClientHello(c) \/ RecvLoadReq(c) \/ RecvClose(c)
             \/ RecvLoadAck(c, "OK", "LoadAck") \/ RecvLoadAck(c, "ERROR", "LoadError")
    <3>1. sock'[c] # "INVALID"
      BY <2>1, <1>b DEF RecvClientHello, RecvLoadReq, RecvClose, RecvLoadAck, Read
    <3> QED BY <3>1
  <2>2. CASE Send(c)
    <3>1. \E e \in Client : sock'[e] # "INVALID"
      BY <2>2 DEF Send, Connected
    <3> QED BY <3>1
  <2>3. CASE FinishAbort(c)
    <3>1. Connected = {} => sGameState' = "IDLE"
      BY <2>3 DEF FinishAbort, Abort, Abandoned
    <3>2. sock[c] # "CONNECTED"
      BY <2>3, <1>c DEF FinishAbort, Finish, Attended
    <3>3. ASSUME NEW e \in Connected PROVE e \in Client /\ sock'[e] = "CONNECTED"
      BY <2>3, <3>2, <1>b DEF FinishAbort, Abort, Connected
    <3> QED BY <3>1, <3>3
  <2>4. ASSUME job[c].does \notin {"Reading", "Abort"}, UNCHANGED <<eStatus, up>> PROVE FALSE
    BY <2>4, <1>c DEF Attended
  <2>5. CASE FinishBroadcast(c, "LoadGame", "LOADING")
    BY <2>4, <2>5 DEF FinishBroadcast, Finish, client
  <2>6. CASE FinishBroadcast(c, "UnloadGame", "IDLE")
    BY <2>4, <2>6 DEF FinishBroadcast, Finish, client
  <2>7. CASE FinishBroadcast(c, "StartGame", "PLAY")
    BY <2>4, <2>7 DEF FinishBroadcast, Finish, client
  <2>8. CASE FinishLoadAck(c)
    BY <2>4, <2>8 DEF FinishLoadAck, Finish, client
  <2>9. CASE FinishLoadError(c)
    BY <2>4, <2>9 DEF FinishLoadError, Finish, client
  <2> QED BY <1>2, <2>1, <2>2, <2>3, <2>5, <2>6, <2>7, <2>8, <2>9 DEF ServerThread
<1>3. ASSUME NEW c \in Client, FinishGhost(c) PROVE sGameState' = "IDLE"
  <2>1. Connected = {} => sGameState' = "IDLE"
    BY <1>3 DEF FinishGhost, Abort, Abandoned
  <2>2. ASSUME NEW e \in Connected PROVE e = c
    BY <2>2, <1>3, <1>b DEF FinishGhost, Abort, Connected
  <2>3. ASSUME sock[c] = "CONNECTED" PROVE FALSE
    <3>1. eStatus[c] # "IDLE" \/ up[c] # << >>
      BY <2>3, <1>c DEF Attended, Closed
    <3> QED BY <3>1, <1>3 DEF FinishGhost, Abort, client
  <2> QED BY <2>1, <2>2, <2>3 DEF Connected
<1>4. ASSUME NEW c \in Client, Accept(c) PROVE sGameState' = "IDLE"
  BY <1>4 DEF Accept
<1>5. ASSUME NEW c \in Client, NEW m, up' = [up EXCEPT ![c] = Append(@, m)], m \in UpMessage PROVE FALSE
  <2>1. up'[c] = Append(up[c], m) /\ up[c] \in Seq(UpMessage)
    BY <1>5, <1>b
  <2>2. up'[c] # << >>
    BY <2>1, <1>5, AppendProperties
  <2> QED BY <2>2
<1>6. ASSUME NEW c \in Client, ClientThread(c) PROVE sGameState' = "IDLE"
  <2>1. CASE RecvServerHello(c)
    BY <2>1, <1>b DEF RecvServerHello
  <2>2. CASE RecvLoad(c) \/ RecvUnload(c) \/ RecvStartGame(c)
    BY <2>2, <1>a DEF RecvLoad, RecvUnload, RecvStartGame, server
  <2>3. ASSUME NEW ok, Load(c, ok) PROVE FALSE
    BY <2>3, <1>5, MessageTypes DEF Load
  <2> QED BY <1>6, <2>1, <2>2, <2>3 DEF ClientThread
<1>7. ASSUME NEW c \in Client, Player(c) PROVE FALSE
  BY <1>5, <1>7, MessageTypes DEF Player, Disconnect, ChooseGame
<1>8. CASE UNCHANGED vars
  BY <1>8, <1>a DEF vars, server, client
<1> QED BY <1>2, <1>3, <1>4, <1>6, <1>7, <1>8 DEF Next

LEMMA SessionInit == Init => SessionConsistent
<1> SUFFICES ASSUME Init PROVE SessionConsistent
  OBVIOUS
<1>1. TypeOK
  BY MessageTypes, NetSessionAssumption DEF Init, TypeOK, GameState
<1>2. SessionInv
  BY NetSessionAssumption DEF Init, SessionInv, Attended, Reading
<1> QED BY <1>1, <1>2 DEF Init, SessionConsistent, IdleWhenEmpty

\* The invariant that holds together what the threads of the server, the
\* connections and the clients are doing, in every behaviour.
THEOREM SessionConsistentHolds == Spec => []SessionConsistent
<1>1. Init => SessionConsistent
  BY SessionInit
<1>2. SessionConsistent /\ [Next]_vars => SessionConsistent'
  BY TypeStep, SessionStep, EmptyStep DEF SessionConsistent
<1> QED BY <1>1, <1>2, PTL DEF Spec
-----------------------------------------------------------------------------
(***************************************************************************)
(* When a game starts everyone has loaded it, where one game is chosen and *)
(* nobody joins or leaves; broadcasts may be interrupted, loads may fail.  *)
(***************************************************************************)
Has(messages, t) == \E i \in 1 .. Len(messages) : messages[i].type = t

\* c has loaded a game and the server does not know yet.
Answers(c) == job[c].does = "LoadAck" \/ Has(up[c], "OK")

LoadReqs == { LoadReq(g) : g \in Game }
HasAny(messages, M) == \E i \in 1 .. Len(messages) : messages[i] \in M
OnceAny(messages, M) ==
  \A i, j \in 1 .. Len(messages) : messages[i] \in M /\ messages[j] \in M => i = j

\* c will be told to load a game, or has been; it can no longer become loaded.
Unread == \E r \in Client : HasAny(up[r], LoadReqs)
Untold(c) == \/ requests = 0 \/ Unread
             \/ \E r \in Client : job[r].does = "LoadGame" /\ c \in job[r].todo
Told(c) == HasAny(down[c], LoadReqs)
CanLoad(c) == Untold(c) \/ Told(c) \/ loading[c] # None
Out(c) == ~CanLoad(c) /\ ~Answers(c) /\ sClientState[c] # "LOADED"

\* Those who are there stay, and greet or leave nobody.
FixedInv(c) ==
  /\ sock[c] = "CONNECTED" <=> c \in AtStart
  /\ eStatus[c] = IF c \in AtStart THEN "CONNECTED" ELSE "IDLE"
  /\ c \notin AtStart => up[c] = << >>
  /\ ~Has(up[c], "HELLO") /\ ~Has(up[c], "CLOSE")
  /\ job[c].does # "Abort"
  /\ job[c].does \in {"LoadAck", "LoadError"} => job[c].todo = {}
  /\ job[c].does = "UnloadGame" => job[c].game = None
  /\ ~HasAny(up[c], {LoadReq(None)})

\* The one request is to be made, to be read, being told, or in the past.
RequestInv(c) ==
  /\ requests = 0 => ~HasAny(up[c], LoadReqs) /\ job[c].does # "LoadGame"
  /\ OnceAny(up[c], LoadReqs)
  /\ \A d \in Client :
       /\ HasAny(up[c], LoadReqs) => job[d].does # "LoadGame"
       /\ d # c => ~HasAny(up[c], LoadReqs) \/ ~HasAny(up[d], LoadReqs)
       /\ d # c => job[c].does # "LoadGame" \/ job[d].does # "LoadGame"
  /\ job[c].does = "LoadGame" => job[c].game = chosen /\ chosen # None

\* c is told once, and answers after that.
OnceInv(c) ==
  /\ OnceAny(down[c], LoadReqs) /\ ~HasAny(down[c], LoadReqs \ {LoadReq(chosen)})
  /\ Told(c) => ~Untold(c) /\ loading[c] = None
  /\ loading[c] # None => ~Untold(c) /\ loading[c] = chosen
  /\ CanLoad(c) => ~Answers(c) /\ sClientState[c] # "LOADED"

NobodyFailed ==
  /\ \A c \in AtStart : CanLoad(c) \/ rom[c] = chosen
  /\ \A c \in Client :
       /\ ~Has(up[c], "ERROR") /\ ~HasAny(down[c], {LoadReq(None)})
       /\ job[c].does \notin {"LoadError", "UnloadGame"}
       /\ job[c].does = "StartGame" => \A d \in AtStart : ~CanLoad(d)

SomebodyFailed ==
  /\ \E f \in AtStart : Out(f)
  /\ \A c \in Client : job[c].does # "StartGame"

OneLoad ==
  /\ requests <= 1 /\ ghost = {}
  /\ \A c \in Client : FixedInv(c) /\ RequestInv(c) /\ OnceInv(c)
  /\ NobodyFailed \/ SomebodyFailed

OneLoadInv ==
  /\ requests \in Nat /\ joins \in Nat /\ leaves \in Nat
  /\ joins + leaves = 0 => OneLoad

-----------------------------------------------------------------------------
\* What is left of a queue when its first message is read.
LEMMA HasTail ==
  ASSUME NEW S, NEW q \in Seq(S), q # << >>, NEW t
  PROVE  /\ Has(q, Head(q).type)
         /\ Has(Tail(q), t) => Has(q, t)
         /\ Has(q, t) => Head(q).type = t \/ Has(Tail(q), t)
<1>1. /\ Tail(q) \in Seq(S) /\ Len(Tail(q)) = Len(q) - 1 /\ Len(q) \in Nat \ {0}
      /\ \A i \in 1 .. Len(q) - 1 : Tail(q)[i] = q[i + 1]
      /\ Head(q) = q[1]
  BY HeadTailProperties, EmptySeq
<1> DEFINE n == Len(q)
           r == Tail(q)
<1>2. n \in Nat /\ n >= 1 /\ Len(r) = n - 1 /\ \A i \in 1 .. n - 1 : r[i] = q[i + 1]
  BY <1>1
<1> HIDE DEF n, r
<1>3. Has(q, Head(q).type)
  BY <1>1, <1>2 DEF Has, n
<1>4. Has(r, t) => Has(q, t)
  BY <1>2 DEF Has, n
<1>5. Has(q, t) => Head(q).type = t \/ Has(r, t)
  <2> SUFFICES ASSUME NEW i \in 1 .. n, q[i].type = t, i # 1 PROVE Has(r, t)
    BY <1>1 DEF Has, n
  <2>1. i - 1 \in 1 .. n - 1 /\ r[i - 1] = q[i]
    BY <1>2
  <2> QED BY <1>2, <2>1 DEF Has
<1> QED BY <1>3, <1>4, <1>5 DEF r

\* What a queue has when a message is sent.
LEMMA HasAppend ==
  ASSUME NEW S, NEW q \in Seq(S), NEW m \in S, NEW t
  PROVE  Has(Append(q, m), t) <=> Has(q, t) \/ m.type = t
<1> DEFINE n == Len(q)
           r == Append(q, m)
<1>1. n \in Nat /\ Len(r) = n + 1 /\ r[n + 1] = m /\ \A i \in 1 .. n : r[i] = q[i]
  BY AppendProperties
<1> HIDE DEF n, r
<1>2. Has(r, t) <=> Has(q, t) \/ m.type = t
  BY <1>1 DEF Has, n
<1> QED BY <1>2 DEF r

LEMMA HasEmpty == \A t : ~Has(<< >>, t)
BY DEF Has

\* Messages of a set M in a queue that is read, and in one that is sent to.
LEMMA AnyTail ==
  ASSUME NEW S, NEW q \in Seq(S), q # << >>, NEW M
  PROVE  /\ Head(q) \in M => HasAny(q, M)
         /\ HasAny(Tail(q), M) => HasAny(q, M)
         /\ HasAny(q, M) => Head(q) \in M \/ HasAny(Tail(q), M)
         /\ OnceAny(q, M) => OnceAny(Tail(q), M) /\ (Head(q) \in M => ~HasAny(Tail(q), M))
<1> DEFINE n == Len(q)
           r == Tail(q)
<1>1. /\ n \in Nat /\ n >= 1 /\ Len(r) = n - 1 /\ Head(q) = q[1]
      /\ \A i \in 1 .. n - 1 : r[i] = q[i + 1]
  BY HeadTailProperties, EmptySeq
<1> HIDE DEF n, r
<1>2. Head(q) \in M => HasAny(q, M)
  BY <1>1 DEF HasAny, n
<1>3. HasAny(r, M) => HasAny(q, M)
  BY <1>1 DEF HasAny, n
<1>4. HasAny(q, M) => Head(q) \in M \/ HasAny(r, M)
  <2> SUFFICES ASSUME NEW i \in 1 .. n, q[i] \in M, i # 1 PROVE HasAny(r, M)
    BY <1>1 DEF HasAny, n
  <2>1. i - 1 \in 1 .. n - 1 /\ r[i - 1] = q[i]
    BY <1>1
  <2> QED BY <1>1, <2>1 DEF HasAny
<1>5. ASSUME OnceAny(q, M) PROVE OnceAny(r, M) /\ (Head(q) \in M => ~HasAny(r, M))
  <2>1. \A i, j \in 1 .. n : q[i] \in M /\ q[j] \in M => i = j
    BY <1>5 DEF OnceAny, n
  <2>2. OnceAny(r, M)
    <3>1. ASSUME NEW i \in 1 .. n - 1, NEW j \in 1 .. n - 1, r[i] \in M, r[j] \in M PROVE i = j
      <4>1. i + 1 \in 1 .. n /\ j + 1 \in 1 .. n /\ r[i] = q[i + 1] /\ r[j] = q[j + 1]
        BY <1>1
      <4>2. i + 1 = j + 1
        BY <2>1, <3>1, <4>1
      <4> QED BY <4>2
    <3> QED BY <1>1, <3>1 DEF OnceAny
  <2>3. ASSUME Head(q) \in M, NEW i \in 1 .. n - 1, r[i] \in M PROVE FALSE
    BY <1>1, <2>1, <2>3
  <2> QED BY <1>1, <2>2, <2>3 DEF HasAny
<1> QED BY <1>2, <1>3, <1>4, <1>5 DEF r

LEMMA AnyAppend ==
  ASSUME NEW S, NEW q \in Seq(S), NEW m \in S, NEW M
  PROVE  /\ HasAny(Append(q, m), M) <=> HasAny(q, M) \/ m \in M
         /\ OnceAny(q, M) /\ (m \in M => ~HasAny(q, M)) => OnceAny(Append(q, m), M)
<1> DEFINE n == Len(q)
           r == Append(q, m)
<1>1. n \in Nat /\ Len(r) = n + 1 /\ r[n + 1] = m /\ \A i \in 1 .. n : r[i] = q[i]
  BY AppendProperties
<1> HIDE DEF n, r
<1>2. HasAny(r, M) <=> HasAny(q, M) \/ m \in M
  BY <1>1 DEF HasAny, n
<1>3. ASSUME OnceAny(q, M), m \in M => ~HasAny(q, M) PROVE OnceAny(r, M)
  <2>1. /\ \A i, j \in 1 .. n : q[i] \in M /\ q[j] \in M => i = j
        /\ m \in M => \A i \in 1 .. n : q[i] \notin M
    BY <1>3 DEF OnceAny, HasAny, n
  <2> QED BY <1>1, <2>1 DEF OnceAny
<1> QED BY <1>2, <1>3 DEF r

LEMMA AnyEmpty == \A M : ~HasAny(<< >>, M) /\ OnceAny(<< >>, M)
BY DEF HasAny, OnceAny

\* Which messages ask for a game.
LEMMA LoadReqMessages ==
  /\ \A m \in UpMessage \union DownMessage :
       m.type = "LOADREQ" => m = LoadReq(m.game) /\ (m.game # None => m \in LoadReqs)
  /\ \A m \in LoadReqs \union {LoadReq(None)} : m.type = "LOADREQ"
  /\ \A m \in LoadReqs : m.game # None
  /\ \A g \in Game : LoadReq(g) \in LoadReqs /\ LoadReq(g) # LoadReq(None)
  /\ LoadReq(None) \notin LoadReqs
  /\ \A t : t # "LOADREQ" => Message(t) \notin LoadReqs /\ Message(t) # LoadReq(None)
<1>1. \A m \in UpMessage \union DownMessage :
        m.type = "LOADREQ" => m = LoadReq(m.game) /\ m.game \in Game \union {None}
  BY DEF LoadReq, UpMessage, DownMessage
<1>2. \A g : LoadReq(g).type = "LOADREQ" /\ LoadReq(g).game = g
  BY DEF LoadReq
<1>3. \A g \in Game : LoadReq(g) \in LoadReqs /\ LoadReq(g) # LoadReq(None)
  BY <1>2, NetSessionAssumption DEF LoadReqs
<1>4. \A m \in LoadReqs : m.type = "LOADREQ" /\ m.game # None
  BY <1>2, NetSessionAssumption DEF LoadReqs
<1>5. \A t : Message(t).type = t
  BY DEF Message
<1> QED BY <1>1, <1>2, <1>3, <1>4, <1>5

\* What holds of every client, as facts to cite.
LEMMA OneFacts ==
  ASSUME TypeOK, SessionInv, OneLoad, NEW d \in Client
  PROVE  /\ FixedInv(d) /\ RequestInv(d) /\ OnceInv(d) /\ Attended(d)
         /\ up[d] \in Seq(UpMessage) /\ down[d] \in Seq(DownMessage) /\ job[d] \in JobType
         /\ ghost = {} /\ requests <= 1 /\ (NobodyFailed \/ SomebodyFailed)
BY DEF OneLoad, SessionInv, TypeOK

\* A step that touches no request leaves it to the same clients to load.
LEMMA SameRequests ==
  ASSUME UNCHANGED <<requests, loading>>,
         \A d \in Client : /\ HasAny(up[d], LoadReqs)' <=> HasAny(up[d], LoadReqs)
                           /\ Told(d)' <=> Told(d)
                           /\ job'[d].does = "LoadGame" <=> job[d].does = "LoadGame"
                           /\ job[d].does = "LoadGame" => job'[d].todo = job[d].todo
  PROVE  \A d \in Client : (Untold(d)' <=> Untold(d)) /\ (CanLoad(d)' <=> CanLoad(d))
<1>1. Unread' <=> Unread
  BY DEF Unread
<1>2. \A d \in Client : Untold(d)' <=> Untold(d)
  BY <1>1 DEF Untold
<1> QED BY <1>2 DEF CanLoad

\* What the thread of c knows when it has read a message of type t.
LEMMA OneReadFacts ==
  ASSUME TypeOK, SessionInv, OneLoad, NEW c \in Client, NEW t, NEW next, Read(c, t, next)
  PROVE  /\ c \in AtStart /\ t # "HELLO" /\ t # "CLOSE" /\ Has(up[c], t)
         /\ Head(up[c]) \in UpMessage
         /\ job[c] = Reading /\ job'[c] = next /\ \A d \in Client : d # c => job'[d] = job[d]
         /\ \A d \in Client : /\ d # c => up'[d] = up[d]
                              /\ up'[d] # << >> => up[d] # << >>
                              /\ \A s : Has(up'[d], s) => Has(up[d], s)
                              /\ \A M : /\ HasAny(up'[d], M) => HasAny(up[d], M)
                                        /\ OnceAny(up[d], M) => OnceAny(up'[d], M)
         /\ t = "LOADREQ" => /\ HasAny(up[c], LoadReqs) /\ Head(up[c]).game \in Game
                             /\ \A d \in Client : ~HasAny(up'[d], LoadReqs)
         /\ t # "LOADREQ" => \A d \in Client : HasAny(up'[d], LoadReqs) <=> HasAny(up[d], LoadReqs)
<1>1. /\ job[c] = Reading /\ sock[c] = "CONNECTED" /\ up[c] # << >>
      /\ Head(up[c]).type = t /\ up' = [up EXCEPT ![c] = Tail(@)]
      /\ job' = [job EXCEPT ![c] = next]
  BY DEF Read
<1>2. up[c] \in Seq(UpMessage) /\ FixedInv(c) /\ RequestInv(c)
  BY OneFacts
<1>3. /\ up'[c] = Tail(up[c]) /\ \A d \in Client : d # c => up'[d] = up[d]
      /\ job'[c] = next /\ \A d \in Client : d # c => job'[d] = job[d]
  BY <1>1 DEF TypeOK
<1>4. Head(up[c]) \in UpMessage
  BY <1>1, <1>2, HeadTailProperties
<1>5. Has(up[c], t)
  BY <1>1, <1>2, HasTail
<1>6. \A s : Has(up'[c], s) => Has(up[c], s)
  BY <1>1, <1>2, <1>3, HasTail
<1>7. \A M : /\ HasAny(up'[c], M) => HasAny(up[c], M)
             /\ OnceAny(up[c], M) => OnceAny(up'[c], M)
  BY <1>1, <1>2, <1>3, AnyTail
<1>8. t # "LOADREQ" => (HasAny(up'[c], LoadReqs) <=> HasAny(up[c], LoadReqs))
  <2>1. t # "LOADREQ" => Head(up[c]) \notin LoadReqs
    BY <1>1, LoadReqMessages
  <2> QED BY <1>1, <1>2, <1>3, <2>1, AnyTail
<1>9. ASSUME t = "LOADREQ"
      PROVE  /\ HasAny(up[c], LoadReqs) /\ Head(up[c]).game \in Game
             /\ \A d \in Client : ~HasAny(up'[d], LoadReqs)
  <2> DEFINE h == Head(up[c])
  <2>1. h = LoadReq(h.game) /\ (h.game # None => h \in LoadReqs)
    BY <1>1, <1>4, <1>9, LoadReqMessages
  <2>2. h \in {LoadReq(None)} => HasAny(up[c], {LoadReq(None)})
    BY <1>1, <1>2, AnyTail
  <2>3. h.game # None /\ h \in LoadReqs /\ h.game \in Game
    BY <1>2, <1>4, <2>1, <2>2, Fields DEF FixedInv
  <2> HIDE DEF h
  <2>4. HasAny(up[c], LoadReqs) /\ (OnceAny(up[c], LoadReqs) => ~HasAny(up'[c], LoadReqs))
    BY <1>1, <1>2, <1>3, <2>3, AnyTail DEF h
  <2>5. \A d \in Client : d # c => ~HasAny(up[d], LoadReqs)
    BY <1>2, <2>4 DEF RequestInv
  <2> QED BY <1>2, <1>3, <2>3, <2>4, <2>5 DEF RequestInv, h
<1>10. c \in AtStart /\ t # "HELLO" /\ t # "CLOSE"
  BY <1>1, <1>2, <1>5 DEF FixedInv
<1>11. ASSUME NEW d \in Client
       PROVE  /\ up'[d] # << >> => up[d] # << >>
              /\ \A s : Has(up'[d], s) => Has(up[d], s)
              /\ \A M : /\ HasAny(up'[d], M) => HasAny(up[d], M)
                        /\ OnceAny(up[d], M) => OnceAny(up'[d], M)
  <2>1. CASE d = c
    BY <2>1, <1>1, <1>6, <1>7
  <2>2. CASE d # c
    BY <2>2, <1>3
  <2> QED BY <2>1, <2>2
<1>12. t # "LOADREQ" => \A d \in Client : HasAny(up'[d], LoadReqs) <=> HasAny(up[d], LoadReqs)
  BY <1>3, <1>8
<1> QED BY <1>1, <1>3, <1>4, <1>5, <1>9, <1>10, <1>11, <1>12

\* The request is read: everybody is told of it, or it is ignored.
LEMMA OneLoadReq ==
  ASSUME TypeOK, SessionInv, OneLoad, NEW c \in Client, RecvLoadReq(c)
  PROVE  OneLoad'
<1> DEFINE next == IF LoadAllowed THEN Job("LoadGame", Client, Head(up[c]).game) ELSE Reading
<1>1. /\ Read(c, "LOADREQ", next)
      /\ chosen' = IF LoadAllowed THEN Head(up[c]).game ELSE chosen
      /\ UNCHANGED <<sGameState, sClientState, sock, ghost, down, eStatus, cGameState, loading,
                     rom, requests>>
  BY DEF RecvLoadReq, client, bounds
<1> HIDE DEF next
<1>2. /\ c \in AtStart /\ job[c] = Reading /\ job'[c] = next
      /\ \A d \in Client : d # c => job'[d] = job[d]
      /\ HasAny(up[c], LoadReqs) /\ Head(up[c]).game \in Game
      /\ \A d \in Client : /\ ~HasAny(up'[d], LoadReqs)
                           /\ up'[d] # << >> => up[d] # << >>
                           /\ \A s : Has(up'[d], s) => Has(up[d], s)
                           /\ \A M : /\ HasAny(up'[d], M) => HasAny(up[d], M)
                                     /\ OnceAny(up[d], M) => OnceAny(up'[d], M)
  BY <1>1, OneReadFacts
<1>3. /\ Reading.does = "Reading"
      /\ \A w, s, g : /\ Job(w, s, g).does = w /\ Job(w, s, g).todo = s /\ Job(w, s, g).game = g
  BY DEF Reading, Job
<1>4. /\ \A d \in Client : /\ Untold(d) /\ ~Told(d) /\ loading[d] = None
                           /\ ~Answers(d) /\ sClientState[d] # "LOADED"
                           /\ job[d].does \notin {"LoadGame", "StartGame", "LoadError", "UnloadGame"}
                           /\ ~Has(up[d], "ERROR") /\ ~HasAny(down[d], {LoadReq(None)})
      /\ requests # 0
  <2>1. \A d \in Client : Untold(d) /\ CanLoad(d)
    BY <1>2 DEF Untold, CanLoad, Unread
  <2>2. \A d \in Client : /\ ~Told(d) /\ loading[d] = None
                          /\ ~Answers(d) /\ sClientState[d] # "LOADED"
                          /\ job[d].does # "LoadGame"
    BY <1>2, <2>1, OneFacts DEF OnceInv, RequestInv
  <2>3. NobodyFailed
    BY <2>1, OneFacts, NetSessionAssumption DEF SomebodyFailed, Out
  <2>4. requests # 0
    BY <1>2, OneFacts DEF RequestInv
  <2> QED BY <1>2, <2>1, <2>2, <2>3, <2>4 DEF NobodyFailed
<1>5. \A d \in Client : /\ ~Told(d)' /\ ~Answers(d)' /\ loading'[d] = None
                        /\ sClientState'[d] # "LOADED"
  <2>1. next.does # "LoadAck"
    BY <1>3 DEF next
  <2> QED BY <1>1, <1>2, <1>4, <2>1 DEF Told, Answers
<1>6. next.does \in {"LoadGame", "Reading"}
  BY <1>3 DEF next
<1>7. ASSUME NEW d \in Client PROVE FixedInv(d)'
  <2>1. job'[d].does \in {"LoadGame", "Reading"} \/ job'[d] = job[d]
    BY <1>2, <1>6
  <2> QED BY <1>1, <1>2, <2>1, OneFacts DEF FixedInv
<1>8. ASSUME NEW d \in Client PROVE RequestInv(d)'
  <2>1. \A e \in Client : e # c => job'[e].does # "LoadGame"
    BY <1>2, <1>4
  <2>2. next.does = "LoadGame" => next.game = chosen' /\ chosen' # None
    BY <1>1, <1>2, <1>3, NetSessionAssumption DEF next
  <2> QED BY <1>1, <1>2, <1>4, <2>1, <2>2, OneFacts DEF RequestInv
<1>9. ASSUME NEW d \in Client PROVE OnceInv(d)'
  <2>1. ~HasAny(down[d], LoadReqs \ {LoadReq(chosen')})
    BY <1>4 DEF Told, HasAny
  <2> QED BY <1>1, <1>5, <2>1, OneFacts DEF OnceInv
<1>10. NobodyFailed' \/ SomebodyFailed'
  <2>1. \A d \in Client : job'[d].does \notin {"StartGame", "LoadError", "UnloadGame"}
    BY <1>2, <1>4, <1>6
  <2>2. CASE LoadAllowed
    <3>1. job'[c].does = "LoadGame" /\ job'[c].todo = Client
      BY <1>2, <1>3, <2>2 DEF next
    <3>2. \A d \in AtStart : CanLoad(d)'
      BY <3>1, NetSessionAssumption DEF CanLoad, Untold
    <3> QED BY <1>1, <1>2, <1>4, <2>1, <3>2 DEF NobodyFailed
  <2>3. CASE ~LoadAllowed
    <3>1. \A d \in Client : job'[d].does # "LoadGame"
      BY <1>2, <1>3, <1>4, <2>3 DEF next
    <3>2. ~Untold(c)'
      BY <1>1, <1>2, <1>4, <3>1 DEF Untold, Unread
    <3>3. Out(c)'
      BY <1>5, <3>2 DEF Out, CanLoad
    <3> QED BY <1>2, <2>1, <3>3 DEF SomebodyFailed
  <2> QED BY <2>2, <2>3
<1> QED BY <1>1, <1>7, <1>8, <1>9, <1>10, OneFacts DEF OneLoad

\* An answer is read: it begins the end of the thread's share of the load.
LEMMA OneAck ==
  ASSUME TypeOK, SessionInv, OneLoad, NEW c \in Client,
         RecvLoadAck(c, "OK", "LoadAck") \/ RecvLoadAck(c, "ERROR", "LoadError")
  PROVE  OneLoad'
<1>1. PICK t \in {"OK", "ERROR"}, next \in {Reading, Job("LoadAck", {}, None), Job("LoadError", {}, None)} :
        /\ Read(c, t, next)
        /\ next.does = "LoadAck" => t = "OK"
        /\ next.does = "LoadError" => t = "ERROR"
  BY DEF RecvLoadAck, Reading, Job
<1>2. UNCHANGED <<sGameState, sClientState, sock, ghost, down, eStatus, cGameState, loading,
                  rom, chosen, requests>>
  BY DEF RecvLoadAck, client, bounds
<1>3. /\ c \in AtStart /\ job[c] = Reading /\ job'[c] = next /\ Has(up[c], t)
      /\ \A d \in Client : d # c => job'[d] = job[d]
      /\ \A d \in Client : /\ HasAny(up'[d], LoadReqs) <=> HasAny(up[d], LoadReqs)
                           /\ up'[d] # << >> => up[d] # << >>
                           /\ \A s : Has(up'[d], s) => Has(up[d], s)
                           /\ \A M : /\ HasAny(up'[d], M) => HasAny(up[d], M)
                                     /\ OnceAny(up[d], M) => OnceAny(up'[d], M)
  BY <1>1, OneReadFacts
<1>4. /\ Reading.does = "Reading" /\ next.does \in {"Reading", "LoadAck", "LoadError"}
      /\ next.todo = {}
  BY DEF Reading, Job
<1>5. \A d \in Client : (Untold(d)' <=> Untold(d)) /\ (CanLoad(d)' <=> CanLoad(d))
  <2>1. \A d \in Client : /\ job'[d].does = "LoadGame" <=> job[d].does = "LoadGame"
                          /\ job[d].does = "LoadGame" => job'[d].todo = job[d].todo
    BY <1>3, <1>4
  <2> QED BY <1>2, <1>3, <2>1, SameRequests DEF Told
<1>6. \A d \in Client : Answers(d)' => Answers(d)
  BY <1>1, <1>3, <1>4 DEF Answers
<1>7. ASSUME NEW d \in Client PROVE FixedInv(d)' /\ RequestInv(d)' /\ OnceInv(d)'
  <2>1. FixedInv(d)'
    BY <1>2, <1>3, <1>4, OneFacts DEF FixedInv
  <2>2. RequestInv(d)'
    BY <1>2, <1>3, <1>4, OneFacts DEF RequestInv
  <2>3. OnceInv(d)'
    BY <1>2, <1>5, <1>6, OneFacts DEF OnceInv, Told
  <2> QED BY <2>1, <2>2, <2>3
<1>8. CASE NobodyFailed
  <2>1. next.does # "LoadError"
    BY <1>1, <1>3, <1>8 DEF NobodyFailed
  <2>2. \A d \in Client : /\ job'[d].does \notin {"LoadError", "UnloadGame"}
                          /\ job'[d].does = "StartGame" => job[d].does = "StartGame"
    BY <1>3, <1>4, <1>8, <2>1 DEF NobodyFailed
  <2>3. NobodyFailed'
    BY <1>2, <1>3, <1>5, <1>8, <2>2, NetSessionAssumption DEF NobodyFailed
  <2> QED BY <1>2, <1>7, <2>3, OneFacts DEF OneLoad
<1>9. CASE SomebodyFailed
  <2>1. SomebodyFailed'
    BY <1>2, <1>3, <1>4, <1>5, <1>6, <1>9, NetSessionAssumption DEF SomebodyFailed, Out
  <2> QED BY <1>2, <1>7, <2>1, OneFacts DEF OneLoad
<1> QED BY <1>8, <1>9, OneFacts

\* The thread of c tells e, the next of those it has to tell.
LEMMA OneSend ==
  ASSUME TypeOK, SessionInv, OneLoad, NEW c \in Client, Send(c)
  PROVE  OneLoad'
<1> DEFINE m == IF job[c].does = "StartGame" THEN Message("STARTGAME")
                ELSE LoadReq(job[c].game)
<1>0. job[c].todo \subseteq Client
  BY DEF TypeOK, JobType
<1>1. PICK e \in Client :
        /\ e \in job[c].todo /\ sock[e] = "CONNECTED"
        /\ \A f \in job[c].todo : sock[f] = "CONNECTED" => e <= f
        /\ down' = [down EXCEPT ![e] = IF eStatus[e] = "IDLE" THEN @ ELSE Append(@, m)]
        /\ job' = [job EXCEPT ![c].todo = { f \in @ : f > e }]
  BY <1>0 DEF Send, Connected
<1>2. UNCHANGED <<sGameState, sClientState, sock, ghost, up, eStatus, cGameState,
                  loading, rom, chosen, requests>>
  BY DEF Send, client, bounds
<1>3. /\ job'[c].does = job[c].does /\ job'[c].game = job[c].game
      /\ job'[c].todo = { f \in job[c].todo : f > e } /\ job[c].todo \subseteq Client
      /\ \A d \in Client : d # c => job'[d] = job[d]
      /\ job[c] \in JobType
  BY <1>1 DEF TypeOK, JobType
<1>4. /\ e \notin job'[c].todo
      /\ \A f \in job[c].todo : sock[f] = "CONNECTED" /\ f # e => f \in job'[c].todo
  <2>1. \A f \in Client : f \in Nat
    BY NetSessionAssumption
  <2> QED BY <1>1, <1>3, <2>1
<1>5. e \in AtStart /\ AtStart \subseteq Client /\ \A f \in AtStart : sock[f] = "CONNECTED"
  BY <1>1, OneFacts, NetSessionAssumption DEF FixedInv
<1>6. m \in DownMessage /\ (job[c].does = "StartGame" => m = Message("STARTGAME"))
      /\ (job[c].does # "StartGame" => m = LoadReq(job[c].game))
  BY <1>3, MessageTypes, Fields
<1> HIDE DEF m
<1>7. /\ down'[e] = Append(down[e], m) /\ \A d \in Client : d # e => down'[d] = down[d]
      /\ down[e] \in Seq(DownMessage)
  BY <1>1, <1>5, OneFacts DEF TypeOK, FixedInv
<1>8. \A M : /\ HasAny(down'[e], M) <=> HasAny(down[e], M) \/ m \in M
             /\ OnceAny(down[e], M) /\ (m \in M => ~HasAny(down[e], M)) => OnceAny(down'[e], M)
  BY <1>6, <1>7, AnyAppend
<1>9. job[c].does \in {"LoadGame", "UnloadGame", "StartGame"}
  BY <1>1, <1>3, OneFacts DEF FixedInv, JobType, Attended, Reading
<1>10. \A d \in Client : Answers(d)' <=> Answers(d)
  BY <1>2, <1>3 DEF Answers
<1>11. ASSUME NEW d \in Client PROVE FixedInv(d)' /\ RequestInv(d)'
  <2>1. job'[d].does = job[d].does /\ job'[d].game = job[d].game /\ job'[d].todo \subseteq job[d].todo
    BY <1>3
  <2>2. \A f \in Client : job'[f].does = job[f].does
    BY <1>3
  <2>3. FixedInv(d)'
    BY <1>2, <2>1, OneFacts DEF FixedInv
  <2>4. RequestInv(d)'
    BY <1>2, <2>1, <2>2, OneFacts DEF RequestInv
  <2> QED BY <2>3, <2>4
<1>12. CASE job[c].does = "LoadGame"
  <2>1. /\ requests # 0 /\ ~Unread /\ job[c].game = chosen /\ chosen \in Game
        /\ \A d \in Client : d # c => job[d].does # "LoadGame"
    BY <1>3, <1>12, OneFacts, Fields DEF RequestInv, Unread
  <2>2. m = LoadReq(chosen) /\ m \in LoadReqs /\ m # LoadReq(None)
    BY <1>6, <1>12, <2>1, LoadReqMessages
  <2>3. \A d \in Client : /\ Untold(d) <=> d \in job[c].todo
                          /\ Untold(d)' <=> d \in job'[c].todo
    <3>1. ~Unread' /\ requests' # 0
      BY <1>2, <2>1 DEF Unread
    <3>2. \A d \in Client : d # c => job'[d].does # "LoadGame"
      BY <1>3, <2>1
    <3> QED BY <1>3, <1>12, <2>1, <3>1, <3>2 DEF Untold
  <2>4. /\ Untold(e) /\ ~Untold(e)' /\ ~Told(e) /\ Told(e)' /\ loading[e] = None
        /\ OnceAny(down'[e], LoadReqs) /\ ~HasAny(down'[e], LoadReqs \ {LoadReq(chosen)})
    <3>1. Untold(e) /\ ~Untold(e)' /\ ~Told(e) /\ loading[e] = None
      BY <1>1, <1>4, <2>3, OneFacts DEF OnceInv
    <3> QED BY <1>8, <2>2, <3>1, OneFacts DEF Told, OnceInv
  <2>5. \A d \in Client : /\ CanLoad(d)' => CanLoad(d)
                          /\ d \in AtStart => (CanLoad(d)' <=> CanLoad(d))
                          /\ d # e => (Told(d)' <=> Told(d)) /\ (Untold(d)' => Untold(d))
    BY <1>2, <1>3, <1>4, <1>5, <1>7, <2>3, <2>4 DEF CanLoad, Told
  <2>6. ASSUME NEW d \in Client PROVE OnceInv(d)'
    <3>1. CASE d = e
      BY <3>1, <1>2, <1>10, <2>4, <2>5, OneFacts DEF OnceInv
    <3>2. CASE d # e
      BY <3>2, <1>2, <1>7, <1>10, <2>5, OneFacts DEF OnceInv
    <3> QED BY <3>1, <3>2
  <2>7. \A d \in Client : HasAny(down'[d], {LoadReq(None)}) => HasAny(down[d], {LoadReq(None)})
    BY <1>7, <1>8, <2>2
  <2>8. CASE NobodyFailed
    <3>1. NobodyFailed'
      BY <1>2, <1>3, <1>5, <2>5, <2>7, <2>8 DEF NobodyFailed
    <3> QED BY <1>2, <1>11, <2>6, <3>1, OneFacts DEF OneLoad
  <2>9. CASE SomebodyFailed
    <3>1. SomebodyFailed'
      BY <1>2, <1>3, <1>5, <1>10, <2>5, <2>9 DEF SomebodyFailed, Out
    <3> QED BY <1>2, <1>11, <2>6, <3>1, OneFacts DEF OneLoad
  <2> QED BY <2>8, <2>9, OneFacts
<1>13. CASE job[c].does # "LoadGame"
  <2>1. m \notin LoadReqs
    <3>1. CASE job[c].does = "StartGame"
      BY <1>6, <3>1, LoadReqMessages
    <3>2. CASE job[c].does = "UnloadGame"
      BY <1>6, <3>2, OneFacts, LoadReqMessages DEF FixedInv
    <3> QED BY <1>9, <1>13, <3>1, <3>2
  <2>2. \A d \in Client : (Untold(d)' <=> Untold(d)) /\ (CanLoad(d)' <=> CanLoad(d))
                          /\ (Told(d)' <=> Told(d))
    <3>1. \A d \in Client : Told(d)' <=> Told(d)
      BY <1>7, <1>8, <2>1 DEF Told
    <3>2. \A d \in Client : /\ HasAny(up[d], LoadReqs)' <=> HasAny(up[d], LoadReqs)
                            /\ job'[d].does = "LoadGame" <=> job[d].does = "LoadGame"
                            /\ job[d].does = "LoadGame" => job'[d].todo = job[d].todo
      BY <1>2, <1>3, <1>13
    <3> QED BY <1>2, <3>1, <3>2, SameRequests
  <2>3. ASSUME NEW d \in Client PROVE OnceInv(d)'
    <3>1. OnceAny(down'[d], LoadReqs) /\ ~HasAny(down'[d], LoadReqs \ {LoadReq(chosen)})
      BY <1>7, <1>8, <2>1, OneFacts DEF OnceInv
    <3> QED BY <1>2, <1>10, <2>2, <3>1, OneFacts DEF OnceInv
  <2>4. CASE NobodyFailed
    <3>1. m # LoadReq(None)
      <4>1. job[c].does = "StartGame"
        BY <1>9, <1>13, <2>4 DEF NobodyFailed
      <4> QED BY <1>6, <4>1, LoadReqMessages
    <3>2. \A d \in Client : ~HasAny(down'[d], {LoadReq(None)})
      BY <1>7, <1>8, <2>4, <3>1 DEF NobodyFailed
    <3>3. NobodyFailed'
      BY <1>2, <1>3, <1>5, <2>2, <2>4, <3>2 DEF NobodyFailed
    <3> QED BY <1>2, <1>11, <2>3, <3>3, OneFacts DEF OneLoad
  <2>5. CASE SomebodyFailed
    <3>1. SomebodyFailed'
      BY <1>2, <1>3, <1>5, <1>10, <2>2, <2>5 DEF SomebodyFailed, Out
    <3> QED BY <1>2, <1>11, <2>3, <3>1, OneFacts DEF OneLoad
  <2> QED BY <2>4, <2>5, OneFacts
<1> QED BY <1>12, <1>13

\* A broadcast of the thread of c ends.
LEMMA OneFinish ==
  ASSUME TypeOK, SessionInv, OneLoad, NEW c \in Client, NEW what, NEW state,
         <<what, state>> \in {<<"LoadGame", "LOADING">>, <<"UnloadGame", "IDLE">>,
                              <<"StartGame", "PLAY">>},
         FinishBroadcast(c, what, state)
  PROVE  OneLoad'
<1>1. /\ job[c].does = what /\ what \in {"LoadGame", "UnloadGame", "StartGame"}
      /\ state # "LOADED"
      /\ job[c].todo \intersect Connected = {}
      /\ job'[c] = Reading /\ \A d \in Client : d # c => job'[d] = job[d]
      /\ sClientState' = [d \in Client |-> state]
      /\ UNCHANGED <<sock, ghost, up, down, eStatus, loading, rom, chosen, requests>>
  BY DEF FinishBroadcast, Finish, SetGameState, client, bounds, TypeOK
<1>2. Reading.does = "Reading"
  BY DEF Reading
<1>3. AtStart \subseteq Client /\ \A f \in AtStart : f \notin job[c].todo
  BY <1>1, OneFacts, NetSessionAssumption DEF FixedInv, Connected
<1>4. Unread' <=> Unread
  BY <1>1 DEF Unread
<1>5. \A d \in Client : /\ Untold(d)' => Untold(d)
                        /\ CanLoad(d)' => CanLoad(d)
                        /\ Told(d)' <=> Told(d)
                        /\ d \in AtStart => (CanLoad(d)' <=> CanLoad(d))
  BY <1>1, <1>2, <1>3, <1>4 DEF Untold, CanLoad, Told
<1>6. \A d \in Client : (Answers(d)' <=> Answers(d)) /\ sClientState'[d] # "LOADED"
  BY <1>1, <1>2 DEF Answers
<1>7. ASSUME NEW d \in Client PROVE FixedInv(d)' /\ RequestInv(d)' /\ OnceInv(d)'
  <2>1. FixedInv(d)'
    BY <1>1, <1>2, OneFacts DEF FixedInv
  <2>2. RequestInv(d)'
    BY <1>1, <1>2, OneFacts DEF RequestInv
  <2>3. OnceInv(d)'
    BY <1>1, <1>5, <1>6, OneFacts DEF OnceInv
  <2> QED BY <2>1, <2>2, <2>3
<1>8. CASE NobodyFailed
  <2>1. NobodyFailed'
    BY <1>1, <1>2, <1>3, <1>5, <1>8 DEF NobodyFailed
  <2> QED BY <1>1, <1>7, <2>1, OneFacts DEF OneLoad
<1>9. CASE SomebodyFailed
  <2>1. SomebodyFailed'
    BY <1>1, <1>2, <1>3, <1>5, <1>6, <1>9 DEF SomebodyFailed, Out
  <2> QED BY <1>1, <1>7, <2>1, OneFacts DEF OneLoad
<1> QED BY <1>8, <1>9, OneFacts

\* The thread of c counts c among the loaded, or begins to end the game.
LEMMA OneFinishAnswer ==
  ASSUME TypeOK, SessionInv, OneLoad, NEW c \in Client, FinishLoadAck(c) \/ FinishLoadError(c)
  PROVE  OneLoad'
<1>1. /\ job[c].does \in {"LoadAck", "LoadError"}
      /\ \A d \in Client : d # c => job'[d] = job[d] /\ sClientState'[d] = sClientState[d]
      /\ UNCHANGED <<sock, ghost, up, down, eStatus, loading, rom, chosen, requests>>
  BY DEF FinishLoadAck, FinishLoadError, Finish, client, bounds, TypeOK
<1>2. /\ job'[c].does \in {"Reading", "StartGame", "UnloadGame"}
      /\ job'[c].does = "UnloadGame" => job'[c].game = None /\ job[c].does = "LoadError"
      /\ job'[c].does = "StartGame" =>
           /\ job[c].does = "LoadAck"
           /\ \A d \in Client : sock[d] = "CONNECTED" => sClientState'[d] = "LOADED"
      /\ sClientState'[c] = "LOADED" => job[c].does = "LoadAck" \/ sClientState[c] = "LOADED"
  <2>1. Reading.does = "Reading" /\ \A w, s, g : Job(w, s, g).does = w /\ Job(w, s, g).game = g
    BY DEF Reading, Job
  <2>2. CASE FinishLoadAck(c)
    BY <2>1, <2>2 DEF FinishLoadAck, Finish, AllLoaded, Connected, TypeOK
  <2>3. CASE FinishLoadError(c)
    BY <2>1, <2>3 DEF FinishLoadError, Finish, UnloadGame, TypeOK
  <2> QED BY <2>2, <2>3
<1>3. AtStart \subseteq Client /\ \A f \in AtStart : sock[f] = "CONNECTED"
  BY OneFacts, NetSessionAssumption DEF FixedInv
<1>4. \A d \in Client : (Untold(d)' <=> Untold(d)) /\ (CanLoad(d)' <=> CanLoad(d))
                        /\ (Told(d)' <=> Told(d))
  <2>1. \A d \in Client : /\ HasAny(up[d], LoadReqs)' <=> HasAny(up[d], LoadReqs)
                          /\ Told(d)' <=> Told(d)
                          /\ job'[d].does = "LoadGame" <=> job[d].does = "LoadGame"
                          /\ job[d].does = "LoadGame" => job'[d].todo = job[d].todo
    BY <1>1, <1>2 DEF Told
  <2> QED BY <1>1, <2>1, SameRequests
<1>5. \A d \in Client : Answers(d)' => Answers(d)
  BY <1>1, <1>2 DEF Answers
<1>6. \A d \in Client : sClientState'[d] = "LOADED" => Answers(d) \/ sClientState[d] = "LOADED"
  BY <1>1, <1>2 DEF Answers
<1>7. ASSUME NEW d \in Client PROVE FixedInv(d)' /\ RequestInv(d)' /\ OnceInv(d)'
  <2>1. FixedInv(d)'
    BY <1>1, <1>2, OneFacts DEF FixedInv
  <2>2. RequestInv(d)'
    BY <1>1, <1>2, OneFacts DEF RequestInv
  <2>3. OnceInv(d)'
    BY <1>1, <1>4, <1>5, <1>6, OneFacts DEF OnceInv
  <2> QED BY <2>1, <2>2, <2>3
<1>8. CASE NobodyFailed
  <2>1. job'[c].does = "StartGame" => \A d \in AtStart : ~CanLoad(d)
    BY <1>2, <1>3, <1>6, OneFacts DEF OnceInv
  <2>2. NobodyFailed'
    BY <1>1, <1>2, <1>3, <1>4, <1>8, <2>1 DEF NobodyFailed
  <2> QED BY <1>1, <1>7, <2>2, OneFacts DEF OneLoad
<1>9. CASE SomebodyFailed
  <2>1. PICK f \in AtStart : Out(f)
    BY <1>9 DEF SomebodyFailed
  <2>2. sClientState'[f] # "LOADED" /\ Out(f)'
    BY <1>3, <1>4, <1>5, <1>6, <2>1 DEF Out
  <2>3. SomebodyFailed'
    BY <1>1, <1>2, <1>3, <1>9, <2>2 DEF SomebodyFailed
  <2> QED BY <1>1, <1>7, <2>3, OneFacts DEF OneLoad
<1> QED BY <1>8, <1>9, OneFacts

\* What c has when it has read a message of type t.
LEMMA OneHearFacts ==
  ASSUME TypeOK, SessionInv, OneLoad, NEW c \in Client, NEW t, Hear(c, t)
  PROVE  /\ c \in AtStart /\ loading[c] = None
         /\ \A d \in Client : d # c => down'[d] = down[d]
         /\ \A M : /\ HasAny(down'[c], M) => HasAny(down[c], M)
                   /\ OnceAny(down[c], M) => OnceAny(down'[c], M)
         /\ t = "LOADREQ" =>
              \/ /\ Head(down[c]).game = chosen /\ chosen # None
                 /\ Told(c) /\ ~HasAny(down'[c], LoadReqs)
              \/ /\ Head(down[c]).game = None /\ HasAny(down[c], {LoadReq(None)})
                 /\ HasAny(down'[c], LoadReqs) <=> Told(c)
         /\ t # "LOADREQ" => (HasAny(down'[c], LoadReqs) <=> Told(c))
<1> DEFINE h == Head(down[c])
<1>1. /\ loading[c] = None /\ down[c] # << >> /\ h.type = t
      /\ down' = [down EXCEPT ![c] = Tail(@)]
  BY DEF Hear
<1>2. /\ down'[c] = Tail(down[c]) /\ down[c] \in Seq(DownMessage)
      /\ \A d \in Client : d # c => down'[d] = down[d]
  BY <1>1 DEF TypeOK
<1>3. c \in AtStart
  BY <1>1, OneFacts DEF Attended, FixedInv
<1>4. h \in DownMessage
  BY <1>1, <1>2, HeadTailProperties
<1> HIDE DEF h
<1>5. \A M : /\ h \in M => HasAny(down[c], M)
             /\ HasAny(down'[c], M) => HasAny(down[c], M)
             /\ HasAny(down[c], M) => h \in M \/ HasAny(down'[c], M)
             /\ OnceAny(down[c], M) => OnceAny(down'[c], M) /\ (h \in M => ~HasAny(down'[c], M))
  BY <1>1, <1>2, AnyTail DEF h
<1>6. t # "LOADREQ" => h \notin LoadReqs
  BY <1>1, LoadReqMessages
<1>7. ASSUME t = "LOADREQ", h.game # None
      PROVE  /\ h.game = chosen /\ chosen # None
             /\ Told(c) /\ ~HasAny(down'[c], LoadReqs)
  <2>1. h \in LoadReqs /\ h = LoadReq(h.game)
    BY <1>1, <1>4, <1>7, LoadReqMessages
  <2>2. OnceAny(down[c], LoadReqs) /\ ~HasAny(down[c], LoadReqs \ {LoadReq(chosen)})
    BY OneFacts DEF OnceInv
  <2>3. h = LoadReq(chosen)
    BY <1>5, <2>1, <2>2
  <2>4. h.game = chosen
    BY <2>3 DEF LoadReq
  <2> QED BY <1>5, <1>7, <2>1, <2>2, <2>4 DEF Told
<1>8. ASSUME t = "LOADREQ", h.game = None
      PROVE  HasAny(down[c], {LoadReq(None)}) /\ (HasAny(down'[c], LoadReqs) <=> Told(c))
  <2>1. h = LoadReq(None) /\ h \notin LoadReqs
    BY <1>1, <1>4, <1>8, LoadReqMessages
  <2> QED BY <1>5, <2>1 DEF Told
<1> QED BY <1>1, <1>2, <1>3, <1>5, <1>6, <1>7, <1>8 DEF Told, h

LEMMA OneClientReads ==
  ASSUME TypeOK, SessionInv, OneLoad, NEW c \in Client,
         RecvServerHello(c) \/ RecvLoad(c) \/ RecvUnload(c) \/ RecvStartGame(c)
  PROVE  OneLoad'
<1>1. PICK t : Hear(c, t)
  BY DEF RecvServerHello, RecvLoad, RecvUnload, RecvStartGame
<1>2. /\ c \in AtStart /\ \A d \in Client : d # c => down'[d] = down[d]
      /\ \A M : /\ HasAny(down'[c], M) => HasAny(down[c], M)
                /\ OnceAny(down[c], M) => OnceAny(down'[c], M)
  BY <1>1, OneHearFacts
<1>3. UNCHANGED <<sGameState, sClientState, sock, job, ghost, up, chosen, requests>>
  BY DEF RecvServerHello, RecvLoad, RecvUnload, RecvStartGame, server, bounds
<1>4. /\ CanLoad(c)' <=> CanLoad(c)
      /\ Untold(c)' <=> Untold(c)
      /\ Told(c)' => Told(c) /\ loading'[c] = loading[c]
      /\ loading'[c] # None => loading'[c] = chosen /\ (loading[c] # None \/ Told(c))
      /\ \A d \in Client : d # c => loading'[d] = loading[d] /\ rom'[d] = rom[d]
      /\ \A d \in Client : eStatus'[d] = eStatus[d]
      /\ rom'[c] = rom[c] \/ HasAny(down[c], {LoadReq(None)})
  <2>1. Untold(c)' <=> Untold(c)
    BY <1>3 DEF Untold, Unread
  <2>2. eStatus[c] = "CONNECTED"
    BY <1>2, OneFacts DEF FixedInv
  <2>3. CASE RecvServerHello(c)
    <3>1. Hear(c, "HELLO") /\ eStatus' = [eStatus EXCEPT ![c] = "CONNECTED"]
          /\ UNCHANGED <<loading, rom>>
      BY <2>3 DEF RecvServerHello
    <3> QED BY <2>1, <2>2, <3>1, OneHearFacts, OneFacts DEF CanLoad, Told, TypeOK, OnceInv
  <2>4. CASE RecvLoad(c)
    <3>1. Hear(c, "LOADREQ") /\ Head(down[c]).game # None
          /\ loading' = [loading EXCEPT ![c] = Head(down[c]).game]
          /\ UNCHANGED <<eStatus, rom>>
      BY <2>4 DEF RecvLoad
    <3>2. /\ Head(down[c]).game = chosen /\ chosen # None /\ Told(c) /\ ~Told(c)'
      BY <3>1, OneHearFacts DEF Told
    <3> QED BY <2>1, <3>1, <3>2 DEF CanLoad, TypeOK
  <2>5. CASE RecvUnload(c)
    <3>1. Hear(c, "LOADREQ") /\ Head(down[c]).game = None
          /\ rom' = [rom EXCEPT ![c] = None] /\ UNCHANGED <<eStatus, loading>>
      BY <2>5 DEF RecvUnload
    <3>2. HasAny(down[c], {LoadReq(None)}) /\ (Told(c)' <=> Told(c))
      BY <3>1, OneHearFacts DEF Told
    <3> QED BY <2>1, <3>1, <3>2, OneFacts DEF CanLoad, TypeOK, OnceInv
  <2>6. CASE RecvStartGame(c)
    <3>1. Hear(c, "STARTGAME") /\ UNCHANGED <<eStatus, loading, rom>>
      BY <2>6 DEF RecvStartGame
    <3> QED BY <2>1, <3>1, OneHearFacts, OneFacts DEF CanLoad, Told, OnceInv
  <2> QED BY <2>3, <2>4, <2>5, <2>6
<1>5. \A d \in Client : /\ CanLoad(d)' <=> CanLoad(d)
                        /\ Untold(d)' <=> Untold(d)
                        /\ Answers(d)' <=> Answers(d)
                        /\ \A M : HasAny(down'[d], M) => HasAny(down[d], M)
                        /\ OnceAny(down[d], LoadReqs) => OnceAny(down'[d], LoadReqs)
  <2>1. \A d \in Client : Untold(d)' <=> Untold(d)
    BY <1>3 DEF Untold, Unread
  <2>2. \A d \in Client : Answers(d)' <=> Answers(d)
    BY <1>3 DEF Answers
  <2>3. \A d \in Client : d # c => (CanLoad(d)' <=> CanLoad(d))
    BY <1>2, <1>4, <2>1 DEF CanLoad, Told
  <2> QED BY <1>2, <1>4, <2>1, <2>2, <2>3
<1>6. ASSUME NEW d \in Client PROVE FixedInv(d)' /\ RequestInv(d)'
  BY <1>3, <1>4, OneFacts DEF FixedInv, RequestInv
<1>7. ASSUME NEW d \in Client PROVE OnceInv(d)'
  <2>1. CASE d = c
    BY <2>1, <1>2, <1>3, <1>4, <1>5, OneFacts DEF OnceInv
  <2>2. CASE d # c
    BY <2>2, <1>2, <1>3, <1>4, <1>5, OneFacts DEF OnceInv, Told
  <2> QED BY <2>1, <2>2
<1>8. CASE NobodyFailed
  <2>1. rom'[c] = rom[c]
    BY <1>4, <1>8 DEF NobodyFailed
  <2>2. \A d \in AtStart : CanLoad(d)' \/ rom'[d] = chosen
    BY <1>4, <1>5, <1>8, <2>1, NetSessionAssumption DEF NobodyFailed
  <2>3. NobodyFailed'
    BY <1>3, <1>5, <1>8, <2>2, NetSessionAssumption DEF NobodyFailed
  <2> QED BY <1>3, <1>6, <1>7, <2>3, OneFacts DEF OneLoad
<1>9. CASE SomebodyFailed
  <2>1. SomebodyFailed'
    BY <1>3, <1>5, <1>9, NetSessionAssumption DEF SomebodyFailed, Out
  <2> QED BY <1>3, <1>6, <1>7, <2>1, OneFacts DEF OneLoad
<1> QED BY <1>8, <1>9, OneFacts

\* What c has sent, when it sends one more message.
LEMMA OneUpFacts ==
  ASSUME TypeOK, SessionInv, OneLoad, NEW c \in Client, NEW m \in UpMessage,
         up' = [up EXCEPT ![c] = Append(@, m)]
  PROVE  /\ \A d \in Client : d # c => up'[d] = up[d]
         /\ \A t : Has(up'[c], t) <=> Has(up[c], t) \/ m.type = t
         /\ \A M : /\ HasAny(up'[c], M) <=> HasAny(up[c], M) \/ m \in M
                   /\ OnceAny(up[c], M) /\ (m \in M => ~HasAny(up[c], M)) => OnceAny(up'[c], M)
<1>1. up[c] \in Seq(UpMessage) /\ up'[c] = Append(up[c], m)
      /\ \A d \in Client : d # c => up'[d] = up[d]
  BY DEF TypeOK
<1>2. \A t : Has(up'[c], t) <=> Has(up[c], t) \/ m.type = t
  BY <1>1, HasAppend
<1> QED BY <1>1, <1>2, AnyAppend

\* c has loaded the game, or could not.
LEMMA OneClientLoads ==
  ASSUME TypeOK, SessionInv, OneLoad, NEW c \in Client, NEW ok \in BOOLEAN, Load(c, ok)
  PROVE  OneLoad'
<1> DEFINE m == Message(IF ok THEN "OK" ELSE "ERROR")
<1>1. /\ loading[c] # None
      /\ loading' = [loading EXCEPT ![c] = None]
      /\ ok => rom' = [rom EXCEPT ![c] = loading[c]]
      /\ up' = [up EXCEPT ![c] = Append(@, m)]
      /\ UNCHANGED <<sGameState, sClientState, sock, job, ghost, down, eStatus, chosen, requests>>
  BY DEF Load, server, bounds
<1>2. m \in UpMessage /\ m.type = (IF ok THEN "OK" ELSE "ERROR")
      /\ m \notin LoadReqs /\ m # LoadReq(None)
  BY MessageTypes, LoadReqMessages DEF Message
<1>3. /\ c \in AtStart /\ CanLoad(c) /\ ~Untold(c) /\ ~Told(c) /\ ~Answers(c)
      /\ sClientState[c] # "LOADED" /\ loading[c] = chosen /\ job[c].does # "LoadAck"
  BY <1>1, OneFacts DEF Attended, FixedInv, OnceInv, CanLoad, Answers
<1>4. /\ \A d \in Client : d # c => up'[d] = up[d]
      /\ \A t : Has(up'[c], t) <=> Has(up[c], t) \/ m.type = t
      /\ \A M : /\ HasAny(up'[c], M) <=> HasAny(up[c], M) \/ m \in M
                /\ OnceAny(up[c], M) /\ (m \in M => ~HasAny(up[c], M)) => OnceAny(up'[c], M)
  BY <1>1, <1>2, OneUpFacts
<1> HIDE DEF m
<1>5. \A d \in Client : HasAny(up'[d], LoadReqs) <=> HasAny(up[d], LoadReqs)
  BY <1>2, <1>4
<1>6. \A d \in Client : (Untold(d)' <=> Untold(d)) /\ (Told(d)' <=> Told(d))
                        /\ (d # c => loading'[d] = loading[d])
  BY <1>1, <1>5 DEF Untold, Unread, Told, TypeOK
<1>7. /\ ~CanLoad(c)' /\ loading'[c] = None
      /\ \A d \in Client : d # c => (CanLoad(d)' <=> CanLoad(d)) /\ (Answers(d)' <=> Answers(d))
  <2>1. loading'[c] = None
    BY <1>1 DEF TypeOK
  <2>2. \A d \in Client : d # c => (Answers(d)' <=> Answers(d))
    BY <1>1, <1>4 DEF Answers
  <2> QED BY <1>3, <1>6, <2>1, <2>2 DEF CanLoad
<1>8. ASSUME NEW d \in Client PROVE FixedInv(d)' /\ RequestInv(d)' /\ OnceInv(d)'
  <2>1. FixedInv(d)'
    <3>1. CASE d = c
      BY <3>1, <1>1, <1>2, <1>3, <1>4, OneFacts DEF FixedInv
    <3>2. CASE d # c
      BY <3>2, <1>1, <1>4, OneFacts DEF FixedInv
    <3> QED BY <3>1, <3>2
  <2>2. OnceAny(up'[d], LoadReqs)
    BY <1>2, <1>4, OneFacts DEF RequestInv
  <2>3. RequestInv(d)'
    BY <1>1, <1>5, <2>2, OneFacts DEF RequestInv
  <2>4. OnceInv(d)'
    <3>1. CASE d = c
      BY <3>1, <1>1, <1>3, <1>6, <1>7, OneFacts DEF OnceInv
    <3>2. CASE d # c
      BY <3>2, <1>1, <1>6, <1>7, OneFacts DEF OnceInv
    <3> QED BY <3>1, <3>2
  <2> QED BY <2>1, <2>3, <2>4
<1>9. CASE NobodyFailed
  <2>1. \A d \in Client : job[d].does # "StartGame"
    BY <1>3, <1>9 DEF NobodyFailed
  <2>2. CASE ok
    <3>1. \A d \in Client : ~Has(up'[d], "ERROR")
      BY <1>2, <1>4, <1>9, <2>2 DEF NobodyFailed
    <3>2. \A d \in AtStart : CanLoad(d)' \/ rom'[d] = chosen
      BY <1>1, <1>3, <1>7, <1>9, <2>2, NetSessionAssumption DEF NobodyFailed, TypeOK
    <3>3. NobodyFailed'
      BY <1>1, <1>9, <2>1, <3>1, <3>2 DEF NobodyFailed
    <3> QED BY <1>1, <1>8, <3>3, OneFacts DEF OneLoad
  <2>3. CASE ~ok
    <3>1. ~Answers(c)'
      BY <1>1, <1>2, <1>3, <1>4, <2>3 DEF Answers
    <3>2. SomebodyFailed'
      BY <1>1, <1>3, <1>7, <2>1, <3>1 DEF SomebodyFailed, Out
    <3> QED BY <1>1, <1>8, <3>2, OneFacts DEF OneLoad
  <2> QED BY <2>2, <2>3
<1>10. CASE SomebodyFailed
  <2>1. PICK f \in AtStart : Out(f)
    BY <1>10 DEF SomebodyFailed
  <2>2. f # c /\ f \in Client
    BY <1>3, <2>1, NetSessionAssumption DEF Out
  <2>3. SomebodyFailed'
    BY <1>1, <1>7, <1>10, <2>1, <2>2 DEF SomebodyFailed, Out
  <2> QED BY <1>1, <1>8, <2>3, OneFacts DEF OneLoad
<1> QED BY <1>9, <1>10, OneFacts

LEMMA OneChoose ==
  ASSUME MaxRequests = 1, requests \in Nat, TypeOK, SessionInv, OneLoad,
         NEW c \in Client, NEW g \in Game, ChooseGame(c, g)
  PROVE  OneLoad'
<1>1. /\ requests = 0 /\ requests' = 1 /\ eStatus[c] = "CONNECTED"
      /\ up' = [up EXCEPT ![c] = Append(@, LoadReq(g))]
      /\ UNCHANGED <<sGameState, sClientState, sock, job, ghost, down, eStatus, loading, rom, chosen>>
  BY DEF ChooseGame, server, client
<1>2. /\ LoadReq(g) \in UpMessage /\ LoadReq(g).type = "LOADREQ"
      /\ LoadReq(g) \in LoadReqs /\ LoadReq(g) # LoadReq(None)
  BY MessageTypes, LoadReqMessages DEF LoadReq
<1>3. /\ \A d \in Client : d # c => up'[d] = up[d]
      /\ \A t : Has(up'[c], t) <=> Has(up[c], t) \/ t = "LOADREQ"
      /\ \A M : /\ HasAny(up'[c], M) <=> HasAny(up[c], M) \/ LoadReq(g) \in M
                /\ OnceAny(up[c], M) /\ (LoadReq(g) \in M => ~HasAny(up[c], M)) => OnceAny(up'[c], M)
  <2> DEFINE m == LoadReq(g)
  <2>1. m \in UpMessage /\ m.type = "LOADREQ" /\ up' = [up EXCEPT ![c] = Append(@, m)]
    BY <1>1, <1>2
  <2> HIDE DEF m
  <2>2. /\ \A d \in Client : d # c => up'[d] = up[d]
        /\ \A t : Has(up'[c], t) <=> Has(up[c], t) \/ m.type = t
        /\ \A M : /\ HasAny(up'[c], M) <=> HasAny(up[c], M) \/ m \in M
                  /\ OnceAny(up[c], M) /\ (m \in M => ~HasAny(up[c], M)) => OnceAny(up'[c], M)
    BY <2>1, OneUpFacts
  <2> QED BY <2>1, <2>2 DEF m
<1>4. \A d \in Client : ~HasAny(up[d], LoadReqs) /\ job[d].does # "LoadGame"
  BY <1>1, OneFacts DEF RequestInv
<1>5. c \in AtStart
  BY <1>1, OneFacts DEF FixedInv
<1>6. \A d \in Client : Untold(d) /\ Untold(d)' /\ CanLoad(d) /\ CanLoad(d)'
                        /\ (Told(d)' <=> Told(d)) /\ (Answers(d)' <=> Answers(d))
  <2>1. Unread'
    BY <1>2, <1>3 DEF Unread
  <2>2. \A d \in Client : Answers(d)' <=> Answers(d)
    BY <1>1, <1>3 DEF Answers
  <2> QED BY <1>1, <2>1, <2>2 DEF Untold, CanLoad, Told
<1>7. ASSUME NEW d \in Client PROVE FixedInv(d)' /\ RequestInv(d)' /\ OnceInv(d)'
  <2>1. FixedInv(d)'
    <3>1. CASE d = c
      BY <3>1, <1>1, <1>2, <1>3, <1>5, OneFacts DEF FixedInv
    <3>2. CASE d # c
      BY <3>2, <1>1, <1>3, OneFacts DEF FixedInv
    <3> QED BY <3>1, <3>2
  <2>2. RequestInv(d)'
    <3>1. CASE d = c
      BY <3>1, <1>1, <1>3, <1>4, OneFacts DEF RequestInv
    <3>2. CASE d # c
      BY <3>2, <1>1, <1>3, <1>4, OneFacts DEF RequestInv
    <3> QED BY <3>1, <3>2
  <2>3. OnceInv(d)'
    BY <1>1, <1>6, OneFacts DEF OnceInv
  <2> QED BY <2>1, <2>2, <2>3
<1>8. NobodyFailed'
  <2>1. NobodyFailed
    BY <1>6, OneFacts, NetSessionAssumption DEF SomebodyFailed, Out
  <2>2. \A d \in Client : job[d].does # "StartGame"
    BY <1>5, <1>6, <2>1 DEF NobodyFailed
  <2> QED BY <1>1, <1>3, <1>6, <2>1, <2>2, NetSessionAssumption DEF NobodyFailed
<1> QED BY <1>1, <1>7, <1>8, OneFacts DEF OneLoad

LEMMA OneLoadStep ==
  ASSUME MaxRequests = 1, TypeOK, SessionInv, OneLoadInv, [Next]_vars
  PROVE  OneLoadInv'
<1>1. requests' \in Nat /\ joins' \in Nat /\ leaves' \in Nat
      /\ joins' >= joins /\ leaves' >= leaves
  <2>1. CASE UNCHANGED vars
    BY <2>1 DEF vars, bounds, OneLoadInv
  <2>2. ASSUME NEW c \in Client,
               ServerThread(c) \/ FinishGhost(c) \/ Accept(c) \/ ClientThread(c) \/ Player(c)
        PROVE  requests' \in Nat /\ joins' \in Nat /\ leaves' \in Nat
               /\ joins' >= joins /\ leaves' >= leaves
    <3>1. CASE Accept(c) \/ Player(c)
      BY <3>1 DEF Accept, Player, Disconnect, ChooseGame, OneLoadInv
    <3>2. CASE ServerThread(c) \/ FinishGhost(c) \/ ClientThread(c)
      <4>1. UNCHANGED bounds
        BY <3>2 DEF ServerThread, FinishGhost, ClientThread, RecvClientHello, RecvLoadReq,
                    RecvClose, RecvLoadAck, Send, FinishBroadcast, FinishLoadAck,
                    FinishLoadError, FinishAbort, Abort, RecvServerHello, RecvLoad, RecvUnload,
                    RecvStartGame, Load
      <4> QED BY <4>1 DEF bounds, OneLoadInv
    <3> QED BY <2>2, <3>1, <3>2
  <2> QED BY <2>1, <2>2 DEF Next
<1>2. SUFFICES ASSUME joins' + leaves' = 0 PROVE OneLoad'
  BY <1>1 DEF OneLoadInv
<1>3. joins = 0 /\ leaves = 0 /\ joins' = 0 /\ leaves' = 0 /\ OneLoad /\ requests \in Nat
  <2>1. joins \in Nat /\ leaves \in Nat /\ requests \in Nat
    BY DEF OneLoadInv
  <2>2. \A a, b \in Nat : a + b = 0 => a = 0 /\ b = 0
    OBVIOUS
  <2>3. joins' = 0 /\ leaves' = 0
    BY <1>1, <1>2, <2>2
  <2>4. joins = 0 /\ leaves = 0
    BY <1>1, <2>1, <2>3
  <2> QED BY <2>1, <2>3, <2>4 DEF OneLoadInv
<1>4. CASE UNCHANGED vars
  <2>1. UNCHANGED <<sGameState, sClientState, sock, job, ghost, up, down, eStatus,
                    loading, rom, chosen, requests>>
    BY <1>4 DEF vars, server, client, bounds
  <2>2. \A d \in Client : /\ CanLoad(d)' <=> CanLoad(d)
                          /\ Untold(d)' <=> Untold(d)
                          /\ Told(d)' <=> Told(d)
                          /\ Answers(d)' <=> Answers(d)
    BY <2>1 DEF CanLoad, Untold, Unread, Told, Answers
  <2>3. ASSUME NEW d \in Client PROVE FixedInv(d)' /\ RequestInv(d)' /\ OnceInv(d)'
    BY <2>1, <2>2, <1>3, OneFacts DEF FixedInv, RequestInv, OnceInv
  <2>4. NobodyFailed' \/ SomebodyFailed'
    BY <2>1, <2>2, <1>3, NetSessionAssumption DEF OneLoad, NobodyFailed, SomebodyFailed, Out
  <2> QED BY <1>3, <2>1, <2>3, <2>4 DEF OneLoad
<1>5. CASE Next
  <2>1. PICK c \in Client : ServerThread(c) \/ FinishGhost(c) \/ Accept(c) \/ ClientThread(c)
                            \/ Player(c)
    BY <1>5 DEF Next
  <2>2. CASE ServerThread(c)
    <3>1. ~RecvClientHello(c) /\ ~RecvClose(c)
      BY <1>3, OneReadFacts DEF RecvClientHello, RecvClose
    <3>2. ~FinishAbort(c)
      BY <1>3, OneFacts DEF FinishAbort, Finish, FixedInv
    <3>3. CASE \/ FinishBroadcast(c, "LoadGame", "LOADING")
               \/ FinishBroadcast(c, "UnloadGame", "IDLE")
               \/ FinishBroadcast(c, "StartGame", "PLAY")
      BY <1>3, <3>3, OneFinish
    <3>4. CASE \/ RecvLoadReq(c) \/ RecvLoadAck(c, "OK", "LoadAck")
               \/ RecvLoadAck(c, "ERROR", "LoadError") \/ Send(c)
               \/ FinishLoadAck(c) \/ FinishLoadError(c)
      BY <1>3, <3>4, OneLoadReq, OneAck, OneSend, OneFinishAnswer
    <3> QED BY <2>2, <3>1, <3>2, <3>3, <3>4 DEF ServerThread
  <2>3. ~FinishGhost(c)
    BY <1>3, OneFacts DEF FinishGhost
  <2>4. ~Accept(c) /\ ~Disconnect(c)
    BY <1>3 DEF Accept, Disconnect
  <2>5. CASE ClientThread(c)
    BY <1>3, <2>5, OneClientReads, OneClientLoads DEF ClientThread
  <2>6. CASE Player(c)
    BY <1>3, <2>4, <2>6, OneChoose DEF Player
  <2> QED BY <2>1, <2>2, <2>3, <2>4, <2>5, <2>6
<1> QED BY <1>4, <1>5

LEMMA OneLoadInit == Init => OneLoadInv
<1> SUFFICES ASSUME Init PROVE OneLoadInv
  OBVIOUS
<1>1. /\ ghost = {} /\ requests = 0 /\ joins = 0 /\ leaves = 0
      /\ \A c \in Client : /\ sClientState[c] = "IDLE" /\ job[c] = Reading
                           /\ up[c] = << >> /\ down[c] = << >> /\ loading[c] = None
                           /\ sock[c] = IF c \in AtStart THEN "CONNECTED" ELSE "INVALID"
                           /\ eStatus[c] = IF c \in AtStart THEN "CONNECTED" ELSE "IDLE"
  BY DEF Init
<1>2. Reading.does = "Reading"
  BY DEF Reading
<1>3. \A c \in Client : CanLoad(c) /\ ~Told(c) /\ ~Answers(c)
  BY <1>1, <1>2, AnyEmpty, HasEmpty DEF CanLoad, Untold, Told, Answers
<1>4. ASSUME NEW c \in Client PROVE FixedInv(c) /\ RequestInv(c) /\ OnceInv(c)
  BY <1>1, <1>2, <1>3, AnyEmpty, HasEmpty DEF FixedInv, RequestInv, OnceInv
<1>5. NobodyFailed
  BY <1>1, <1>2, <1>3, AnyEmpty, HasEmpty, NetSessionAssumption DEF NobodyFailed
<1> QED BY <1>1, <1>4, <1>5 DEF OneLoadInv, OneLoad

\* When the server starts a game, every client it is connected to has loaded
\* it, for every number of slots, where one game is chosen: whatever threads
\* run between the sends of another, whoever fails to load, and however fast
\* the others are (NetServerT.eGameState, _NetServerStartGame).
THEOREM EveryoneHasLoadedHolds == ASSUME MaxRequests = 1 PROVE Spec => []EveryoneHasLoaded
<1>1. Init => SessionConsistent /\ OneLoadInv
  <2>1. Init => SessionConsistent
    BY SessionInit
  <2> QED BY <2>1, OneLoadInit
<1>2. SessionConsistent /\ OneLoadInv /\ [Next]_vars => (SessionConsistent /\ OneLoadInv)'
  BY TypeStep, SessionStep, EmptyStep, OneLoadStep DEF SessionConsistent
<1>3. SessionConsistent /\ OneLoadInv => EveryoneHasLoaded
  <2> SUFFICES ASSUME SessionConsistent, OneLoad, NEW c \in Client, job[c].does = "StartGame",
                      NEW d \in Connected
               PROVE  rom[d] = chosen /\ loading[d] = None
    BY DEF OneLoadInv, EveryoneHasLoaded
  <2>1. d \in Client /\ d \in AtStart
    BY DEF Connected, OneLoad, FixedInv
  <2>2. NobodyFailed
    BY DEF OneLoad, SomebodyFailed
  <2>3. ~CanLoad(d) /\ rom[d] = chosen
    BY <2>1, <2>2 DEF NobodyFailed
  <2> QED BY <2>3 DEF CanLoad
<1> QED BY <1>1, <1>2, <1>3, PTL DEF Spec
=============================================================================
