------------------------------ MODULE NetSession ----------------------------
(***************************************************************************)
(* How the netplay server gets every client to load the same game and then *)
(* starts it (Modules/netplay/Source/common/netserver.c, and the messages  *)
(* of the server in netclient.c and Source/ps2/mainloop.cpp).              *)
(*                                                                         *)
(* The server runs a thread per client, which reads the TCP messages of    *)
(* that client and handles each to the end, and one that accepts.  None of *)
(* their data is locked.  A thread gives up the processor where it blocks: *)
(* in the read, and in the sends of a broadcast.  So a broadcast is a job  *)
(* of several steps here, one send each, and what the handler does after   *)
(* the loop is the last.  Interleave tells whether other threads of the    *)
(* server run meanwhile; a send only copies to the buffers of TCP.         *)
(*                                                                         *)
(* A client is known by the slot the server gave it.  It has one thread    *)
(* for the messages of the server, and loading a game keeps it busy.       *)
(*                                                                         *)
(* Messages that change no game state (text, ping, peer information, the   *)
(* copy of an acknowledgement) are left out, but not the time they take    *)
(* where more is done after it.  An operator called Faulty is what the     *)
(* code must not do; nothing uses it.                                      *)
(***************************************************************************)
EXTENDS Naturals, Sequences, FiniteSets

CONSTANTS
  Client,       \* the slots of the server
  Game,         \* the games a player can choose
  None,         \* no game
  AtStart,      \* the clients that are connected when a behaviour starts
  Interleave,   \* other threads of the server run during a broadcast
  MayFail,      \* a client may be unable to load a game
  SlowLoads,    \* no client loads a game faster than a broadcast ends
  MaxRequests,  \* bound: games chosen
  MaxJoins,     \* bound: clients accepted later
  MaxLeaves     \* bound: clients that disconnect

ASSUME NetSessionAssumption ==
  /\ Client \subseteq Nat /\ AtStart \subseteq Client
  /\ None \notin Game
  /\ Interleave \in BOOLEAN /\ MayFail \in BOOLEAN
  /\ SlowLoads \in BOOLEAN
  /\ MaxRequests \in Nat /\ MaxJoins \in Nat /\ MaxLeaves \in Nat

VARIABLES
  sGameState,    \* NetServerT.eGameState
  sClientState,  \* sClientState[c]: eGameState of the server's slot c
  sock,          \* sock[c]: status of the socket of slot c
  job,           \* job[c]: what the thread of slot c is doing
  ghost,         \* slots with a second thread, ending an earlier connection
  up,            \* up[c]: TCP messages from c that the server has not read
  down,          \* down[c]: TCP messages to c that it has not read
  eStatus,       \* eStatus[c]: connection status of client c
  cGameState,    \* cGameState[c]: eGameState of client c
  loading,       \* loading[c]: the game the thread of c is loading
  rom,           \* rom[c]: the game c has loaded
  chosen,        \* history: the game of the latest load request
  requests, joins, leaves  \* bounds: counted so far

server == <<sGameState, sClientState, sock, job, ghost>>
client == <<eStatus, cGameState, loading, rom>>
bounds == <<requests, joins, leaves>>
vars == <<server, up, down, client, chosen, bounds>>

-----------------------------------------------------------------------------
Message(t) == [type |-> t, game |-> None]
LoadReq(g) == [type |-> "LOADREQ", game |-> g]

\* A thread that waits for a message, and one that is broadcasting game (or
\* nothing that matters) to the slots todo.
Reading == [does |-> "Reading", todo |-> {}, game |-> None]
Job(what, todo, g) == [does |-> what, todo |-> todo, game |-> g]

Connected == { c \in Client : sock[c] = "CONNECTED" }

\* A thread of the server may run.
Scheduled(c) == Interleave \/ \A d \in Client \ {c} : job[d] = Reading

SetGameState(state) ==
  /\ sGameState' = state
  /\ sClientState' = [d \in Client |-> state]

-----------------------------------------------------------------------------
(***************************************************************************)
(* The server.                                                             *)
(***************************************************************************)

\* The thread of c reads a message of type t and begins the job next.
Read(c, t, next) ==
  /\ sock[c] = "CONNECTED" /\ job[c] = Reading /\ Scheduled(c)
  /\ up[c] # << >> /\ Head(up[c]).type = t
  /\ up' = [up EXCEPT ![c] = Tail(@)]
  /\ job' = [job EXCEPT ![c] = next]

\* CLIENTHELLO: answered with SERVERHELLO.
RecvClientHello(c) ==
  /\ Read(c, "HELLO", Reading)
  /\ sClientState' = [sClientState EXCEPT ![c] = "IDLE"]
  /\ down' = [down EXCEPT ![c] =
                IF eStatus[c] = "IDLE" THEN @ ELSE Append(@, Message("HELLO"))]
  /\ UNCHANGED <<sGameState, sock, ghost, client, chosen, bounds>>

LoadAllowed == sGameState # "LOADING"

\* LOADREQ: ignored while a game is being loaded.
RecvLoadReq(c) ==
  /\ Read(c, "LOADREQ",
          IF LoadAllowed THEN Job("LoadGame", Client, Head(up[c]).game)
          ELSE Reading)
  /\ chosen' = IF LoadAllowed THEN Head(up[c]).game ELSE chosen
  /\ UNCHANGED <<sGameState, sClientState, sock, ghost, down, client, bounds>>

\* LOADACK: ignored unless the client is loading.
RecvLoadAck(c, t, what) ==
  /\ Read(c, t, IF sClientState[c] = "LOADING" THEN Job(what, {}, None)
                ELSE Reading)
  /\ UNCHANGED <<sGameState, sClientState, sock, ghost, down, client, chosen,
                 bounds>>

\* The connection is gone: _NetServerClientAbort begins to tell the others.
RecvClose(c) ==
  /\ Read(c, "CLOSE", Job("Abort", {}, None))
  /\ sock' = [sock EXCEPT ![c] = "DISCONNECTING"]
  /\ UNCHANGED <<sGameState, sClientState, ghost, down, client, chosen, bounds>>

\* NetServerBroadcast: the next send of the thread of c.
Send(c) ==
  LET to == job[c].todo \intersect Connected
      m  == IF job[c].does = "StartGame" THEN Message("STARTGAME")
            ELSE LoadReq(job[c].game)
  IN  /\ Scheduled(c)
      /\ \E d \in to :
           /\ \A e \in to : d <= e
           /\ down' = [down EXCEPT ![d] =
                         IF eStatus[d] = "IDLE" THEN @ ELSE Append(@, m)]
           /\ job' = [job EXCEPT ![c].todo = { e \in @ : e > d }]
      /\ UNCHANGED <<sGameState, sClientState, sock, ghost, up, client, chosen,
                     bounds>>

\* The loop of the thread of c is over, what follows it begins.
Finish(c, what) ==
  /\ Scheduled(c)
  /\ job[c].does = what
  /\ job[c].todo \intersect Connected = {}

\* NetServerLoadGame, NetServerUnloadGame and _NetServerStartGame set the
\* state last.
FinishBroadcast(c, what, state) ==
  /\ Finish(c, what)
  /\ SetGameState(state)
  /\ job' = [job EXCEPT ![c] = Reading]
  /\ UNCHANGED <<sock, ghost, up, down, client, chosen, bounds>>

\* Faulty: somebody has loaded.
AnyLoaded(state) == \E d \in Connected : state[d] = "LOADED"

AllLoaded(state) == \A d \in Connected : state[d] = "LOADED"

\* LOADACK_OK: the game starts when the last client has loaded it.
FinishLoadAck(c) ==
  LET state == [sClientState EXCEPT ![c] = "LOADED"]
  IN  /\ Finish(c, "LoadAck")
      /\ sClientState' = state
      /\ IF AllLoaded(state)
         THEN /\ sGameState' = "LOADED"
              /\ job' = [job EXCEPT ![c] = Job("StartGame", Client, None)]
         ELSE /\ job' = [job EXCEPT ![c] = Reading]
              /\ UNCHANGED sGameState
      /\ UNCHANGED <<sock, ghost, up, down, client, chosen, bounds>>

\* Faulty: the others go on without the one that failed.
UnloadNothing == Reading

\* NetServerUnloadGame: everybody is told to unload.
UnloadGame ==
  IF sGameState # "IDLE" THEN Job("UnloadGame", Client, None) ELSE Reading

\* LOADACK_ERROR: a client that cannot load the game ends it for everybody.
FinishLoadError(c) ==
  /\ Finish(c, "LoadError")
  /\ job' = [job EXCEPT ![c] = UnloadGame]
  /\ UNCHANGED <<sGameState, sClientState, sock, ghost, up, down, client,
                 chosen, bounds>>

\* Faulty: the state outlives the last client.
AbandonedKeeps(left) == sGameState

\* The server is idle again when nobody is left.
Abandoned(left) == IF left = {} THEN "IDLE" ELSE sGameState

\* _NetServerClientAbort ends, and the thread with it.
Abort(c) ==
  /\ sClientState' = [sClientState EXCEPT ![c] = "IDLE"]
  /\ sGameState' = Abandoned(Connected)
  /\ sock' = [sock EXCEPT ![c] = "INVALID"]
  /\ UNCHANGED <<up, down, client, chosen, bounds>>

FinishAbort(c) ==
  /\ Finish(c, "Abort")
  /\ job' = [job EXCEPT ![c] = Reading]
  /\ Abort(c)
  /\ UNCHANGED ghost

\* The thread of a connection whose slot has been taken again ends: it makes
\* the new connection invalid.
FinishGhost(c) ==
  /\ c \in ghost
  /\ ghost' = ghost \ {c}
  /\ Abort(c)
  /\ UNCHANGED job

\* _NetServerAccept: an idle server takes a client into the first slot that
\* is not connected; its earlier thread may not have ended.  (A slot that
\* FinishGhost has broken is not taken again.)
Accept(c) ==
  /\ joins < MaxJoins
  /\ Interleave \/ \A d \in Client : job[d] = Reading
  /\ sGameState = "IDLE"
  /\ c \notin Connected /\ \A d \in Client \ Connected : c <= d
  /\ c \notin ghost /\ eStatus[c] = "IDLE"
  /\ job[c] = Reading \/ job[c].does = "Abort"
  /\ sock' = [sock EXCEPT ![c] = "CONNECTED"]
  /\ ghost' = IF job[c].does = "Abort" THEN ghost \union {c} ELSE ghost
  /\ job' = [job EXCEPT ![c] = Reading]
  /\ up' = [up EXCEPT ![c] = << Message("HELLO") >>]
  /\ down' = [down EXCEPT ![c] = << >>]
  /\ eStatus' = [eStatus EXCEPT ![c] = "CONNECTING"]
  /\ cGameState' = [cGameState EXCEPT ![c] = "IDLE"]
  /\ joins' = joins + 1
  /\ UNCHANGED <<sGameState, sClientState, loading, rom, chosen, requests,
                 leaves>>

-----------------------------------------------------------------------------
(***************************************************************************)
(* A client.                                                               *)
(***************************************************************************)

\* Its thread, which is not loading, reads a message of type t.
Hear(c, t) ==
  /\ loading[c] = None
  /\ down[c] # << >> /\ Head(down[c]).type = t
  /\ down' = [down EXCEPT ![c] = Tail(@)]

RecvServerHello(c) ==
  /\ Hear(c, "HELLO")
  /\ eStatus' = [eStatus EXCEPT ![c] = "CONNECTED"]
  /\ UNCHANGED <<server, up, cGameState, loading, rom, chosen, bounds>>

\* LOADREQ, with a game: the thread goes on to load it.
RecvLoad(c) ==
  /\ Hear(c, "LOADREQ") /\ Head(down[c]).game # None
  /\ cGameState' = [cGameState EXCEPT ![c] = "LOADING"]
  /\ loading' = [loading EXCEPT ![c] = Head(down[c]).game]
  /\ UNCHANGED <<server, up, eStatus, rom, chosen, bounds>>

\* _MainLoopExecuteFile returns and the load is acknowledged.  A game that is
\* not found leaves the one before, one that cannot be read leaves none.
Load(c, ok) ==
  /\ loading[c] # None
  /\ SlowLoads => \A d \in Client : job[d].does # "LoadGame"
  /\ loading' = [loading EXCEPT ![c] = None]
  /\ \/ ok /\ rom' = [rom EXCEPT ![c] = loading[c]]
     \/ ~ok /\ rom' \in {rom, [rom EXCEPT ![c] = None]}
  /\ up' = [up EXCEPT ![c] = Append(@, Message(IF ok THEN "OK" ELSE "ERROR"))]
  /\ UNCHANGED <<server, down, eStatus, cGameState, chosen, bounds>>

\* LOADREQ, without a game.
RecvUnload(c) ==
  /\ Hear(c, "LOADREQ") /\ Head(down[c]).game = None
  /\ cGameState' = [cGameState EXCEPT ![c] = "IDLE"]
  /\ rom' = [rom EXCEPT ![c] = None]
  /\ UNCHANGED <<server, up, eStatus, loading, chosen, bounds>>

RecvStartGame(c) ==
  /\ Hear(c, "STARTGAME")
  /\ cGameState' = [cGameState EXCEPT ![c] = "PLAY"]
  /\ UNCHANGED <<server, up, eStatus, loading, rom, chosen, bounds>>

\* A player chooses a game in the browser of a connected client.
ChooseGame(c, g) ==
  /\ requests < MaxRequests
  /\ eStatus[c] = "CONNECTED"
  /\ up' = [up EXCEPT ![c] = Append(@, LoadReq(g))]
  /\ requests' = requests + 1
  /\ UNCHANGED <<server, down, client, chosen, joins, leaves>>

\* NetClientDisconnect, and what the client's thread does on its end.  (A
\* client whose connection FinishGhost has broken stays.)
Disconnect(c) ==
  /\ leaves < MaxLeaves
  /\ eStatus[c] = "CONNECTED" /\ sock[c] # "INVALID"
  /\ eStatus' = [eStatus EXCEPT ![c] = "IDLE"]
  /\ cGameState' = [cGameState EXCEPT ![c] = "IDLE"]
  /\ loading' = [loading EXCEPT ![c] = None]
  /\ up' = [up EXCEPT ![c] = Append(@, Message("CLOSE"))]
  /\ down' = [down EXCEPT ![c] = << >>]
  /\ leaves' = leaves + 1
  /\ UNCHANGED <<server, rom, chosen, requests, joins>>

-----------------------------------------------------------------------------
Init ==
  /\ sGameState = "IDLE"
  /\ sClientState = [c \in Client |-> "IDLE"]
  /\ sock = [c \in Client |-> IF c \in AtStart THEN "CONNECTED" ELSE "INVALID"]
  /\ job = [c \in Client |-> Reading]
  /\ ghost = {}
  /\ up = [c \in Client |-> << >>]
  /\ down = [c \in Client |-> << >>]
  /\ eStatus = [c \in Client |-> IF c \in AtStart THEN "CONNECTED" ELSE "IDLE"]
  /\ cGameState = [c \in Client |-> "IDLE"]
  /\ loading = [c \in Client |-> None]
  /\ rom = [c \in Client |-> None]
  /\ chosen = None
  /\ requests = 0 /\ joins = 0 /\ leaves = 0

ServerThread(c) ==
  \/ RecvClientHello(c) \/ RecvLoadReq(c) \/ RecvClose(c)
  \/ RecvLoadAck(c, "OK", "LoadAck") \/ RecvLoadAck(c, "ERROR", "LoadError")
  \/ Send(c)
  \/ FinishBroadcast(c, "LoadGame", "LOADING")
  \/ FinishBroadcast(c, "UnloadGame", "IDLE")
  \/ FinishBroadcast(c, "StartGame", "PLAY")
  \/ FinishLoadAck(c) \/ FinishLoadError(c)
  \/ FinishAbort(c)

ClientThread(c) ==
  \/ RecvServerHello(c) \/ RecvLoad(c) \/ RecvUnload(c) \/ RecvStartGame(c)
  \/ Load(c, TRUE)
  \/ MayFail /\ Load(c, FALSE)

Player(c) == Disconnect(c) \/ \E g \in Game : ChooseGame(c, g)

Next ==
  \E c \in Client :
    ServerThread(c) \/ FinishGhost(c) \/ Accept(c) \/ ClientThread(c) \/ Player(c)

Spec == Init /\ [][Next]_vars

\* Threads that can run do; nobody has to choose, to join or to leave.
Fairness ==
  \A c \in Client : /\ WF_vars(ServerThread(c))
                    /\ WF_vars(FinishGhost(c))
                    /\ WF_vars(ClientThread(c))

FairSpec == Spec /\ Fairness

-----------------------------------------------------------------------------
(***************************************************************************)
(* Properties.                                                             *)
(***************************************************************************)
GameState == {"IDLE", "LOADING", "LOADED", "PLAY"}

UpMessage == [type : {"HELLO", "LOADREQ", "OK", "ERROR", "CLOSE"},
              game : Game \union {None}]
DownMessage == [type : {"HELLO", "LOADREQ", "STARTGAME"}, game : Game \union {None}]
JobType == [does : {"Reading", "LoadGame", "UnloadGame", "StartGame", "LoadAck",
                    "LoadError", "Abort"},
            todo : SUBSET Client, game : Game \union {None}]

\* Type correctness; a thread that loads a game has not gone on to the next
\* message.
TypeOK ==
  /\ sGameState \in GameState
  /\ sClientState \in [Client -> GameState]
  /\ sock \in [Client -> {"INVALID", "CONNECTED", "DISCONNECTING"}]
  /\ job \in [Client -> JobType]
  /\ ghost \subseteq Client
  /\ up \in [Client -> Seq(UpMessage)]
  /\ down \in [Client -> Seq(DownMessage)]
  /\ eStatus \in [Client -> {"IDLE", "CONNECTING", "CONNECTED"}]
  /\ cGameState \in [Client -> {"IDLE", "LOADING", "PLAY"}]
  /\ \A c \in Client : loading[c] # None => cGameState[c] = "LOADING"
  /\ loading \in [Client -> Game \union {None}]
  /\ rom \in [Client -> Game \union {None}]

\* Two clients that play play the same game, though each loads it on its own
\* and learns of the next one at another time.
SameGame ==
  \A c, d \in Client :
    cGameState[c] = "PLAY" /\ cGameState[d] = "PLAY" =>
      rom[c] # None /\ rom[c] = rom[d]

\* netserver.c:263, "determine if everyone has loaded their games now": when
\* the server starts a game, every client it is connected to has loaded it.
\* (A client that leaves while others are told of a load that failed makes an
\* exception, so the property is about a fixed set of clients.)
EveryoneHasLoaded ==
  joins + leaves = 0 =>
    \A c \in Client : job[c].does = "StartGame" =>
      \A d \in Connected : rom[d] = chosen /\ loading[d] = None

\* A server that everybody has left, as its threads have read before they
\* ended, is idle, so that it accepts clients again (_NetServerClientAbort).
IdleWhenEmpty ==
  /\ ghost = {}
  /\ \A c \in Client : /\ sock[c] = "INVALID" /\ job[c] = Reading
                       /\ eStatus[c] = "IDLE" /\ up[c] = << >>
  => sGameState = "IDLE"

\* The last message of a client says that it has gone.
Closed(messages) ==
  messages # << >> /\ messages[Len(messages)].type = "CLOSE"

\* Somebody answers for all that goes on: a thread that reads has a client at
\* the other end or will learn that it has gone, one that broadcasts has a
\* client or more to read, and only a client that is there is told anything,
\* or loads.
Attended(c) ==
  /\ job[c].does = "Reading" => job[c] = Reading
  /\ job[c].does = "Abort" => sock[c] # "CONNECTED"
  /\ sock[c] = "CONNECTED" => eStatus[c] # "IDLE" \/ Closed(up[c])
  /\ job[c].does \notin {"Reading", "Abort"} => eStatus[c] # "IDLE" \/ up[c] # << >>
  /\ loading[c] # None \/ down[c] # << >> => eStatus[c] # "IDLE"

SessionInv == \A c \in Client : Attended(c)

\* Every variable has its type, in all of the states of a load, and a server
\* that everybody has left accepts clients again (_NetServerClientAbort).
SessionConsistent == TypeOK /\ SessionInv /\ IdleWhenEmpty

\* A game that is being loaded is started or given up, unless somebody joins
\* or leaves: neither makes the server look again for who has loaded.
LoadSettles ==
  sGameState = "LOADING" ~> sGameState # "LOADING" \/ joins + leaves > 0
=============================================================================
