--------------------------- MODULE NetworkScreen ----------------------------
(***************************************************************************)
(* The screen with which the player starts a server or joins one           *)
(* (uiNetwork.cpp; mainloop.cpp: _MainLoopNetworkEvent), the sockets of    *)
(* the client it sends out (NetSocket), and the one socket of the server   *)
(* it starts, with the thread that accepts (netserver.c, netsocket.c),     *)
(* which goes on at its own pace.  The server's clients are left out:      *)
(* what clients and servers tell each other is NetSession's.               *)
(***************************************************************************)
EXTENDS Integers, FiniteSets, NetSocket

CONSTANTS
  StartLatency,    \* latency the screen begins with (5)
  MaxLatency,      \* bound: the code has none
  OwnAddress,      \* addresses this console may be given, as four bytes
  Editable,        \* bound: digits the player changes
  MaxPressed       \* bound: buttons that are pressed in one frame

ASSUME NetworkAssumption ==
  /\ StartLatency \in Nat \ {0} /\ MaxLatency \in Nat /\ StartLatency <= MaxLatency
  /\ OwnAddress \subseteq [0 .. 3 -> 0 .. 255] /\ Editable \subseteq 0 .. 11
  /\ MaxPressed \in Nat

VARIABLES
  networkOption,   \* m_NetworkOption: 0 the server, 1 the client, -1 an address is edited
  digitIP,         \* m_iDigitIP: the digit that is edited, or -1
  networkIP,       \* m_NetworkIP
  netLatency,      \* m_NetLatency
  initIP,          \* m_bInitIP
  peerAddr,        \* PeerAddr of the client's socket
  server           \* eStatus, the status of its socket, where its thread is, uStartLatency
networkVars == <<socketVars, networkOption, digitIP, networkIP, netLatency, initIP, peerAddr,
                 server>>

NetButton == {"LEFT", "RIGHT", "UP", "DOWN", "SQUARE", "TRIANGLE", "CROSS", "START"}
LocalHost == [g \in 0 .. 3 |-> IF g = 0 THEN 127 ELSE IF g = 3 THEN 1 ELSE 0]

NetworkInit ==
  /\ SocketInit
  /\ networkOption = 0 /\ digitIP = -1 /\ networkIP = [d \in 0 .. 11 |-> 0]
  /\ netLatency = StartLatency /\ initIP = FALSE
  /\ peerAddr = [g \in 0 .. 3 |-> 0]
  /\ server = [eStatus |-> "IDLE", socket |-> "INVALID", thread |-> "none", uStartLatency |-> 0]

-----------------------------------------------------------------------------
\* Three digits for each byte.  A group of more than 255 goes into the next byte, and
\* the sum is one of 32 bits.
\* Faulty: the digits of a group are taken from the right.
GroupBackwards(ip, g) == ip[3 * g] + 10 * ip[3 * g + 1] + 100 * ip[3 * g + 2]
Group(ip, g) == 100 * ip[3 * g] + 10 * ip[3 * g + 1] + ip[3 * g + 2]
GetEditIP(ip) ==
  LET a == Group(ip, 0)
      b == Group(ip, 1) + (a \div 256)
      c == Group(ip, 2) + (b \div 256)
      d == Group(ip, 3) + (c \div 256)
  IN [g \in 0 .. 3 |-> <<a, b, c, d>>[g + 1] % 256]

SetEditIP(addr) ==
  [d \in 0 .. 11 |-> (addr[d \div 3] \div <<100, 10, 1>>[1 + (d % 3)]) % 10]

\* Message 1, and the end of message 2.  A client that is not idle takes no address,
\* nor does a socket that is used or cannot be made.
ConnectTo(ipaddr) ==
  \E fails \in Failure \cup {"none"} :
    /\ NetClientConnect(fails)
    /\ peerAddr' = IF eStatus = "IDLE" /\ tcp.status = "INVALID" /\ fails \in {"thread", "none"}
                   THEN ipaddr ELSE peerAddr

\* NetPlayServerStart, whose socket may fail to listen: the latency is set first, also
\* that of a server that is there already.
ServerStart(latency) ==
  LET set == [server EXCEPT !.uStartLatency = latency]
  IN \/ server' = set
     \/ server.socket = "INVALID" /\ server' = [set EXCEPT !.socket = "LISTENING", !.thread = "start"]

ServerStop ==
  server' = IF server.socket = "LISTENING" THEN [server EXCEPT !.socket = "DISCONNECTING"]
            ELSE server

\* Message 2: a server is started, and joined, or stopped.
SwitchServer(latency) ==
  IF server.eStatus = "IDLE" THEN ServerStart(latency) /\ ConnectTo(LocalHost)
  ELSE ServerStop /\ UNCHANGED <<socketVars, peerAddr>>

\* Message 3: an idle client is asked where to connect to, another one disconnects.
\* Faulty: one that is connecting is asked as well.
AsksAddressEarly == eStatus # "CONNECTED"
AsksAddress == eStatus = "IDLE"
Disconnect == IF eStatus = "CONNECTED" THEN NetClientDisconnect ELSE UNCHANGED socketVars

-----------------------------------------------------------------------------
Plus(b, pressed) == IF b \in pressed THEN 1 ELSE 0

\* An address is edited: the digit is chosen first and changed then.
EditInput(pressed) ==
  LET digit == (digitIP + Plus("RIGHT", pressed) - Plus("LEFT", pressed)) % 12
      by == Plus("UP", pressed) - Plus("DOWN", pressed)
      ends == {"TRIANGLE", "CROSS"} \cap pressed # {}
  IN /\ by # 0 => digit \in Editable
     /\ networkIP' = [networkIP EXCEPT ![digit] = (@ + by) % 10]
     /\ digitIP' = (IF ends THEN -1 ELSE digit)
     /\ networkOption' = (IF ends THEN 1 ELSE networkOption)
     /\ IF "CROSS" \in pressed THEN ConnectTo(GetEditIP(networkIP'))
        ELSE UNCHANGED <<socketVars, peerAddr>>
     /\ UNCHANGED <<netLatency, initIP, server>>

\* The latency is lowered first, and is at least 1; DOWN comes after UP.
Latency(pressed) ==
  (IF "SQUARE" \in pressed /\ netLatency > 1 THEN netLatency - 1 ELSE netLatency)
    + Plus("TRIANGLE", pressed)
Option(pressed) ==
  IF "DOWN" \in pressed THEN 1 ELSE IF "UP" \in pressed THEN 0 ELSE networkOption

ChooseOption(pressed) ==
  /\ networkOption' = Option(pressed)
  /\ UNCHANGED <<socketVars, digitIP, peerAddr, server>>

EnterOption(pressed) ==
  \/ /\ Option(pressed) = 0 /\ SwitchServer(Latency(pressed))
     /\ networkOption' = 0 /\ UNCHANGED digitIP
  \/ /\ Option(pressed) = 1 /\ AsksAddress
     /\ networkOption' = -1 /\ digitIP' = 0
     /\ UNCHANGED <<socketVars, peerAddr, server>>
  \/ /\ Option(pressed) = 1 /\ ~AsksAddress /\ Disconnect
     /\ networkOption' = 1 /\ UNCHANGED <<digitIP, peerAddr, server>>

OptionInput(pressed) ==
  /\ netLatency' = Latency(pressed) /\ netLatency' <= MaxLatency
  /\ IF {"CROSS", "START"} \cap pressed = {} THEN ChooseOption(pressed)
     ELSE EnterOption(pressed)
  /\ UNCHANGED <<networkIP, initIP>>

NetworkInput ==
  \E pressed \in SUBSET NetButton :
    /\ Cardinality(pressed) <= MaxPressed
    /\ IF digitIP # -1 THEN EditInput(pressed) ELSE OptionInput(pressed)

\* The first address this console is given is where the player begins to edit, also
\* when the player has begun already.
Draw ==
  /\ ~initIP
  /\ \E addr \in OwnAddress : networkIP' = SetEditIP(addr)
  /\ initIP' = TRUE
  /\ UNCHANGED <<socketVars, networkOption, digitIP, netLatency, peerAddr, server>>

-----------------------------------------------------------------------------
screenVars == <<networkOption, digitIP, networkIP, netLatency, initIP, peerAddr>>

ClientThread == (SocketThread \/ UdpReadFailed) /\ UNCHANGED <<screenVars, server>>

\* _NetSocketThread of the server: _NetServerStart, _NetServerAccept as long as the
\* socket listens, _NetServerStop, and the end.
ServerStarted ==
  /\ server.thread = "start"
  /\ server' = [server EXCEPT !.eStatus = "CONNECTED", !.thread = "accept"]

ServerStopped ==
  /\ server.thread = "accept" /\ server.socket = "DISCONNECTING"
  /\ server' = [server EXCEPT !.eStatus = "IDLE", !.thread = "ending"]

ServerEnds ==
  /\ server.thread = "ending"
  /\ server' = [server EXCEPT !.socket = "INVALID", !.thread = "none"]

\* Faulty: the socket is given back before the server is told.
ServerGivesBack ==
  /\ \/ server.thread = "accept" /\ server.socket = "DISCONNECTING"
        /\ server' = [server EXCEPT !.socket = "INVALID", !.thread = "ending"]
     \/ server.thread = "ending" /\ server' = [server EXCEPT !.eStatus = "IDLE", !.thread = "none"]
     \/ ServerStarted
  /\ UNCHANGED <<screenVars, socketVars>>
ServerThread ==
  (ServerStarted \/ ServerStopped \/ ServerEnds) /\ UNCHANGED <<screenVars, socketVars>>

NetworkNext == NetworkInput \/ Draw \/ ClientThread \/ ServerThread
NetworkSpec == NetworkInit /\ [][NetworkNext]_networkVars

-----------------------------------------------------------------------------
\* Whoever is asked for an address is not connected, and is not about to be, until it
\* has been entered: the threads of the client do not make an idle one anything else,
\* and the address is not ignored (CNetworkScreen::Input, _MainLoopNetworkEvent).
EditingIsIdle == (digitIP # -1) = (networkOption = -1) /\ (digitIP # -1 => eStatus = "IDLE")

\* A client that is sent out from the address screen goes where the screen says, the
\* digits that were changed with the same press included: its address would be shown
\* as they are (GetEditIP, SetEditIP), as long as each group of digits is a byte.
\* Otherwise a client is sent to this console.
ConnectsToShown ==
  [][peerAddr' # peerAddr =>
       IF digitIP = -1 THEN peerAddr' = LocalHost
       ELSE (\A g \in 0 .. 3 : Group(networkIP', g) <= 255) =>
              SetEditIP(peerAddr') = networkIP']_networkVars

\* A server that is shown as started has its socket still: the message that stops it
\* stops it, and one that is shown as idle is not told to stop (_NetSocketThread).
ServerHasSocket ==
  server.eStatus = "CONNECTED" => server.socket # "INVALID" /\ server.thread = "accept"

\* What the screen shows is what can be done with it: an address that is edited will be
\* used, and a server that is shown as started can be stopped (CNetworkScreen::Input).
ScreenIsTrue == EditingIsIdle /\ ServerHasSocket
=============================================================================
