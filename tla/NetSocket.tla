------------------------------ MODULE NetSocket ------------------------------
(***************************************************************************)
(* The sockets of a netplay client and their threads (netsocket.c; the     *)
(* callbacks of netclient.c).  Each socket is read by a thread of its own, *)
(* which ends when a read fails: closing a socket is how its thread is     *)
(* told to end, and the thread says when the socket can be used again.     *)
(* The main loop waits for none of them, and asks nobody whether the       *)
(* sockets it needs were made (NetClientConnect).                          *)
(***************************************************************************)
EXTENDS Naturals

CONSTANT MaxClosed   \* bound: threads of sockets that are closed

ASSUME NetSocketAssumption == MaxClosed \in Nat \ {0}

VARIABLES
  eStatus,    \* of the client, NETPLAY_STATUS_...
  tcp,        \* status of Socket, and where its thread is
  udp,        \* status of UDPSocket, whether a thread reads from it, and how many
              \* threads read from sockets that were closed
  hindered    \* history: what is in the way of the attempt to connect

socketVars == <<eStatus, tcp, udp, hindered>>

SocketInit ==
  /\ eStatus = "IDLE"
  /\ tcp = [status |-> "INVALID", thread |-> "none"]
  /\ udp = [status |-> "INVALID", reader |-> FALSE, closed |-> 0]
  /\ hindered = {}

-----------------------------------------------------------------------------
\* NetSocketDisconnect of the UDP socket.  The thread's next read fails.
UdpDisconnect(u) ==
  IF u.status # "LISTENING" THEN u
  ELSE [status |-> "DISCONNECTING", reader |-> FALSE,
        closed |-> u.closed + (IF u.reader THEN 1 ELSE 0)]

\* What may fail while the client begins to connect: the socket() or bind() and the
\* thread of the UDP socket, the socket() and the thread of the other one.
Failure == {"bind", "udp thread", "socket", "thread"}

\* NetSocketBindUDP, which does not ask what the socket is used for.
UdpBind(fails) ==
  CASE fails = "bind" -> udp
    [] fails = "udp thread" -> [udp EXCEPT !.status = "INVALID"]
    [] OTHER -> [udp EXCEPT !.status = "LISTENING", !.reader = TRUE]

\* NetSocketConnect, for a socket that is INVALID.
TcpConnect(fails) ==
  [status |-> IF fails = "thread" THEN "INVALID" ELSE "CONNECTING",
   thread |-> IF fails = "none" THEN "connect" ELSE "none"]

\* _NetClientSocketDisconnect, called by the thread that ends.
SocketDisconnect ==
  /\ udp' = UdpDisconnect(udp)
  /\ eStatus' = "IDLE"
  /\ hindered' = {}

-----------------------------------------------------------------------------
\* The main loop.

\* Threads of the last connection that have not ended: the one of the TCP socket after
\* it has made the client idle, and readers of the closed UDP socket.
Remaining ==
  (IF tcp.thread = "ending" THEN {"ending"} ELSE {})
    \cup (IF udp.closed > 0 THEN {"reader"} ELSE {})

\* Whatever fails, the client is CONNECTING.  Without a UDP socket no connection is made,
\* and a TCP socket that is not INVALID is not connected again.
BeginConnect(fails) ==
  /\ eStatus' = "CONNECTING"
  /\ udp.closed < MaxClosed /\ udp' = UdpBind(fails)
  /\ tcp' = IF fails \in {"bind", "udp thread"} \/ tcp.status # "INVALID" THEN tcp
            ELSE TcpConnect(fails)
  /\ hindered' = Remaining \cup (IF fails = "none" THEN {} ELSE {"failure"})

\* NetClientConnect, which does nothing when the client is connected or about to be.
NetClientConnect(fails) ==
  IF eStatus = "IDLE" THEN BeginConnect(fails) ELSE UNCHANGED socketVars

NetClientDisconnect ==
  /\ eStatus = "CONNECTED"
  /\ udp.closed < MaxClosed /\ udp' = UdpDisconnect(udp)
  /\ tcp' = IF tcp.status = "CONNECTED" THEN [tcp EXCEPT !.status = "DISCONNECTING"] ELSE tcp
  /\ UNCHANGED <<eStatus, hindered>>

-----------------------------------------------------------------------------
\* The TCP socket's thread, which begins with _NetSocketConnect.
SocketConnects ==
  /\ tcp.thread = "connect"
  /\ tcp' = [status |-> "CONNECTED", thread |-> "read"]
  /\ UNCHANGED <<eStatus, udp, hindered>>

ConnectFailed ==
  /\ tcp.thread = "connect"
  /\ tcp' = [status |-> "INVALID", thread |-> "none"]
  /\ SocketDisconnect

\* _NetSocketThread, _NetClientSocketRead: SERVERHELLO.
ServerHello ==
  /\ tcp.thread = "read" /\ tcp.status = "CONNECTED" /\ eStatus = "CONNECTING"
  /\ eStatus' = "CONNECTED"
  /\ UNCHANGED <<tcp, udp, hindered>>

\* A read fails: the socket was closed here or there, or the packet was none.
ReadFailed ==
  /\ tcp.thread = "read"
  /\ tcp' = [status |-> "DISCONNECTING", thread |-> "ending"]
  /\ SocketDisconnect

\* Faulty: the socket is not given back.
ThreadEndsKept ==
  /\ tcp.thread = "ending"
  /\ tcp' = [tcp EXCEPT !.thread = "none"]
  /\ UNCHANGED <<eStatus, udp, hindered>>
\* The end of _NetSocketThread.
ThreadEnds ==
  /\ tcp.thread = "ending"
  /\ tcp' = [status |-> "INVALID", thread |-> "none"]
  /\ UNCHANGED <<eStatus, udp, hindered>>

\* A thread of the UDP socket whose read has failed, NetSocketRecvFrom: it ends when
\* the socket, whichever that now is, is disconnecting.
UdpReadFailed ==
  /\ udp.closed > 0
  /\ LET u == UdpDisconnect(udp) IN
     udp' = IF u.status = "DISCONNECTING"
            THEN [u EXCEPT !.status = "INVALID", !.closed = @ - 1] ELSE u
  /\ UNCHANGED <<eStatus, tcp, hindered>>

SocketThread == SocketConnects \/ ConnectFailed \/ ServerHello \/ ReadFailed \/ ThreadEnds

SocketNext ==
  \/ \E fails \in Failure \cup {"none"} : NetClientConnect(fails)
  \/ NetClientDisconnect
  \/ SocketThread \/ UdpReadFailed

\* A thread that can go on does: a connection is made or refused, a server says hello
\* or closes the connection, and the next read of a socket that was closed fails.  A
\* connection that was made may stay.
SocketGoesOn ==
  \/ SocketConnects \/ ConnectFailed \/ ServerHello \/ ThreadEnds
  \/ ReadFailed /\ (eStatus = "CONNECTING" \/ tcp.status # "CONNECTED")

SocketFairness ==
  /\ WF_socketVars(SocketGoesOn)
  /\ WF_socketVars(UdpReadFailed)

SocketSpec == SocketInit /\ [][SocketNext]_socketVars /\ SocketFairness

-----------------------------------------------------------------------------
\* An attempt to connect ends, however often the client has connected before: it is
\* given up, and the player can try again, or the client is connected and receives
\* its peers' packets.  The ways for it not to are a socket or a thread that cannot be
\* made and the last connection's thread, which is about to give its socket back: the
\* client is CONNECTING for good.  And a reader of the last connection's UDP socket
\* may close the new one (NetClientConnect, _NetSocketThread, NetSocketRecvFrom).
ConnectSettles ==
  (eStatus = "CONNECTING" /\ hindered \subseteq {"reader"}) ~>
    \/ eStatus = "IDLE"
    \/ /\ eStatus = "CONNECTED"
       /\ "reader" \in hindered \/ (udp.status = "LISTENING" /\ udp.reader)
=============================================================================
