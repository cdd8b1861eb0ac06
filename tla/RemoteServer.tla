----------------------------- MODULE RemoteServer -----------------------------
(***************************************************************************)
(* The transport: RemoteDebuggingServer between net::HttpServer, which     *)
(* lives on the IO thread, and V8Inspector, which lives on the main        *)
(* thread.  The two threads share nothing but their task queues: the IO    *)
(* thread posts connects, messages and disconnects; the main thread posts  *)
(* what is to be sent.  connection_id_ is read and written by the IO       *)
(* thread only, and only one connection is remembered at a time; a message *)
(* on its way out does not say which connection it is for.                 *)
(***************************************************************************)
EXTENDS Naturals, Sequences, FiniteSets

CONSTANTS
  MaxConnections,   \* bound: connections accepted in a behaviour
  MaxClients,       \* how many WebSockets clients hold open at once
  MaxQueue          \* bound: tasks waiting in one queue

ASSUME BoundsAssumption ==
  MaxConnections \in Nat /\ MaxClients \in Nat /\ MaxQueue \in Nat

VARIABLES
  sockets,      \* the connections accepted, by id (last_id_ counts up from 1): those
                \* in HttpServer::id_to_connection_, which are "http" or, once
                \* they have a web_socket(), "webSocket", and those erased from
                \* it: "failed" if that happened in the handshake, or "closed"
  connectionId, \* connection_id_, with NoConnection for -1
  mainQueue,    \* tasks posted to the main thread
  ioQueue,      \* sendMessageToClient tasks posted to the IO thread, each with
                \* the connection whose request or session caused it
  frontend,     \* V8Inspector::m_frontend is set
  served,       \* history: the connection of the last HandleConnect
  delivered     \* history: pairs of the cause and the receiver of a message

serverVars == <<sockets, connectionId, mainQueue, ioQueue, delivered>>
vars == <<serverVars, frontend, served>>

NoConnection == 0
Connections == 1..MaxConnections
Tasks == [type : {"connect", "message", "disconnect"}, id : Connections]

Init ==
  /\ sockets = << >> /\ connectionId = NoConnection
  /\ mainQueue = << >> /\ ioQueue = << >>
  /\ frontend = FALSE /\ served = NoConnection /\ delivered = {}

\* The connections FindConnection finds.
OpenSockets(kind) == {c \in DOMAIN sockets : sockets[c] = kind}

\* History: the connections lost in the middle of their own upgrade.
Failed == {c \in DOMAIN sockets : sockets[c] = "failed"}

-----------------------------------------------------------------------------
(* IO thread.                                                              *)

\* PostTask to the main thread.
PostMain(type, c) ==
  /\ Len(mainQueue) < MaxQueue
  /\ mainQueue' = Append(mainQueue, [type |-> type, id |-> c])

\* HttpServer::HandleAcceptResult
Accept ==
  /\ Len(sockets) < MaxConnections
  /\ sockets' = Append(sockets, "http")
  /\ UNCHANGED <<connectionId, mainQueue, ioQueue, frontend, served, delivered>>

\* A client may upgrade this connection.
MayUpgrade(c) ==
  c \in OpenSockets("http") /\ Cardinality(OpenSockets("webSocket")) < MaxClients

\* AcceptWebSocket writes the handshake ...
HandshakeWritten(c) ==
  /\ sockets' = [sockets EXCEPT ![c] = "webSocket"]
  /\ PostMain("connect", c)

\* ... or fails to: DoWriteLoop closes the connection then and there, so that
\* OnClose posts its disconnect before OnWebSocketRequest its connect.
HandshakeFails(c) ==
  /\ sockets' = [sockets EXCEPT ![c] = "failed"]
  /\ Len(mainQueue) + 2 <= MaxQueue
  /\ mainQueue' = mainQueue \o <<[type |-> "disconnect", id |-> c],
                                 [type |-> "connect", id |-> c]>>

\* OnWebSocketRequest: the new connection becomes the current one, even if it
\* is gone by now (line 50 overwrites the -1 of its OnClose).
OnWebSocketRequest(c) ==
  /\ MayUpgrade(c)
  /\ HandshakeWritten(c) \/ HandshakeFails(c)
  /\ connectionId' = c
  /\ UNCHANGED <<ioQueue, frontend, served, delivered>>

\* OnWebSocketMessage
OnWebSocketMessage(c) ==
  /\ c \in OpenSockets("webSocket")
  /\ PostMain("message", c)
  /\ UNCHANGED <<sockets, connectionId, ioQueue, frontend, served, delivered>>

\* Mutant: only the id of the current connection is forgotten, while any close
\* ends the session.
CloseForgetsOwnId(c) ==
  /\ c \in OpenSockets("http") \cup OpenSockets("webSocket")
  /\ sockets' = [sockets EXCEPT ![c] = "closed"]
  /\ connectionId' = IF c = connectionId THEN NoConnection ELSE connectionId
  /\ PostMain("disconnect", c)
  /\ UNCHANGED <<ioQueue, frontend, served, delivered>>

\* HttpServer::Close and OnClose, for any connection: a plain HTTP connection
\* that closes also forgets the current WebSocket.
OnClose(c) ==
  /\ c \in OpenSockets("http") \cup OpenSockets("webSocket")
  /\ sockets' = [sockets EXCEPT ![c] = "closed"]
  /\ connectionId' = NoConnection
  /\ PostMain("disconnect", c)
  /\ UNCHANGED <<ioQueue, frontend, served, delivered>>

\* Mutant: sent to the connection accepted last.
SendToNewest ==
  /\ ioQueue # << >>
  /\ delivered' = IF connectionId \in OpenSockets("webSocket")
                    THEN delivered \cup {<<Head(ioQueue), Len(sockets)>>}
                    ELSE delivered
  /\ ioQueue' = Tail(ioQueue)
  /\ UNCHANGED <<sockets, connectionId, mainQueue, frontend, served>>

\* sendMessageToClient: to whoever is the current connection by now, or to
\* nobody: there is none, or SendOverWebSocket does not find it.  A write error
\* closes the connection, which is an OnClose.
SendMessageToClient ==
  /\ ioQueue # << >>
  /\ delivered' = IF connectionId \in OpenSockets("webSocket")
                    THEN delivered \cup {<<Head(ioQueue), connectionId>>}
                    ELSE delivered
  /\ ioQueue' = Tail(ioQueue)
  /\ UNCHANGED <<sockets, connectionId, mainQueue, frontend, served>>

IoThread ==
  \/ Accept
  \/ \E c \in DOMAIN sockets : \/ OnWebSocketRequest(c)
                               \/ OnWebSocketMessage(c)
                               \/ OnClose(c)
  \/ SendMessageToClient

-----------------------------------------------------------------------------
(* Main thread.                                                            *)

\* The main loop takes the oldest task.
TakeTask(type) ==
  /\ mainQueue # << >> /\ Head(mainQueue).type = type
  /\ mainQueue' = Tail(mainQueue)

\* serializeAndSend
Send(c) ==
  /\ Len(ioQueue) < MaxQueue
  /\ ioQueue' = Append(ioQueue, c)

\* HandleConnect; connectFrontend replaces a front-end that is still there.
HandleConnect ==
  /\ TakeTask("connect")
  /\ frontend' = TRUE /\ served' = Head(mainQueue).id
  /\ UNCHANGED <<sockets, connectionId, ioQueue, delivered>>

\* HandleMessageFromClient: a command is answered if there is a dispatcher.
HandleMessageFromClient ==
  /\ TakeTask("message")
  /\ IF frontend THEN Send(Head(mainQueue).id) ELSE UNCHANGED ioQueue
  /\ UNCHANGED <<sockets, connectionId, frontend, served, delivered>>

\* Mutant: the front-end stays.
DisconnectKeepsFrontend ==
  /\ TakeTask("disconnect")
  /\ UNCHANGED <<sockets, connectionId, ioQueue, frontend, served, delivered>>

\* HandleDisconnect, whichever connection it was that closed.
HandleDisconnect ==
  /\ TakeTask("disconnect")
  /\ frontend' = FALSE /\ served' = NoConnection
  /\ UNCHANGED <<sockets, connectionId, ioQueue, delivered>>

\* Mutant: sent without a front-end.
NotifyAlways ==
  /\ Send(served)
  /\ UNCHANGED <<sockets, connectionId, mainQueue, frontend, served, delivered>>

\* An agent sends a notification through the front-end.
SendNotification ==
  /\ frontend
  /\ Send(served)
  /\ UNCHANGED <<sockets, connectionId, mainQueue, frontend, served, delivered>>

MainThread ==
  HandleConnect \/ HandleMessageFromClient \/ HandleDisconnect \/ SendNotification

Next == IoThread \/ MainThread

Spec == Init /\ [][Next]_vars

-----------------------------------------------------------------------------
(* Properties.                                                             *)

\* The type of the state.
TypeOK ==
  /\ sockets \in Seq({"http", "webSocket", "closed", "failed"})
  /\ Len(sockets) <= MaxConnections
  /\ connectionId \in Connections \cup {NoConnection}
  /\ mainQueue \in Seq(Tasks) /\ Len(mainQueue) <= MaxQueue
  /\ ioQueue \in Seq(Connections) /\ Len(ioQueue) <= MaxQueue
  /\ frontend \in BOOLEAN
  /\ served \in Connections \cup {NoConnection}
  /\ delivered \subseteq Connections \X Connections

\* Tasks that connect or disconnect the front-end.
IsControl(i) == mainQueue[i].type # "message"

\* The last such task waiting, if there is one.
IsLastControl(i) ==
  IsControl(i) /\ \A j \in DOMAIN mainQueue : j > i => ~IsControl(j)

\* The two threads agree once the main thread has caught up: there is a
\* front-end exactly if the IO thread has a current connection, and it is the
\* front-end of that connection, however many came and went meanwhile.
SessionFollowsConnection ==
  (\A i \in DOMAIN mainQueue : ~IsControl(i)) =>
    (frontend <=> connectionId # NoConnection) /\ served = connectionId

\* Why it is so: the last connect or disconnect that waits agrees with the IO
\* thread already.
LastControlDecides ==
  \A i \in DOMAIN mainQueue :
    IsLastControl(i) =>
      connectionId = IF mainQueue[i].type = "connect" THEN mainQueue[i].id
                                                      ELSE NoConnection

\* The current connection is an open WebSocket, unless it was lost in its own
\* handshake.
CurrentIsOpen ==
  connectionId # NoConnection => connectionId \in OpenSockets("webSocket") \cup Failed

\* A message that reaches another connection than the one it was meant for
\* does so because that one is gone: two live clients never mix.
NoMixup ==
  \A d \in delivered : d[1] # d[2] => sockets[d[1]] \in {"closed", "failed"}

\* OnWebSocketRequest: ASSERT(connection_id_ == -1).
AcceptsWhenFree ==
  \A c \in DOMAIN sockets : MayUpgrade(c) => connectionId = NoConnection

\* V8Inspector::connectFrontend: ASSERT(!m_frontend).  With one client at a
\* time it fails after a failed handshake only: the front-end found is that of
\* the lost connection, which no later close has taken away.
ConnectsWhenFree ==
  mainQueue # << >> /\ Head(mainQueue).type = "connect" => ~frontend \/ served \in Failed

=============================================================================
