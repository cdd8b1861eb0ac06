-------------------------- MODULE RemoteServer_proofs --------------------------
(***************************************************************************)
(* Proofs about the transport, for any number of connections, of clients   *)
(* at once and of waiting tasks.                                           *)
(***************************************************************************)
EXTENDS RemoteServer, SequenceTheorems, FiniteSetTheorems,
        WellFoundedInduction, TLAPS

\* A front-end serves some connection.
ServedWhileFrontend == frontend => served # NoConnection

\* The inductive invariant.
ServerInv ==
  /\ TypeOK /\ CurrentIsOpen /\ ServedWhileFrontend
  /\ SessionFollowsConnection /\ LastControlDecides

-----------------------------------------------------------------------------
\* Posting a task appends it to the queue.
LEMMA PostMainQueue ==
  ASSUME TypeOK, NEW type \in {"connect", "message", "disconnect"},
         NEW c \in Connections, PostMain(type, c)
  PROVE  /\ mainQueue' \in Seq(Tasks) /\ Len(mainQueue') <= MaxQueue
         /\ Len(mainQueue') = Len(mainQueue) + 1
         /\ DOMAIN mainQueue' = 1..(Len(mainQueue) + 1)
         /\ DOMAIN mainQueue = 1..Len(mainQueue)
         /\ Len(mainQueue) \in Nat
         /\ \A i \in 1..Len(mainQueue) : mainQueue'[i] = mainQueue[i]
         /\ mainQueue'[Len(mainQueue) + 1] = [type |-> type, id |-> c]
  BY BoundsAssumption DEF TypeOK, PostMain, Tasks

\* A failed handshake appends two.
LEMMA FailQueue ==
  ASSUME TypeOK, NEW c \in Connections, HandshakeFails(c)
  PROVE  /\ mainQueue' \in Seq(Tasks) /\ Len(mainQueue') <= MaxQueue
         /\ Len(mainQueue') = Len(mainQueue) + 2
         /\ DOMAIN mainQueue' = 1..(Len(mainQueue) + 2)
         /\ DOMAIN mainQueue = 1..Len(mainQueue)
         /\ Len(mainQueue) \in Nat
         /\ \A i \in 1..Len(mainQueue) : mainQueue'[i] = mainQueue[i]
         /\ mainQueue'[Len(mainQueue) + 1] = [type |-> "disconnect", id |-> c]
         /\ mainQueue'[Len(mainQueue) + 2] = [type |-> "connect", id |-> c]
<1> DEFINE two == <<[type |-> "disconnect", id |-> c], [type |-> "connect", id |-> c]>>
<1>1. two \in Seq(Tasks) /\ Len(two) = 2
  BY DEF Tasks
<1>2. two[1] = [type |-> "disconnect", id |-> c] /\ two[2] = [type |-> "connect", id |-> c]
  OBVIOUS
<1>3. mainQueue \in Seq(Tasks) /\ mainQueue' = mainQueue \o two
      /\ Len(mainQueue) + 2 <= MaxQueue
  BY DEF TypeOK, HandshakeFails
<1> HIDE DEF two
<1>4. /\ mainQueue' \in Seq(Tasks) /\ Len(mainQueue') = Len(mainQueue) + 2
      /\ Len(mainQueue) \in Nat
  BY <1>1, <1>3, ConcatProperties, LenProperties
<1>5. /\ DOMAIN mainQueue' = 1..(Len(mainQueue) + 2)
      /\ DOMAIN mainQueue = 1..Len(mainQueue)
  BY <1>3, <1>4
<1>6. \A i \in 1..Len(mainQueue) : mainQueue'[i] = mainQueue[i]
  BY <1>1, <1>3
<1>7. \A i \in 1..2 : mainQueue'[Len(mainQueue) + i] = two[i]
  BY <1>1, <1>3, <1>4
<1>8. /\ mainQueue'[Len(mainQueue) + 1] = two[1]
      /\ mainQueue'[Len(mainQueue) + 2] = two[2]
  BY <1>7
<1> QED  BY <1>2, <1>3, <1>4, <1>5, <1>6, <1>8, BoundsAssumption

\* Taking a task removes the first one.
LEMMA TakeTaskQueue ==
  ASSUME TypeOK, NEW type, TakeTask(type)
  PROVE  /\ mainQueue' \in Seq(Tasks) /\ Len(mainQueue') <= MaxQueue
         /\ mainQueue[1] \in Tasks /\ mainQueue[1].type = type
         /\ Head(mainQueue) = mainQueue[1]
         /\ Len(mainQueue) \in Nat /\ Len(mainQueue) >= 1
         /\ DOMAIN mainQueue = 1..Len(mainQueue)
         /\ DOMAIN mainQueue' = 1..(Len(mainQueue) - 1)
         /\ \A i \in 1..(Len(mainQueue) - 1) : mainQueue'[i] = mainQueue[i + 1]
  BY BoundsAssumption DEF TypeOK, TakeTask

\* Sending appends to the other queue.
LEMMA SendQueue ==
  ASSUME TypeOK, NEW c \in Connections, Send(c)
  PROVE  ioQueue' \in Seq(Connections) /\ Len(ioQueue') <= MaxQueue
  BY BoundsAssumption DEF TypeOK, Send

\* The invariant holds when the server starts.
LEMMA ServerInit == Init => ServerInv
<1> SUFFICES ASSUME Init PROVE ServerInv
  OBVIOUS
<1>1. TypeOK
  <2>1. /\ sockets = << >> /\ mainQueue = << >> /\ ioQueue = << >>
        /\ connectionId = NoConnection /\ served = NoConnection
        /\ frontend = FALSE /\ delivered = {}
    BY DEF Init
  <2>2. Len(<< >>) = 0 /\ 0 <= MaxConnections /\ 0 <= MaxQueue
    BY BoundsAssumption
  <2>3. /\ << >> \in Seq({"http", "webSocket", "closed", "failed"})
        /\ << >> \in Seq(Tasks) /\ << >> \in Seq(Connections)
    OBVIOUS
  <2>4. sockets \in Seq({"http", "webSocket", "closed", "failed"}) /\ Len(sockets) <= MaxConnections
    BY <2>1, <2>2, <2>3
  <2>5. mainQueue \in Seq(Tasks) /\ Len(mainQueue) <= MaxQueue
    BY <2>1, <2>2, <2>3
  <2>6. ioQueue \in Seq(Connections) /\ Len(ioQueue) <= MaxQueue
    BY <2>1, <2>2, <2>3
  <2>7. /\ frontend \in BOOLEAN /\ delivered \subseteq Connections \X Connections
        /\ connectionId \in Connections \cup {NoConnection}
        /\ served \in Connections \cup {NoConnection}
    BY <2>1
  <2> QED  BY <2>4, <2>5, <2>6, <2>7 DEF TypeOK
<1>2. CurrentIsOpen /\ SessionFollowsConnection
  BY DEF Init, CurrentIsOpen, SessionFollowsConnection
<1>3. LastControlDecides /\ ServedWhileFrontend
  BY DEF Init, LastControlDecides, ServedWhileFrontend
<1> QED  BY <1>1, <1>2, <1>3 DEF ServerInv

\* The IO thread's control tasks: the new last control task is the one just
\* posted, and connectionId was set to match it.
LEMMA PostControl ==
  ASSUME NEW c \in Connections, NEW type \in {"connect", "disconnect"},
         NEW n \in Nat, n >= 1, DOMAIN mainQueue' = 1..n,
         mainQueue'[n] = [type |-> type, id |-> c],
         connectionId' = IF type = "connect" THEN c ELSE NoConnection
  PROVE  SessionFollowsConnection' /\ LastControlDecides'
<1>1. n \in 1..n /\ mainQueue'[n].type = type /\ mainQueue'[n].id = c
  OBVIOUS
<1>2. type # "message"
  OBVIOUS
<1>3. SessionFollowsConnection'
  BY <1>1, <1>2 DEF SessionFollowsConnection, IsControl
<1>4. ASSUME NEW i \in DOMAIN mainQueue', IsLastControl(i)' PROVE i = n
  BY <1>1, <1>2, <1>4 DEF IsLastControl, IsControl
<1>5. LastControlDecides'
  BY <1>1, <1>2, <1>4 DEF LastControlDecides
<1> QED  BY <1>3, <1>5

\* A protocol message changes nothing of this.
LEMMA PostMessage ==
  ASSUME ServerInv, NEW c \in Connections, PostMain("message", c),
         UNCHANGED <<connectionId, frontend, served>>
  PROVE  SessionFollowsConnection' /\ LastControlDecides'
<1> DEFINE n == Len(mainQueue) + 1
<1>1. /\ DOMAIN mainQueue' = 1..n /\ n \in Nat /\ n >= 1
      /\ DOMAIN mainQueue = 1..(n - 1)
      /\ mainQueue'[n].type = "message"
      /\ \A i \in 1..(n - 1) : mainQueue'[i] = mainQueue[i]
  <2>1. /\ DOMAIN mainQueue' = 1..n /\ DOMAIN mainQueue = 1..Len(mainQueue)
        /\ Len(mainQueue) \in Nat
        /\ mainQueue'[n] = [type |-> "message", id |-> c]
        /\ \A i \in 1..Len(mainQueue) : mainQueue'[i] = mainQueue[i]
    BY PostMainQueue DEF ServerInv
  <2>2. n - 1 = Len(mainQueue) /\ n \in Nat /\ n >= 1
    BY <2>1
  <2> QED  BY <2>1, <2>2
<1>2. SessionFollowsConnection'
  BY <1>1 DEF ServerInv, SessionFollowsConnection, IsControl
<1>3. ASSUME NEW i \in DOMAIN mainQueue', IsLastControl(i)'
      PROVE  i \in DOMAIN mainQueue /\ IsLastControl(i)
  BY <1>1, <1>3 DEF IsLastControl, IsControl
<1>4. LastControlDecides'
  BY <1>1, <1>3 DEF ServerInv, LastControlDecides
<1> QED  BY <1>2, <1>4

\* Taking a task moves the others up: the last control task, if it was not the
\* one taken, stays the last.
LEMMA TakeMovesUp ==
  ASSUME ServerInv, NEW type, TakeTask(type), UNCHANGED connectionId
  PROVE  LastControlDecides'
<1> DEFINE n == Len(mainQueue)
<1>1. /\ DOMAIN mainQueue' = 1..(n - 1) /\ DOMAIN mainQueue = 1..n
      /\ n \in Nat /\ n >= 1
      /\ \A i \in 1..(n - 1) : mainQueue'[i] = mainQueue[i + 1]
  BY TakeTaskQueue DEF ServerInv
<1>2. ASSUME NEW i \in DOMAIN mainQueue', IsLastControl(i)'
      PROVE  (i + 1) \in DOMAIN mainQueue /\ IsLastControl(i + 1)
  <2>1. (i + 1) \in 1..n /\ mainQueue'[i] = mainQueue[i + 1]
    BY <1>1
  <2>2. ASSUME NEW j \in 1..n, j > i + 1 PROVE ~IsControl(j)
    <3>1. (j - 1) \in 1..(n - 1) /\ j - 1 > i /\ mainQueue'[j - 1] = mainQueue[j]
      BY <1>1, <2>2
    <3> QED  BY <1>1, <1>2, <3>1 DEF IsLastControl, IsControl
  <2> QED  BY <1>1, <1>2, <2>1, <2>2 DEF IsLastControl, IsControl
<1> QED  BY <1>1, <1>2 DEF ServerInv, LastControlDecides

\* The tasks left after taking one are the old ones but the first.
LEMMA TakeLeaves ==
  ASSUME ServerInv, NEW type, TakeTask(type),
         \A i \in DOMAIN mainQueue' : ~IsControl(i)'
  PROVE  /\ \A j \in DOMAIN mainQueue : j > 1 => ~IsControl(j)
         /\ 1 \in DOMAIN mainQueue /\ mainQueue[1].type = type
         /\ DOMAIN mainQueue \subseteq Nat
<1> DEFINE n == Len(mainQueue)
<1>1. /\ DOMAIN mainQueue' = 1..(n - 1) /\ DOMAIN mainQueue = 1..n
      /\ n \in Nat /\ n >= 1 /\ mainQueue[1].type = type
      /\ \A i \in 1..(n - 1) : mainQueue'[i] = mainQueue[i + 1]
  BY TakeTaskQueue DEF ServerInv
<1>2. ASSUME NEW j \in 1..n, j > 1 PROVE ~IsControl(j)
  <2>1. (j - 1) \in 1..(n - 1) /\ mainQueue'[j - 1] = mainQueue[j]
    BY <1>1, <1>2
  <2> QED  BY <1>1, <2>1 DEF IsControl
<1> QED  BY <1>1, <1>2

\* The main thread's handlers: what the task taken decides is in force.
LEMMA TakeControl ==
  ASSUME ServerInv, NEW type \in {"connect", "disconnect"}, TakeTask(type),
         frontend' <=> (type = "connect"), UNCHANGED connectionId,
         served' = IF type = "connect" THEN Head(mainQueue).id ELSE NoConnection
  PROVE  SessionFollowsConnection'
<1> SUFFICES ASSUME \A i \in DOMAIN mainQueue' : ~IsControl(i)'
             PROVE  (frontend' <=> connectionId' # NoConnection) /\ served' = connectionId'
  BY DEF SessionFollowsConnection
<1>1. /\ \A j \in DOMAIN mainQueue : j > 1 => ~IsControl(j)
      /\ 1 \in DOMAIN mainQueue /\ mainQueue[1].type = type
  BY TakeLeaves
<1>2. IsLastControl(1)
  BY <1>1 DEF IsLastControl, IsControl
<1>3. connectionId = IF type = "connect" THEN mainQueue[1].id ELSE NoConnection
  BY <1>1, <1>2 DEF ServerInv, LastControlDecides
<1>4. mainQueue[1].id # NoConnection /\ Head(mainQueue) = mainQueue[1]
  <2>1. mainQueue[1] \in Tasks /\ Head(mainQueue) = mainQueue[1]
    BY TakeTaskQueue DEF ServerInv
  <2> QED  BY <2>1 DEF Tasks, Connections, NoConnection
<1> QED  BY <1>3, <1>4

LEMMA TakeMessage ==
  ASSUME ServerInv, TakeTask("message"), UNCHANGED <<frontend, served, connectionId>>
  PROVE  SessionFollowsConnection'
<1> SUFFICES ASSUME \A i \in DOMAIN mainQueue' : ~IsControl(i)'
             PROVE  (frontend <=> connectionId # NoConnection) /\ served = connectionId
  BY DEF SessionFollowsConnection
<1>1. /\ \A j \in DOMAIN mainQueue : j > 1 => ~IsControl(j)
      /\ mainQueue[1].type = "message"
  BY TakeLeaves
<1>2. \A j \in DOMAIN mainQueue : j = 1 \/ j > 1
  BY DEF ServerInv, TypeOK
<1>3. \A j \in DOMAIN mainQueue : ~IsControl(j)
  BY <1>1, <1>2 DEF IsControl
<1> QED  BY <1>3 DEF ServerInv, SessionFollowsConnection

-----------------------------------------------------------------------------
LEMMA ServerNext == ServerInv /\ [Next]_vars => ServerInv'
<1> SUFFICES ASSUME ServerInv, [Next]_vars PROVE ServerInv'
  OBVIOUS
<1> USE DEF NoConnection
<1>0. TypeOK /\ CurrentIsOpen
  BY DEF ServerInv
<1>s. ServedWhileFrontend'
  <2>1. ASSUME TakeTask("connect") PROVE Head(mainQueue).id # 0
    <3>1. mainQueue[1] \in Tasks /\ Head(mainQueue) = mainQueue[1]
      BY <1>0, <2>1, TakeTaskQueue
    <3> QED  BY <3>1 DEF Tasks, Connections
  <2> QED  BY <2>1 DEF ServerInv, ServedWhileFrontend, Next, IoThread, MainThread,
         Accept, OnWebSocketRequest, OnWebSocketMessage, OnClose,
         SendMessageToClient, HandleConnect, HandleMessageFromClient,
         HandleDisconnect, SendNotification, vars, serverVars
<1>1. CASE Accept
  <2>1. /\ sockets' \in Seq({"http", "webSocket", "closed", "failed"})
        /\ Len(sockets') <= MaxConnections
        /\ \A c \in DOMAIN sockets : c \in DOMAIN sockets' /\ sockets'[c] = sockets[c]
    BY <1>0, <1>1, BoundsAssumption DEF Accept, TypeOK
  <2>3. TypeOK'
    BY <1>0, <1>1, <2>1 DEF Accept, TypeOK
  <2>4. CurrentIsOpen'
    BY <1>0, <1>1, <2>1 DEF Accept, CurrentIsOpen, OpenSockets, Failed
  <2>2. TypeOK' /\ CurrentIsOpen'
    BY <2>3, <2>4
  <2> QED  BY <1>1, <2>2, <1>s DEF ServerInv, Accept, SessionFollowsConnection,
             LastControlDecides, IsLastControl, IsControl
<1>2. ASSUME NEW c \in DOMAIN sockets, OnWebSocketRequest(c) PROVE ServerInv'
  <2>1. c \in Connections
    BY <1>0, BoundsAssumption DEF TypeOK, Connections
  <2>2. PICK n \in Nat : /\ n >= 1 /\ DOMAIN mainQueue' = 1..n
                         /\ mainQueue'[n] = [type |-> "connect", id |-> c]
                         /\ mainQueue' \in Seq(Tasks) /\ Len(mainQueue') <= MaxQueue
    <3>1. CASE HandshakeWritten(c)
      <4>1. /\ DOMAIN mainQueue' = 1..(Len(mainQueue) + 1) /\ Len(mainQueue) \in Nat
            /\ mainQueue'[Len(mainQueue) + 1] = [type |-> "connect", id |-> c]
            /\ mainQueue' \in Seq(Tasks) /\ Len(mainQueue') <= MaxQueue
        BY <1>0, <2>1, <3>1, PostMainQueue DEF HandshakeWritten
      <4>2. Len(mainQueue) + 1 \in Nat /\ Len(mainQueue) + 1 >= 1
        BY <4>1
      <4> QED  BY <4>1, <4>2
    <3>2. CASE HandshakeFails(c)
      <4>1. /\ DOMAIN mainQueue' = 1..(Len(mainQueue) + 2) /\ Len(mainQueue) \in Nat
            /\ mainQueue'[Len(mainQueue) + 2] = [type |-> "connect", id |-> c]
            /\ mainQueue' \in Seq(Tasks) /\ Len(mainQueue') <= MaxQueue
        BY <1>0, <2>1, <3>2, FailQueue
      <4>2. Len(mainQueue) + 2 \in Nat /\ Len(mainQueue) + 2 >= 1
        BY <4>1
      <4> QED  BY <4>1, <4>2
    <3> QED  BY <1>2, <3>1, <3>2 DEF OnWebSocketRequest
  <2>3. connectionId' = c /\ UNCHANGED <<ioQueue, frontend, served, delivered>>
    BY <1>2 DEF OnWebSocketRequest
  <2>4. SessionFollowsConnection' /\ LastControlDecides'
    BY <2>1, <2>2, <2>3, PostControl
  <2>5. /\ sockets' \in Seq({"http", "webSocket", "closed", "failed"})
        /\ Len(sockets') = Len(sockets) /\ DOMAIN sockets' = DOMAIN sockets
        /\ sockets'[c] \in {"webSocket", "failed"}
    <3>1. PICK v \in {"webSocket", "failed"} : sockets' = [sockets EXCEPT ![c] = v]
      BY <1>2 DEF OnWebSocketRequest, HandshakeWritten, HandshakeFails
    <3> QED  BY <1>0, <3>1 DEF TypeOK
  <2>6. TypeOK'
    BY <1>0, <2>1, <2>2, <2>3, <2>5 DEF TypeOK
  <2>7. CurrentIsOpen'
    BY <2>3, <2>5 DEF CurrentIsOpen, OpenSockets, Failed
  <2> QED  BY <2>4, <2>6, <2>7, <1>s DEF ServerInv
<1>3. ASSUME NEW c \in DOMAIN sockets, OnWebSocketMessage(c) PROVE ServerInv'
  <2>1. c \in Connections
    BY <1>0, BoundsAssumption DEF TypeOK, Connections
  <2>2. SessionFollowsConnection' /\ LastControlDecides'
    BY <1>3, <2>1, PostMessage DEF OnWebSocketMessage
  <2>3. mainQueue' \in Seq(Tasks) /\ Len(mainQueue') <= MaxQueue
    BY <1>0, <1>3, <2>1, PostMainQueue DEF OnWebSocketMessage
  <2>4. TypeOK' /\ CurrentIsOpen'
    BY <1>0, <1>3, <2>3 DEF OnWebSocketMessage, TypeOK, CurrentIsOpen, OpenSockets, Failed
  <2> QED  BY <2>2, <2>4, <1>s DEF ServerInv
<1>4. ASSUME NEW c \in DOMAIN sockets, OnClose(c) PROVE ServerInv'
  <2>1. c \in Connections
    BY <1>0, BoundsAssumption DEF TypeOK, Connections
  <2>2. SessionFollowsConnection' /\ LastControlDecides'
    <3>1. PostMain("disconnect", c) /\ connectionId' = NoConnection
      BY <1>4 DEF OnClose
    <3>2. /\ DOMAIN mainQueue' = 1..(Len(mainQueue) + 1) /\ Len(mainQueue) \in Nat
          /\ mainQueue'[Len(mainQueue) + 1] = [type |-> "disconnect", id |-> c]
      BY <1>0, <2>1, <3>1, PostMainQueue
    <3>3. Len(mainQueue) + 1 \in Nat /\ Len(mainQueue) + 1 >= 1
      BY <3>2
    <3> QED  BY <2>1, <3>1, <3>2, <3>3, PostControl
  <2>3. /\ sockets' \in Seq({"http", "webSocket", "closed", "failed"})
        /\ Len(sockets') = Len(sockets)
    BY <1>0, <1>4 DEF TypeOK, OnClose
  <2>4. mainQueue' \in Seq(Tasks) /\ Len(mainQueue') <= MaxQueue
    BY <1>0, <1>4, <2>1, PostMainQueue DEF OnClose
  <2>5. TypeOK' /\ CurrentIsOpen'
    BY <1>0, <1>4, <2>3, <2>4 DEF OnClose, TypeOK, CurrentIsOpen
  <2> QED  BY <2>2, <2>5, <1>s DEF ServerInv
<1>5. CASE SendMessageToClient
  <2>1. ioQueue' \in Seq(Connections) /\ Len(ioQueue') <= MaxQueue
        /\ Head(ioQueue) \in Connections
    BY <1>0, <1>5, BoundsAssumption DEF SendMessageToClient, TypeOK
  <2>2. delivered' \subseteq Connections \X Connections
    <3>1. OpenSockets("webSocket") \subseteq Connections
      BY <1>0, BoundsAssumption DEF TypeOK, OpenSockets, Connections
    <3> QED  BY <1>0, <1>5, <2>1, <3>1 DEF SendMessageToClient, TypeOK
  <2>3. TypeOK' /\ CurrentIsOpen'
    BY <1>0, <1>5, <2>1, <2>2
    DEF SendMessageToClient, TypeOK, CurrentIsOpen, OpenSockets, Failed
  <2> QED  BY <1>5, <2>3, <1>s DEF ServerInv, SendMessageToClient,
             SessionFollowsConnection, LastControlDecides, IsLastControl, IsControl
<1>6. CASE HandleConnect
  <2>0. /\ TakeTask("connect") /\ UNCHANGED connectionId
        /\ frontend' <=> ("connect" = "connect")
        /\ served' = IF "connect" = "connect" THEN Head(mainQueue).id ELSE NoConnection
    BY <1>6 DEF HandleConnect
  <2>1. SessionFollowsConnection' /\ LastControlDecides'
    <3>1. SessionFollowsConnection'
      BY ONLY <2>0, ServerInv, TakeControl
    <3>2. LastControlDecides'
      BY ONLY <2>0, ServerInv, TakeMovesUp
    <3> QED  BY <3>1, <3>2
  <2>2. /\ mainQueue' \in Seq(Tasks) /\ Len(mainQueue') <= MaxQueue
        /\ Head(mainQueue).id \in Connections
    BY <1>0, <1>6, TakeTaskQueue DEF HandleConnect, Tasks
  <2>3. TypeOK' /\ CurrentIsOpen'
    BY <1>0, <1>6, <2>2 DEF HandleConnect, TypeOK, CurrentIsOpen, OpenSockets, Failed
  <2> QED  BY <2>1, <2>3, <1>s DEF ServerInv
<1>7. CASE HandleMessageFromClient
  <2>1. SessionFollowsConnection' /\ LastControlDecides'
    BY <1>7, TakeMessage, TakeMovesUp DEF HandleMessageFromClient
  <2>2. /\ mainQueue' \in Seq(Tasks) /\ Len(mainQueue') <= MaxQueue
        /\ Head(mainQueue).id \in Connections
    BY <1>0, <1>7, TakeTaskQueue DEF HandleMessageFromClient, Tasks
  <2>3. ioQueue' \in Seq(Connections) /\ Len(ioQueue') <= MaxQueue
    <3>1. CASE frontend
      BY <1>0, <1>7, <2>2, <3>1, SendQueue DEF HandleMessageFromClient
    <3>2. CASE ~frontend
      BY <1>0, <1>7, <3>2 DEF HandleMessageFromClient, TypeOK
    <3> QED  BY <3>1, <3>2
  <2>4. TypeOK' /\ CurrentIsOpen'
    BY <1>0, <1>7, <2>2, <2>3
    DEF HandleMessageFromClient, TypeOK, CurrentIsOpen, OpenSockets, Failed
  <2> QED  BY <2>1, <2>4, <1>s DEF ServerInv
<1>8. CASE HandleDisconnect
  <2>0. /\ TakeTask("disconnect") /\ UNCHANGED connectionId
        /\ frontend' <=> ("disconnect" = "connect")
        /\ served' = IF "disconnect" = "connect" THEN Head(mainQueue).id ELSE NoConnection
    BY <1>8 DEF HandleDisconnect
  <2>1. SessionFollowsConnection' /\ LastControlDecides'
    <3>1. SessionFollowsConnection'
      BY ONLY <2>0, ServerInv, TakeControl
    <3>2. LastControlDecides'
      BY ONLY <2>0, ServerInv, TakeMovesUp
    <3> QED  BY <3>1, <3>2
  <2>2. mainQueue' \in Seq(Tasks) /\ Len(mainQueue') <= MaxQueue
    BY <1>0, <1>8, TakeTaskQueue DEF HandleDisconnect
  <2>3. TypeOK' /\ CurrentIsOpen'
    BY <1>0, <1>8, <2>2 DEF HandleDisconnect, TypeOK, CurrentIsOpen, OpenSockets, Failed
  <2> QED  BY <2>1, <2>3, <1>s DEF ServerInv
<1>9. CASE SendNotification
  <2>1. served \in Connections
    BY <1>0, <1>9 DEF ServerInv, ServedWhileFrontend, TypeOK, SendNotification
  <2>2. ioQueue' \in Seq(Connections) /\ Len(ioQueue') <= MaxQueue
    BY <1>0, <1>9, <2>1, SendQueue DEF SendNotification
  <2>3. TypeOK' /\ CurrentIsOpen'
    BY <1>0, <1>9, <2>2 DEF SendNotification, TypeOK, CurrentIsOpen, OpenSockets, Failed
  <2> QED  BY <1>9, <2>3, <1>s DEF ServerInv, SendNotification,
             SessionFollowsConnection, LastControlDecides, IsLastControl, IsControl
<1>10. CASE UNCHANGED vars
  BY <1>10, <1>s DEF vars, serverVars, ServerInv, TypeOK, CurrentIsOpen, OpenSockets, Failed,
     SessionFollowsConnection, LastControlDecides, IsLastControl, IsControl
<1> QED  BY <1>1, <1>2, <1>3, <1>4, <1>5, <1>6, <1>7, <1>8, <1>9, <1>10
         DEF Next, IoThread, MainThread

\* The conjunction is an invariant of the transport.
THEOREM ServerInvariance == Spec => []ServerInv
  BY ServerInit, ServerNext, PTL DEF Spec

\* The state has its type: ids, queues and histories stay within the bounds.
THEOREM ServerTypeCorrect == Spec => []TypeOK
<1>1. ServerInv => TypeOK
  BY DEF ServerInv
<1> QED  BY <1>1, ServerInvariance, PTL

\* If a connect or disconnect waits, one of them is the last.
LEMMA LastControlExists ==
  ASSUME TypeOK, NEW k \in DOMAIN mainQueue, IsControl(k)
  PROVE  \E i \in DOMAIN mainQueue : IsLastControl(i)
<1> DEFINE n == Len(mainQueue)
           T == {m \in Nat : \E i \in DOMAIN mainQueue : IsControl(i) /\ m = n - i}
<1>1. n \in Nat /\ DOMAIN mainQueue = 1..n
  BY DEF TypeOK
<1> HIDE DEF n
<1>2. n - k \in T
  BY <1>1
<1>3. PICK m \in T : \A y \in T : ~(<<y, m>> \in OpToRel(<, Nat))
  BY <1>2, NatLessThanWellFounded, WFMin
<1>4. PICK i \in DOMAIN mainQueue : IsControl(i) /\ m = n - i
  OBVIOUS
<1>5. ASSUME NEW j \in DOMAIN mainQueue, j > i, IsControl(j) PROVE FALSE
  <2>1. n - j \in T /\ n - j \in Nat /\ n - j < m /\ m \in Nat
    BY <1>1, <1>4, <1>5
  <2> QED  BY <1>3, <2>1 DEF OpToRel
<1> QED  BY <1>4, <1>5 DEF IsLastControl

\* However many connections come and go or fail in their handshake, the main
\* thread ends up with a front-end exactly if the IO thread has a current
\* connection, and with that connection's.
THEOREM SessionFollowsConnectionAlways == Spec => []SessionFollowsConnection
<1>1. ServerInv => SessionFollowsConnection
  BY DEF ServerInv
<1> QED  BY <1>1, ServerInvariance, PTL

-----------------------------------------------------------------------------
(* One client at a time.  The transport remembers one connection and never *)
(* says which one a message is for, so that what keeps two clients apart   *)
(* is the order of the tasks: the client that goes posts its disconnect    *)
(* before the next one can post its connect.                               *)

\* The connection was a WebSocket at some time.
Upgraded(c) == c \in DOMAIN sockets /\ sockets[c] # "http"

\* At most one WebSocket is open.
OneOpen == \A c, d \in OpenSockets("webSocket") : c = d

\* Whatever is served, asked or answered is or was a WebSocket.
IdsAreUpgraded ==
  /\ \A i \in DOMAIN mainQueue :
       mainQueue[i].type # "disconnect" => Upgraded(mainQueue[i].id)
  /\ \A i \in DOMAIN ioQueue : Upgraded(ioQueue[i])
  /\ served # NoConnection => Upgraded(served)
  /\ \A d \in delivered : Upgraded(d[1])

\* A message comes from a connection that got through its handshake.
SendersWereOpen ==
  \A i \in DOMAIN mainQueue :
    mainQueue[i].type = "message" => mainQueue[i].id \notin Failed

\* A connect or a disconnect waits between the positions j and i of the main
\* queue.
Ends(j, i) ==
  \E k \in DOMAIN mainQueue : j < k /\ k < i /\ mainQueue[k].type # "message"

\* When the task at position i runs no connection outside D is served: every
\* other one that is served or about to be is disconnected or replaced first.
ServesOnly(i, D) ==
  /\ frontend /\ served \notin D => Ends(0, i)
  /\ \A j \in DOMAIN mainQueue :
       j < i /\ mainQueue[j].type = "connect" /\ mainQueue[j].id \notin D => Ends(j, i)

\* A connect runs when nobody is served but a connection that failed, a message
\* when at most its sender is.
TasksInTurn ==
  \A i \in DOMAIN mainQueue, c \in Connections :
    mainQueue[i].id = c =>
      /\ mainQueue[i].type = "connect" => \E D \in SUBSET Failed : ServesOnly(i, D)
      /\ mainQueue[i].type = "message" => ServesOnly(i, {c})

\* The same of the tasks still to be posted: while no WebSocket is open a
\* connect may follow, and an open one may send a message.
NextInTurn ==
  \A i \in Nat :
    i > Len(mainQueue) =>
      /\ OpenSockets("webSocket") = {} => \E D \in SUBSET Failed : ServesOnly(i, D)
      /\ \A c \in OpenSockets("webSocket") : ServesOnly(i, {c})

\* The inductive invariant for one client, on top of ServerInv.
ClientInv ==
  /\ OneOpen /\ IdsAreUpgraded /\ SendersWereOpen
  /\ TasksInTurn /\ NextInTurn /\ NoMixup

\* The queue grew from n tasks to m.
Grew(n, m) ==
  /\ n \in Nat /\ m \in Nat /\ n < m
  /\ DOMAIN mainQueue = 1..n /\ DOMAIN mainQueue' = 1..m
  /\ Len(mainQueue) = n /\ Len(mainQueue') = m
  /\ \A j \in 1..n : mainQueue'[j] = mainQueue[j]

LEMMA PostGrows ==
  ASSUME TypeOK, NEW type \in {"connect", "message", "disconnect"},
         NEW c \in Connections, PostMain(type, c)
  PROVE  \E n \in Nat : /\ Grew(n, n + 1)
                        /\ mainQueue'[n + 1].type = type /\ mainQueue'[n + 1].id = c
<1> DEFINE n == Len(mainQueue)
<1>1. /\ DOMAIN mainQueue' = 1..(n + 1) /\ DOMAIN mainQueue = 1..n
      /\ Len(mainQueue') = n + 1 /\ n \in Nat
      /\ mainQueue'[n + 1] = [type |-> type, id |-> c]
      /\ \A j \in 1..n : mainQueue'[j] = mainQueue[j]
  BY PostMainQueue
<1>2. n + 1 \in Nat /\ n < n + 1
  BY <1>1
<1>3. Grew(n, n + 1)
  BY <1>1, <1>2 DEF Grew
<1>4. mainQueue'[n + 1].type = type /\ mainQueue'[n + 1].id = c
  BY <1>1
<1> HIDE DEF n
<1> QED  BY <1>1, <1>3, <1>4

LEMMA FailGrows ==
  ASSUME TypeOK, NEW c \in Connections, HandshakeFails(c)
  PROVE  \E n \in Nat : /\ Grew(n, n + 2)
                        /\ mainQueue'[n + 1].type = "disconnect"
                        /\ mainQueue'[n + 2].type = "connect" /\ mainQueue'[n + 2].id = c
<1> DEFINE n == Len(mainQueue)
<1>1. /\ DOMAIN mainQueue' = 1..(n + 2) /\ DOMAIN mainQueue = 1..n
      /\ Len(mainQueue') = n + 2 /\ n \in Nat
      /\ mainQueue'[n + 1] = [type |-> "disconnect", id |-> c]
      /\ mainQueue'[n + 2] = [type |-> "connect", id |-> c]
      /\ \A j \in 1..n : mainQueue'[j] = mainQueue[j]
  BY FailQueue
<1>2. n + 2 \in Nat /\ n < n + 2
  BY <1>1
<1>3. Grew(n, n + 2)
  BY <1>1, <1>2 DEF Grew
<1>4. /\ mainQueue'[n + 1].type = "disconnect"
      /\ mainQueue'[n + 2].type = "connect" /\ mainQueue'[n + 2].id = c
  BY <1>1
<1> HIDE DEF n
<1> QED  BY <1>1, <1>3, <1>4

\* Posted tasks leave the positions up to the first of them as they were; a
\* message, the later ones too.
LEMMA PostKeepsServes ==
  ASSUME NEW n \in Nat, NEW m \in Nat, Grew(n, m), UNCHANGED <<frontend, served>>,
         NEW i \in Nat, NEW D, ServesOnly(i, D),
         i <= n + 1 \/ \A j \in (n + 1)..m : mainQueue'[j].type = "message"
  PROVE  ServesOnly(i, D)'
<1>1. /\ n < m /\ DOMAIN mainQueue = 1..n /\ DOMAIN mainQueue' = 1..m
      /\ \A j \in 1..n : mainQueue'[j] = mainQueue[j]
  BY DEF Grew
<1>2. ASSUME NEW j \in Nat, Ends(j, i) PROVE Ends(j, i)'
  BY <1>1, <1>2 DEF Ends
<1>3. (frontend /\ served \notin D => Ends(0, i))'
  BY <1>2 DEF ServesOnly
<1>4. ASSUME NEW j \in DOMAIN mainQueue', j < i, mainQueue'[j].type = "connect",
             mainQueue'[j].id \notin D
      PROVE  Ends(j, i)'
  <2>1. j \in DOMAIN mainQueue /\ mainQueue'[j] = mainQueue[j] /\ j \in Nat
    BY <1>1, <1>4
  <2> QED  BY <1>2, <1>4, <2>1 DEF ServesOnly
<1> QED  BY <1>3, <1>4 DEF ServesOnly

\* After a disconnect nobody is served, after a connect nobody else.
LEMMA ControlServes ==
  ASSUME DOMAIN mainQueue' \subseteq Nat \ {0}, NEW k \in DOMAIN mainQueue',
         NEW i \in Nat, k < i, \A j \in DOMAIN mainQueue' : j < i => j <= k,
         NEW D, mainQueue'[k].type # "message",
         mainQueue'[k].type = "connect" => mainQueue'[k].id \in D
  PROVE  ServesOnly(i, D)'
<1>1. \A j \in Nat : j < k => Ends(j, i)'
  BY DEF Ends
<1>2. ASSUME NEW j \in DOMAIN mainQueue', j < i, mainQueue'[j].type = "connect",
             mainQueue'[j].id \notin D
      PROVE  Ends(j, i)'
  <2>1. j \in Nat /\ k \in Nat /\ j <= k /\ j # k
    BY <1>2
  <2> QED  BY <1>1, <2>1
<1> QED  BY <1>1, <1>2 DEF ServesOnly

\* Taking a task moves the others up by one, and what it does to the front-end
\* is what the positions behind it counted on.
LEMMA TakeKeepsServes ==
  ASSUME TypeOK, NEW type \in {"connect", "message", "disconnect"}, TakeTask(type),
         type = "connect" => frontend' = TRUE /\ served' = Head(mainQueue).id,
         type = "message" => UNCHANGED <<frontend, served>>,
         type = "disconnect" => frontend' = FALSE,
         NEW i \in Nat, i > 0, NEW D, ServesOnly(i + 1, D)
  PROVE  ServesOnly(i, D)'
<1> DEFINE n == Len(mainQueue)
<1>1. /\ DOMAIN mainQueue' = 1..(n - 1) /\ DOMAIN mainQueue = 1..n
      /\ n \in Nat /\ n >= 1 /\ mainQueue[1].type = type
      /\ Head(mainQueue) = mainQueue[1]
      /\ \A j \in 1..(n - 1) : mainQueue'[j] = mainQueue[j + 1]
  BY TakeTaskQueue
<1> HIDE DEF n
<1>2. ASSUME NEW j \in Nat, Ends(j + 1, i + 1) PROVE Ends(j, i)'
  <2>1. PICK k \in 1..n : j + 1 < k /\ k < i + 1 /\ mainQueue[k].type # "message"
    BY <1>1, <1>2 DEF Ends
  <2>2. (k - 1) \in 1..(n - 1) /\ j < k - 1 /\ k - 1 < i /\ mainQueue'[k - 1] = mainQueue[k]
    BY <1>1, <2>1
  <2> QED  BY <1>1, <2>1, <2>2 DEF Ends
<1>3. ASSUME Ends(0, i + 1), type = "message" PROVE Ends(1, i + 1)
  BY <1>1, <1>3 DEF Ends
<1>4. (frontend /\ served \notin D => Ends(0, i))'
  <2> SUFFICES ASSUME frontend', served' \notin D PROVE Ends(1, i + 1)
    <3>1. ASSUME Ends(1, i + 1) PROVE Ends(0 + 1, i + 1)
      BY <3>1
    <3> QED  BY <1>2, <3>1
  <2>1. CASE type = "connect"
    BY <1>1, <2>1 DEF ServesOnly
  <2>2. CASE type = "message"
    <3>1. frontend /\ served \notin D
      BY <2>2
    <3>2. Ends(0, i + 1)
      BY <3>1 DEF ServesOnly
    <3> QED  BY <1>3, <2>2, <3>2
  <2> QED  BY <2>1, <2>2
<1>5. ASSUME NEW j \in DOMAIN mainQueue', j < i, mainQueue'[j].type = "connect",
             mainQueue'[j].id \notin D
      PROVE  Ends(j, i)'
  <2>1. /\ (j + 1) \in 1..n /\ j \in Nat /\ j + 1 < i + 1
        /\ mainQueue'[j] = mainQueue[j + 1]
    BY <1>1, <1>5
  <2>2. Ends(j + 1, i + 1)
    BY <1>1, <1>5, <2>1 DEF ServesOnly
  <2> QED  BY <1>2, <2>1, <2>2
<1> QED  BY <1>4, <1>5 DEF ServesOnly


\* Nothing is out of turn after the main thread has taken a task.
LEMMA TakeInTurn ==
  ASSUME TypeOK, TasksInTurn, NextInTurn,
         NEW type \in {"connect", "message", "disconnect"}, TakeTask(type),
         type = "connect" => frontend' = TRUE /\ served' = Head(mainQueue).id,
         type = "message" => UNCHANGED <<frontend, served>>,
         type = "disconnect" => frontend' = FALSE,
         UNCHANGED sockets
  PROVE  TasksInTurn' /\ NextInTurn'
<1> DEFINE n == Len(mainQueue)
<1>1. /\ DOMAIN mainQueue' = 1..(n - 1) /\ DOMAIN mainQueue = 1..n
      /\ n \in Nat /\ n >= 1 /\ mainQueue' \in Seq(Tasks)
      /\ \A j \in 1..(n - 1) : mainQueue'[j] = mainQueue[j + 1]
  BY TakeTaskQueue
<1>2. Len(mainQueue') = n - 1
  BY DEF TypeOK, TakeTask
<1>3. ASSUME NEW i \in Nat, i > 0, NEW D, ServesOnly(i + 1, D) PROVE ServesOnly(i, D)'
  BY <1>3, TakeKeepsServes
<1>4. Failed' = Failed /\ OpenSockets("webSocket")' = OpenSockets("webSocket")
  BY DEF Failed, OpenSockets
<1>5. ASSUME NEW i \in Nat, i > 0, \E D \in SUBSET Failed : ServesOnly(i + 1, D)
      PROVE  (\E D \in SUBSET Failed : ServesOnly(i, D))'
  <2>1. PICK D \in SUBSET Failed : ServesOnly(i + 1, D)
    BY <1>5
  <2>2. ServesOnly(i, D)'
    BY <1>3, <1>5, <2>1
  <2> QED  BY <1>4, <2>1, <2>2
<1> HIDE DEF n
<1>6. ASSUME NEW i \in DOMAIN mainQueue', NEW c \in Connections, mainQueue'[i].id = c
      PROVE  /\ mainQueue'[i].type = "connect" => (\E D \in SUBSET Failed : ServesOnly(i, D))'
             /\ mainQueue'[i].type = "message" => ServesOnly(i, {c})'
  <2>1. i \in Nat /\ i > 0 /\ (i + 1) \in DOMAIN mainQueue
        /\ mainQueue'[i] = mainQueue[i + 1]
    BY <1>1
  <2>2. /\ mainQueue[i + 1].type = "connect" => \E D \in SUBSET Failed : ServesOnly(i + 1, D)
        /\ mainQueue[i + 1].type = "message" => ServesOnly(i + 1, {c})
    BY <1>6, <2>1 DEF TasksInTurn
  <2>3. ServesOnly(i + 1, {c}) => ServesOnly(i, {c})'
    BY <1>3, <2>1
  <2> QED  BY <1>5, <2>1, <2>2, <2>3
<1>7. TasksInTurn'
  BY <1>6 DEF TasksInTurn
<1>8. ASSUME NEW i \in Nat, i > Len(mainQueue')
      PROVE  /\ OpenSockets("webSocket")' = {} => (\E D \in SUBSET Failed : ServesOnly(i, D))'
             /\ \A c \in OpenSockets("webSocket")' : ServesOnly(i, {c})'
  <2>1. i > 0 /\ (i + 1) \in Nat /\ i + 1 > Len(mainQueue)
    BY <1>1, <1>2, <1>8 DEF n
  <2>2. /\ OpenSockets("webSocket") = {} => \E D \in SUBSET Failed : ServesOnly(i + 1, D)
        /\ \A c \in OpenSockets("webSocket") : ServesOnly(i + 1, {c})
    BY <2>1 DEF NextInTurn
  <2>3. ASSUME NEW c \in OpenSockets("webSocket")' PROVE ServesOnly(i, {c})'
    <3>1. ServesOnly(i + 1, {c})
      BY <1>4, <2>2
    <3> QED  BY <1>3, <2>1, <3>1
  <2> QED  BY <1>4, <1>5, <2>1, <2>2, <2>3
<1>9. NextInTurn'
  BY <1>8 DEF NextInTurn
<1> QED  BY <1>7, <1>9

\* Nor after the IO thread has posted some, if the new ones are in turn.
LEMMA PostInTurn ==
  ASSUME TasksInTurn, NEW n \in Nat, NEW m \in Nat, Grew(n, m),
         UNCHANGED <<frontend, served>>, Failed \subseteq Failed',
         \A i \in (n + 1)..m, c \in Connections :
           mainQueue'[i].id = c =>
             /\ mainQueue'[i].type = "connect" => (\E D \in SUBSET Failed : ServesOnly(i, D))'
             /\ mainQueue'[i].type = "message" => ServesOnly(i, {c})'
  PROVE  TasksInTurn'
<1>1. /\ n < m /\ DOMAIN mainQueue = 1..n /\ DOMAIN mainQueue' = 1..m
      /\ \A j \in 1..n : mainQueue'[j] = mainQueue[j]
  BY DEF Grew
<1>2. ASSUME NEW i \in 1..n, NEW D, ServesOnly(i, D) PROVE ServesOnly(i, D)'
  <2>1. i \in Nat /\ i <= n + 1
    OBVIOUS
  <2> QED  BY <1>2, <2>1, PostKeepsServes
<1>3. ASSUME NEW i \in DOMAIN mainQueue', NEW c \in Connections, mainQueue'[i].id = c
      PROVE  /\ mainQueue'[i].type = "connect" => (\E D \in SUBSET Failed : ServesOnly(i, D))'
             /\ mainQueue'[i].type = "message" => ServesOnly(i, {c})'
  <2>1. CASE i \in (n + 1)..m
    BY <1>3, <2>1
  <2>2. CASE i \in 1..n
    <3>1. /\ mainQueue[i].type = "connect" => \E D \in SUBSET Failed : ServesOnly(i, D)
          /\ mainQueue[i].type = "message" => ServesOnly(i, {c})
      BY <1>1, <1>3, <2>2 DEF TasksInTurn
    <3>2. ASSUME mainQueue'[i].type = "connect"
          PROVE  (\E D \in SUBSET Failed : ServesOnly(i, D))'
      <4>1. PICK D \in SUBSET Failed : ServesOnly(i, D)
        BY <1>1, <2>2, <3>1, <3>2
      <4>2. ServesOnly(i, D)'
        BY <1>2, <2>2, <4>1
      <4> QED  BY <4>1, <4>2
    <3>3. ServesOnly(i, {c}) => ServesOnly(i, {c})'
      BY <1>2, <2>2
    <3> QED  BY <1>1, <2>2, <3>1, <3>2, <3>3
  <2> QED  BY <1>1, <2>1, <2>2
<1> QED  BY <1>3 DEF TasksInTurn

\* A step that leaves the queue and the WebSockets alone.
LEMMA SameQueue ==
  ASSUME TasksInTurn, NextInTurn, UNCHANGED <<mainQueue, frontend, served>>,
         OpenSockets("webSocket")' = OpenSockets("webSocket"), Failed' = Failed
  PROVE  TasksInTurn' /\ NextInTurn'
<1>1. \A i, D : ServesOnly(i, D)' <=> ServesOnly(i, D)
  BY DEF ServesOnly, Ends
<1> QED  BY <1>1 DEF TasksInTurn, NextInTurn

\* What a step may do to a connection that is or was a WebSocket.
SocketsMove ==
  \A c : Upgraded(c) =>
    /\ Upgraded(c)'
    /\ sockets[c] \in {"closed", "failed"} => sockets'[c] \in {"closed", "failed"}
    /\ (c \in Failed)' <=> c \in Failed

\* A connection is upgraded once and closed once.
LEMMA SocketsMoveOn ==
  ASSUME TypeOK,
         \/ Accept
         \/ \E c \in DOMAIN sockets : OnWebSocketRequest(c) \/ OnClose(c)
         \/ UNCHANGED sockets
  PROVE  SocketsMove
<1>1. CASE Accept
  <2>1. \A c \in DOMAIN sockets : c \in DOMAIN sockets' /\ sockets'[c] = sockets[c]
    BY <1>1 DEF Accept, TypeOK
  <2> QED  BY <2>1 DEF SocketsMove, Upgraded, Failed
<1>2. ASSUME NEW c \in DOMAIN sockets, OnWebSocketRequest(c) \/ OnClose(c)
      PROVE  SocketsMove
  <2>1. PICK v \in {"webSocket", "closed", "failed"} : sockets' = [sockets EXCEPT ![c] = v]
    BY <1>2 DEF OnWebSocketRequest, HandshakeWritten, HandshakeFails, OnClose
  <2>2. sockets[c] = "http" \/ (sockets[c] = "webSocket" /\ v = "closed")
    <3>1. CASE OnWebSocketRequest(c)
      BY <3>1 DEF OnWebSocketRequest, MayUpgrade, OpenSockets
    <3>2. CASE OnClose(c)
      <4>1. sockets' = [sockets EXCEPT ![c] = "closed"]
        BY <3>2 DEF OnClose
      <4>2. v = "closed"
        BY <2>1, <4>1 DEF TypeOK
      <4> QED  BY <3>2, <4>2 DEF OnClose, OpenSockets
    <3> QED  BY <1>2, <3>1, <3>2
  <2>3. /\ DOMAIN sockets' = DOMAIN sockets /\ sockets'[c] = v
        /\ \A d \in DOMAIN sockets : d # c => sockets'[d] = sockets[d]
    BY <2>1 DEF TypeOK
  <2> QED  BY <2>2, <2>3 DEF SocketsMove, Upgraded, Failed
<1>3. CASE UNCHANGED sockets
  BY <1>3 DEF SocketsMove, Upgraded, Failed
<1> QED  BY <1>1, <1>2, <1>3

\* So the connections that failed stay failed, and a sender does not become one.
LEMMA FailedStay ==
  ASSUME SocketsMove PROVE Failed \subseteq Failed'
  BY DEF SocketsMove, Failed, Upgraded

LEMMA SendersStay ==
  ASSUME SendersWereOpen, IdsAreUpgraded, SocketsMove, NEW n \in Nat, NEW m \in Nat,
         Grew(n, m),
         \A i \in (n + 1)..m : mainQueue'[i].type = "message" => mainQueue'[i].id \notin Failed'
  PROVE  SendersWereOpen'
<1>1. /\ n < m /\ DOMAIN mainQueue = 1..n /\ DOMAIN mainQueue' = 1..m
      /\ \A j \in 1..n : mainQueue'[j] = mainQueue[j]
  BY DEF Grew
<1> SUFFICES ASSUME NEW i \in DOMAIN mainQueue', mainQueue'[i].type = "message"
             PROVE  mainQueue'[i].id \notin Failed'
  BY DEF SendersWereOpen
<1>2. CASE i \in (n + 1)..m
  BY <1>2
<1>3. CASE i \in 1..n
  <2>1. mainQueue[i].type = "message" /\ mainQueue'[i] = mainQueue[i]
    BY <1>1, <1>3
  <2>2. Upgraded(mainQueue[i].id) /\ mainQueue[i].id \notin Failed
    BY <1>1, <1>3, <2>1 DEF IdsAreUpgraded, SendersWereOpen
  <2> QED  BY <2>1, <2>2 DEF SocketsMove
<1> QED  BY <1>1, <1>2, <1>3

LEMMA TakeSenders ==
  ASSUME TypeOK, SendersWereOpen, NEW type, TakeTask(type), UNCHANGED sockets
  PROVE  SendersWereOpen'
<1>1. /\ DOMAIN mainQueue' = 1..(Len(mainQueue) - 1) /\ Len(mainQueue) \in Nat
      /\ DOMAIN mainQueue = 1..Len(mainQueue) /\ Len(mainQueue) >= 1
      /\ \A i \in 1..(Len(mainQueue) - 1) : mainQueue'[i] = mainQueue[i + 1]
  BY TakeTaskQueue
<1>2. Failed' = Failed
  BY DEF Failed
<1>3. ASSUME NEW i \in DOMAIN mainQueue', mainQueue'[i].type = "message"
      PROVE  mainQueue'[i].id \notin Failed
  <2>1. (i + 1) \in DOMAIN mainQueue /\ mainQueue'[i] = mainQueue[i + 1]
    BY <1>1
  <2> QED  BY <1>3, <2>1 DEF SendersWereOpen
<1> QED  BY <1>2, <1>3 DEF SendersWereOpen

\* What was delivered stays in order.
LEMMA NoMixupStays ==
  ASSUME TypeOK, IdsAreUpgraded, NoMixup, UNCHANGED delivered,
         SocketsMove
  PROVE  NoMixup' /\ \A d \in delivered' : Upgraded(d[1])'
  BY DEF IdsAreUpgraded, NoMixup, SocketsMove

\* With one client at a time a connection is upgraded only when no WebSocket is
\* open.
LEMMA UpgradeAlone ==
  ASSUME MaxClients = 1, TypeOK, NEW c, MayUpgrade(c)
  PROVE  OpenSockets("webSocket") = {}
<1> DEFINE W == OpenSockets("webSocket")
<1>1. IsFiniteSet(DOMAIN sockets)
  <2>1. Len(sockets) \in Nat /\ DOMAIN sockets = 1..Len(sockets) /\ 1 \in Int /\ Len(sockets) \in Int
    BY DEF TypeOK
  <2> QED  BY <2>1, FS_Interval
<1>2. IsFiniteSet(W)
  BY <1>1, FS_Subset DEF OpenSockets
<1>3. Cardinality(W) \in Nat /\ (Cardinality(W) = 0 <=> W = {})
  BY <1>2, FS_CardinalityType, FS_EmptySet
<1>4. Cardinality(W) < 1
  BY DEF MayUpgrade
<1> QED  BY <1>3, <1>4

\* Posting tasks keeps the ids in the queue upgraded.
LEMMA PostUpgraded ==
  ASSUME IdsAreUpgraded, NEW n \in Nat, NEW m \in Nat, Grew(n, m),
         \A i \in (n + 1)..m :
           mainQueue'[i].type # "disconnect" => Upgraded(mainQueue[i].id)',
         SocketsMove
  PROVE  \A i \in DOMAIN mainQueue' :
           mainQueue'[i].type # "disconnect" => Upgraded(mainQueue[i].id)'
<1>1. /\ n < m /\ DOMAIN mainQueue = 1..n /\ DOMAIN mainQueue' = 1..m
      /\ \A j \in 1..n : mainQueue'[j] = mainQueue[j]
  BY DEF Grew
<1> SUFFICES ASSUME NEW i \in DOMAIN mainQueue', mainQueue'[i].type # "disconnect"
             PROVE  Upgraded(mainQueue[i].id)'
  OBVIOUS
<1>2. CASE i \in (n + 1)..m
  BY <1>2
<1>3. CASE i \in 1..n
  <2>1. i \in DOMAIN mainQueue /\ mainQueue'[i] = mainQueue[i]
    BY <1>1, <1>3
  <2>2. Upgraded(mainQueue[i].id)
    BY <2>1 DEF IdsAreUpgraded
  <2> QED  BY <2>1, <2>2 DEF Upgraded, SocketsMove
<1> QED  BY <1>1, <1>2, <1>3

\* Taking one, too.
LEMMA TakeUpgraded ==
  ASSUME TypeOK, IdsAreUpgraded, NEW type, TakeTask(type), UNCHANGED sockets
  PROVE  /\ \A i \in DOMAIN mainQueue' :
              mainQueue'[i].type # "disconnect" => Upgraded(mainQueue[i].id)'
         /\ type # "disconnect" => Upgraded(Head(mainQueue).id)
<1>1. /\ DOMAIN mainQueue' = 1..(Len(mainQueue) - 1) /\ Len(mainQueue) \in Nat
      /\ DOMAIN mainQueue = 1..Len(mainQueue) /\ Len(mainQueue) >= 1
      /\ \A i \in 1..(Len(mainQueue) - 1) : mainQueue'[i] = mainQueue[i + 1]
      /\ Head(mainQueue) = mainQueue[1] /\ mainQueue[1].type = type
  BY TakeTaskQueue
<1>2. type # "disconnect" => Upgraded(Head(mainQueue).id)
  BY <1>1 DEF IdsAreUpgraded
<1>3. ASSUME NEW i \in DOMAIN mainQueue', mainQueue'[i].type # "disconnect"
      PROVE  Upgraded(mainQueue[i].id)'
  <2>1. (i + 1) \in DOMAIN mainQueue /\ mainQueue'[i] = mainQueue[i + 1]
    BY <1>1
  <2>2. Upgraded(mainQueue[i + 1].id)
    BY <1>3, <2>1 DEF IdsAreUpgraded
  <2> QED  BY <2>1, <2>2 DEF Upgraded
<1> QED  BY <1>2, <1>3

\* And so with the ids of the messages on their way out.
LEMMA SendUpgraded ==
  ASSUME TypeOK, IdsAreUpgraded, UNCHANGED sockets,
         NEW c \in Connections, Send(c), Upgraded(c)
  PROVE  \A i \in DOMAIN ioQueue' : Upgraded(ioQueue[i])'
<1>1. /\ DOMAIN ioQueue' = 1..(Len(ioQueue) + 1) /\ Len(ioQueue) \in Nat
      /\ DOMAIN ioQueue = 1..Len(ioQueue)
      /\ \A i \in 1..Len(ioQueue) : ioQueue'[i] = ioQueue[i]
      /\ ioQueue'[Len(ioQueue) + 1] = c
  BY DEF TypeOK, Send
<1> SUFFICES ASSUME NEW i \in DOMAIN ioQueue' PROVE Upgraded(ioQueue[i])'
  OBVIOUS
<1>2. CASE i = Len(ioQueue) + 1
  BY <1>1, <1>2 DEF Upgraded
<1>3. CASE i # Len(ioQueue) + 1
  <2>1. i \in DOMAIN ioQueue /\ ioQueue'[i] = ioQueue[i]
    BY <1>1, <1>3
  <2> QED  BY <2>1 DEF Upgraded, IdsAreUpgraded
<1> QED  BY <1>2, <1>3


-----------------------------------------------------------------------------
(* Two steps the whole system composes its own from.                       *)

\* A message is taken and not answered, or not yet.
TakeSilently ==
  /\ TakeTask("message")
  /\ UNCHANGED <<sockets, connectionId, ioQueue, frontend, served, delivered>>

\* Something is sent on behalf of a connection.
SendFor(c) ==
  /\ Send(c)
  /\ UNCHANGED <<sockets, connectionId, mainQueue, frontend, served, delivered>>

LEMMA ServerTakes ==
  ASSUME ServerInv, TakeSilently PROVE ServerInv'
<1>1. /\ TakeTask("message") /\ UNCHANGED <<frontend, served, connectionId>> /\ TypeOK
      /\ UNCHANGED <<sockets, ioQueue, delivered>>
  BY DEF TakeSilently, ServerInv
<1>2. SessionFollowsConnection' /\ LastControlDecides'
  BY <1>1, TakeMessage, TakeMovesUp
<1>3. mainQueue' \in Seq(Tasks) /\ Len(mainQueue') <= MaxQueue
  BY <1>1, TakeTaskQueue
<1> QED  BY <1>1, <1>2, <1>3
         DEF ServerInv, TypeOK, CurrentIsOpen, OpenSockets, Failed, ServedWhileFrontend

LEMMA ServerSends ==
  ASSUME ServerInv, NEW c \in Connections, SendFor(c) PROVE ServerInv'
<1>1. Send(c) /\ UNCHANGED <<sockets, connectionId, mainQueue, frontend, served, delivered>>
  BY DEF SendFor
<1>2. ioQueue' \in Seq(Connections) /\ Len(ioQueue') <= MaxQueue
  BY <1>1, SendQueue DEF ServerInv
<1>3. TypeOK' /\ CurrentIsOpen' /\ ServedWhileFrontend'
  BY <1>1, <1>2 DEF ServerInv, TypeOK, CurrentIsOpen, OpenSockets, Failed, ServedWhileFrontend
<1> QED  BY <1>1, <1>3 DEF ServerInv, SessionFollowsConnection, LastControlDecides,
             IsLastControl, IsControl

LEMMA ClientTakes ==
  ASSUME TypeOK, ClientInv, TakeSilently PROVE ClientInv'
<1>1. /\ TakeTask("message") /\ UNCHANGED <<sockets, frontend, served>>
      /\ UNCHANGED <<ioQueue, delivered>>
      /\ OneOpen /\ IdsAreUpgraded /\ SendersWereOpen
      /\ TasksInTurn /\ NextInTurn /\ NoMixup
  BY DEF TakeSilently, ClientInv
<1>2. TasksInTurn' /\ NextInTurn' /\ SendersWereOpen'
  BY <1>1, TakeInTurn, TakeSenders
<1>3. \A i \in DOMAIN mainQueue' :
        mainQueue'[i].type # "disconnect" => Upgraded(mainQueue[i].id)'
  BY <1>1, TakeUpgraded
<1>4. IdsAreUpgraded' /\ NoMixup' /\ OneOpen'
  BY <1>1, <1>3 DEF IdsAreUpgraded, NoMixup, OneOpen, OpenSockets, Upgraded
<1> QED  BY <1>2, <1>4 DEF ClientInv

LEMMA ClientSends ==
  ASSUME TypeOK, ClientInv, NEW c \in Connections, Upgraded(c), SendFor(c)
  PROVE  ClientInv'
<1>1. /\ Send(c) /\ UNCHANGED <<sockets, mainQueue, frontend, served>>
      /\ UNCHANGED delivered
      /\ OneOpen /\ IdsAreUpgraded /\ SendersWereOpen
      /\ TasksInTurn /\ NextInTurn /\ NoMixup
  BY DEF SendFor, ClientInv
<1>2. OpenSockets("webSocket")' = OpenSockets("webSocket") /\ Failed' = Failed
  BY <1>1 DEF OpenSockets, Failed
<1>3. TasksInTurn' /\ NextInTurn'
  BY <1>1, <1>2, SameQueue
<1>4. \A i \in DOMAIN ioQueue' : Upgraded(ioQueue[i])'
  BY <1>1, SendUpgraded
<1>5. IdsAreUpgraded' /\ NoMixup' /\ OneOpen' /\ SendersWereOpen'
  BY <1>1, <1>2, <1>4
  DEF IdsAreUpgraded, NoMixup, OneOpen, Upgraded, SendersWereOpen
<1> QED  BY <1>3, <1>5 DEF ClientInv


-----------------------------------------------------------------------------
LEMMA ClientInit == Init => ClientInv
<1> SUFFICES ASSUME Init PROVE ClientInv
  OBVIOUS
<1>1. /\ DOMAIN sockets = {} /\ DOMAIN mainQueue = {} /\ DOMAIN ioQueue = {}
      /\ delivered = {} /\ served = NoConnection /\ ~frontend
  BY DEF Init
<1>2. \A i, D : ServesOnly(i, D)
  BY <1>1 DEF ServesOnly
<1>3. {} \in SUBSET Failed
  OBVIOUS
<1> QED  BY <1>1, <1>2, <1>3 DEF ClientInv, OneOpen, OpenSockets, IdsAreUpgraded,
             SendersWereOpen, TasksInTurn, NextInTurn, NoMixup

\* What the steps of the IO thread that change sockets have in common.
LEMMA IoKeeps ==
  ASSUME TypeOK, ClientInv, SocketsMove, UNCHANGED <<ioQueue, served, delivered>>,
         \A i \in DOMAIN mainQueue' :
           mainQueue'[i].type # "disconnect" => Upgraded(mainQueue[i].id)'
  PROVE  IdsAreUpgraded' /\ NoMixup'
<1>0. IdsAreUpgraded /\ NoMixup
  BY DEF ClientInv
<1>1. NoMixup' /\ \A d \in delivered' : Upgraded(d[1])'
  BY <1>0, NoMixupStays
<1>2. \A i \in DOMAIN ioQueue' : Upgraded(ioQueue[i])'
  BY <1>0 DEF IdsAreUpgraded, Upgraded, SocketsMove
<1>3. (served # NoConnection => Upgraded(served))'
  BY <1>0 DEF IdsAreUpgraded, Upgraded, SocketsMove
<1> QED  BY <1>1, <1>2, <1>3 DEF IdsAreUpgraded

\* The IO thread.  A connect is posted only while no WebSocket is open, so that
\* the tasks before it leave nobody served but connections that failed.
LEMMA ClientWritten ==
  ASSUME MaxClients = 1, ServerInv, ClientInv,
         NEW c \in DOMAIN sockets, OnWebSocketRequest(c), HandshakeWritten(c)
  PROVE  ClientInv'
<1>0. /\ TypeOK /\ MayUpgrade(c) /\ PostMain("connect", c)
      /\ UNCHANGED <<ioQueue, frontend, served, delivered>>
      /\ sockets' = [sockets EXCEPT ![c] = "webSocket"]
      /\ IdsAreUpgraded /\ SendersWereOpen /\ TasksInTurn /\ NextInTurn
  BY DEF ServerInv, OnWebSocketRequest, HandshakeWritten, ClientInv
<1>1. c \in Connections
  BY <1>0, BoundsAssumption DEF TypeOK, Connections
<1>2. PICK n \in Nat : /\ Grew(n, n + 1)
                       /\ mainQueue'[n + 1].type = "connect" /\ mainQueue'[n + 1].id = c
  BY <1>0, <1>1, PostGrows
<1>3. /\ DOMAIN mainQueue' = 1..(n + 1) /\ Len(mainQueue) = n /\ Len(mainQueue') = n + 1
      /\ n + 1 \in Nat /\ n + 1 > n
  BY <1>2 DEF Grew
<1>4. SocketsMove /\ Failed \subseteq Failed'
  BY <1>0, SocketsMoveOn, FailedStay
<1>5. OpenSockets("webSocket") = {}
  BY <1>0, UpgradeAlone
<1>6. OpenSockets("webSocket")' = {c} /\ Upgraded(c)'
  <2>1. /\ DOMAIN sockets' = DOMAIN sockets /\ sockets'[c] = "webSocket"
        /\ \A d \in DOMAIN sockets : d # c => sockets'[d] = sockets[d]
    BY <1>0 DEF TypeOK
  <2> QED  BY <1>5, <2>1 DEF OpenSockets, Upgraded
<1>7. TasksInTurn'
  <2>1. PICK D \in SUBSET Failed : ServesOnly(n + 1, D)
    BY <1>0, <1>3, <1>5 DEF NextInTurn
  <2>2. ServesOnly(n + 1, D)'
    BY <1>0, <1>2, <1>3, <2>1, PostKeepsServes
  <2>3. (\E E \in SUBSET Failed : ServesOnly(n + 1, E))'
    BY <1>4, <2>1, <2>2
  <2>4. \A i \in (n + 1)..(n + 1) : i = n + 1
    BY <1>3
  <2>5. \A i \in (n + 1)..(n + 1), d \in Connections :
          mainQueue'[i].id = d =>
            /\ mainQueue'[i].type = "connect" => (\E E \in SUBSET Failed : ServesOnly(i, E))'
            /\ mainQueue'[i].type = "message" => ServesOnly(i, {d})'
    BY <1>2, <2>3, <2>4
  <2> QED  BY <1>0, <1>2, <1>3, <1>4, <2>5, PostInTurn
<1>8. ASSUME NEW i \in Nat, i > Len(mainQueue') PROVE ServesOnly(i, {c})'
  <2>1. DOMAIN mainQueue' \subseteq Nat \ {0} /\ n + 1 \in DOMAIN mainQueue'
    BY <1>3
  <2>2. n + 1 < i /\ \A j \in DOMAIN mainQueue' : j < i => j <= n + 1
    BY <1>3, <1>8
  <2> QED  BY <1>2, <2>1, <2>2, ControlServes
<1>9. NextInTurn'
  BY <1>6, <1>8 DEF NextInTurn
<1>10. \A i \in (n + 1)..(n + 1) : /\ mainQueue'[i].type # "message"
                                  /\ Upgraded(mainQueue[i].id)'
  <2>1. \A i \in (n + 1)..(n + 1) : i = n + 1
    BY <1>3
  <2>2. mainQueue'[n + 1].type # "message" /\ Upgraded(mainQueue[n + 1].id)'
    BY <1>2, <1>6 DEF Upgraded
  <2> QED  BY <2>1, <2>2
<1>11. SendersWereOpen'
  BY <1>0, <1>2, <1>3, <1>4, <1>10, SendersStay
<1>12. \A i \in DOMAIN mainQueue' :
         mainQueue'[i].type # "disconnect" => Upgraded(mainQueue[i].id)'
  BY <1>0, <1>2, <1>3, <1>4, <1>10, PostUpgraded
<1>13. IdsAreUpgraded' /\ NoMixup'
  BY <1>0, <1>4, <1>12, IoKeeps
<1>14. OneOpen'
  BY <1>6 DEF OneOpen
<1> QED  BY <1>7, <1>9, <1>11, <1>13, <1>14 DEF ClientInv

\* A failed handshake leaves its own connection served, and no WebSocket open.
LEMMA ClientFails ==
  ASSUME MaxClients = 1, ServerInv, ClientInv,
         NEW c \in DOMAIN sockets, OnWebSocketRequest(c), HandshakeFails(c)
  PROVE  ClientInv'
<1>0. /\ TypeOK /\ MayUpgrade(c)
      /\ UNCHANGED <<ioQueue, frontend, served, delivered>>
      /\ sockets' = [sockets EXCEPT ![c] = "failed"]
      /\ IdsAreUpgraded /\ SendersWereOpen /\ TasksInTurn
  BY DEF ServerInv, OnWebSocketRequest, HandshakeFails, ClientInv
<1>1. c \in Connections
  BY <1>0, BoundsAssumption DEF TypeOK, Connections
<1>2. PICK n \in Nat : /\ Grew(n, n + 2)
                       /\ mainQueue'[n + 1].type = "disconnect"
                       /\ mainQueue'[n + 2].type = "connect" /\ mainQueue'[n + 2].id = c
  BY <1>0, <1>1, FailGrows
<1>3. /\ DOMAIN mainQueue' = 1..(n + 2) /\ Len(mainQueue') = n + 2
      /\ n + 1 \in Nat /\ n + 2 \in Nat
      /\ DOMAIN mainQueue' \subseteq Nat \ {0}
      /\ n + 1 \in DOMAIN mainQueue' /\ n + 2 \in DOMAIN mainQueue'
      /\ \A i \in (n + 1)..(n + 2) : i = n + 1 \/ i = n + 2
  BY <1>2 DEF Grew
<1>4. SocketsMove /\ Failed \subseteq Failed'
  BY <1>0, SocketsMoveOn, FailedStay
<1>5. OpenSockets("webSocket") = {}
  BY <1>0, UpgradeAlone
<1>6. OpenSockets("webSocket")' = {} /\ Upgraded(c)' /\ {c} \in SUBSET Failed'
  <2>1. /\ DOMAIN sockets' = DOMAIN sockets /\ sockets'[c] = "failed"
        /\ \A d \in DOMAIN sockets : d # c => sockets'[d] = sockets[d]
    BY <1>0 DEF TypeOK
  <2> QED  BY <1>5, <2>1 DEF OpenSockets, Upgraded, Failed
<1>7. TasksInTurn'
  <2>1. n + 1 < n + 2 /\ \A j \in DOMAIN mainQueue' : j < n + 2 => j <= n + 1
    BY <1>3
  <2>2. ServesOnly(n + 2, {c})'
    BY <1>2, <1>3, <2>1, ControlServes
  <2>3. (\E E \in SUBSET Failed : ServesOnly(n + 2, E))'
    BY <1>6, <2>2
  <2>5. \A i \in (n + 1)..(n + 2), d \in Connections :
          mainQueue'[i].id = d =>
            /\ mainQueue'[i].type = "connect" => (\E E \in SUBSET Failed : ServesOnly(i, E))'
            /\ mainQueue'[i].type = "message" => ServesOnly(i, {d})'
    BY <1>2, <1>3, <2>3
  <2> QED  BY <1>0, <1>2, <1>3, <1>4, <2>5, PostInTurn
<1>8. ASSUME NEW i \in Nat, i > Len(mainQueue')
      PROVE  (\E E \in SUBSET Failed : ServesOnly(i, E))'
  <2>1. n + 2 < i /\ \A j \in DOMAIN mainQueue' : j < i => j <= n + 2
    BY <1>3, <1>8
  <2>2. ServesOnly(i, {c})'
    BY <1>2, <1>3, <2>1, ControlServes
  <2> QED  BY <1>6, <2>2
<1>9. NextInTurn'
  BY <1>6, <1>8 DEF NextInTurn
<1>10. \A i \in (n + 1)..(n + 2) :
         /\ mainQueue'[i].type # "message"
         /\ mainQueue'[i].type # "disconnect" => Upgraded(mainQueue[i].id)'
  <2>1. mainQueue'[n + 2].type # "message" /\ Upgraded(mainQueue[n + 2].id)'
    BY <1>2, <1>6 DEF Upgraded
  <2>2. mainQueue'[n + 1].type # "message" /\ mainQueue'[n + 1].type = "disconnect"
    BY <1>2
  <2> QED  BY <1>3, <2>1, <2>2
<1>11. SendersWereOpen'
  BY <1>0, <1>2, <1>3, <1>4, <1>10, SendersStay
<1>12. \A i \in DOMAIN mainQueue' :
         mainQueue'[i].type # "disconnect" => Upgraded(mainQueue[i].id)'
  BY <1>0, <1>2, <1>3, <1>4, <1>10, PostUpgraded
<1>13. IdsAreUpgraded' /\ NoMixup'
  BY <1>0, <1>4, <1>12, IoKeeps
<1>14. OneOpen'
  BY <1>6 DEF OneOpen
<1> QED  BY <1>7, <1>9, <1>11, <1>13, <1>14 DEF ClientInv

\* A message is posted by the open WebSocket, and nobody else is served by then.
LEMMA ClientMessage ==
  ASSUME ServerInv, ClientInv, NEW c \in DOMAIN sockets, OnWebSocketMessage(c)
  PROVE  ClientInv'
<1>0. /\ TypeOK /\ c \in OpenSockets("webSocket") /\ PostMain("message", c)
      /\ UNCHANGED <<sockets, ioQueue, frontend, served, delivered>>
      /\ OneOpen /\ IdsAreUpgraded /\ SendersWereOpen /\ TasksInTurn /\ NextInTurn
  BY DEF ServerInv, OnWebSocketMessage, ClientInv
<1>1. c \in Connections
  BY <1>0, BoundsAssumption DEF TypeOK, Connections
<1>2. PICK n \in Nat : /\ Grew(n, n + 1)
                       /\ mainQueue'[n + 1].type = "message" /\ mainQueue'[n + 1].id = c
  BY <1>0, <1>1, PostGrows
<1>3. /\ Len(mainQueue) = n /\ Len(mainQueue') = n + 1
      /\ n + 1 \in Nat /\ n + 1 > n
      /\ \A i \in (n + 1)..(n + 1) : i = n + 1
  BY <1>2 DEF Grew
<1>4. SocketsMove /\ Failed' = Failed /\ OpenSockets("webSocket")' = OpenSockets("webSocket")
  BY <1>0, SocketsMoveOn DEF Failed, OpenSockets
<1>5. TasksInTurn'
  <2>1. ServesOnly(n + 1, {c})
    BY <1>0, <1>3 DEF NextInTurn
  <2>2. ServesOnly(n + 1, {c})'
    BY <1>0, <1>2, <1>3, <2>1, PostKeepsServes
  <2>3. \A i \in (n + 1)..(n + 1), d \in Connections :
          mainQueue'[i].id = d =>
            /\ mainQueue'[i].type = "connect" => (\E E \in SUBSET Failed : ServesOnly(i, E))'
            /\ mainQueue'[i].type = "message" => ServesOnly(i, {d})'
    BY <1>2, <1>3, <2>2
  <2> QED  BY <1>0, <1>2, <1>3, <1>4, <2>3, PostInTurn
<1>6. ASSUME NEW i \in Nat, i > Len(mainQueue')
      PROVE  \A d \in OpenSockets("webSocket") : ServesOnly(i, {d})'
  <2>1. i > Len(mainQueue)
    BY <1>3, <1>6
  <2>2. \A d \in OpenSockets("webSocket") : ServesOnly(i, {d})
    BY <1>0, <2>1 DEF NextInTurn
  <2>3. \A j \in (n + 1)..(n + 1) : mainQueue'[j].type = "message"
    BY <1>2, <1>3
  <2>4. ASSUME NEW d \in OpenSockets("webSocket") PROVE ServesOnly(i, {d})'
    <3>1. ServesOnly(i, {d})
      BY <2>2
    <3> QED  BY <1>0, <1>2, <1>3, <2>3, <3>1, PostKeepsServes
  <2> QED  BY <2>4
<1>7. NextInTurn'
  BY <1>0, <1>4, <1>6 DEF NextInTurn
<1>8. c \notin Failed /\ Upgraded(c)'
  BY <1>0 DEF OpenSockets, Failed, Upgraded
<1>9. \A i \in (n + 1)..(n + 1) : /\ mainQueue'[i].id \notin Failed'
                                 /\ Upgraded(mainQueue[i].id)'
  <2>1. mainQueue'[n + 1].id \notin Failed' /\ Upgraded(mainQueue[n + 1].id)'
    BY <1>2, <1>4, <1>8 DEF Upgraded
  <2> QED  BY <1>3, <2>1
<1>10. SendersWereOpen'
  BY <1>0, <1>2, <1>3, <1>4, <1>9, SendersStay
<1>11. \A i \in DOMAIN mainQueue' :
         mainQueue'[i].type # "disconnect" => Upgraded(mainQueue[i].id)'
  BY <1>0, <1>2, <1>3, <1>4, <1>9, PostUpgraded
<1>12. IdsAreUpgraded' /\ NoMixup'
  BY <1>0, <1>4, <1>11, IoKeeps
<1>13. OneOpen'
  BY <1>0, <1>4 DEF OneOpen
<1> QED  BY <1>5, <1>7, <1>10, <1>12, <1>13 DEF ClientInv

\* Any close posts a disconnect, after which nobody is served.
LEMMA ClientClose ==
  ASSUME ServerInv, ClientInv, NEW c \in DOMAIN sockets, OnClose(c)
  PROVE  ClientInv'
<1>0. /\ TypeOK /\ PostMain("disconnect", c)
      /\ sockets' = [sockets EXCEPT ![c] = "closed"]
      /\ UNCHANGED <<ioQueue, frontend, served, delivered>>
      /\ OneOpen /\ IdsAreUpgraded /\ SendersWereOpen /\ TasksInTurn
  BY DEF ServerInv, OnClose, ClientInv
<1>1. c \in Connections
  BY <1>0, BoundsAssumption DEF TypeOK, Connections
<1>2. PICK n \in Nat : /\ Grew(n, n + 1)
                       /\ mainQueue'[n + 1].type = "disconnect"
  BY <1>0, <1>1, PostGrows
<1>3. /\ Len(mainQueue') = n + 1 /\ n + 1 \in Nat
      /\ DOMAIN mainQueue' = 1..(n + 1)
      /\ DOMAIN mainQueue' \subseteq Nat \ {0} /\ n + 1 \in DOMAIN mainQueue'
      /\ \A i \in (n + 1)..(n + 1) : i = n + 1
  BY <1>2 DEF Grew
<1>4. SocketsMove /\ Failed \subseteq Failed'
  BY <1>0, SocketsMoveOn, FailedStay
<1>5. OpenSockets("webSocket")' \subseteq OpenSockets("webSocket")
  BY <1>0 DEF TypeOK, OpenSockets
<1>6. TasksInTurn'
  BY <1>0, <1>2, <1>3, <1>4, PostInTurn
<1>7. ASSUME NEW i \in Nat, i > Len(mainQueue'), NEW D PROVE ServesOnly(i, D)'
  <2>1. n + 1 < i /\ \A j \in DOMAIN mainQueue' : j < i => j <= n + 1
    BY <1>3, <1>7
  <2> QED  BY <1>2, <1>3, <2>1, ControlServes
<1>8. NextInTurn'
  <2>1. {} \in SUBSET Failed'
    OBVIOUS
  <2> QED  BY <1>7, <2>1 DEF NextInTurn
<1>9. SendersWereOpen'
  BY <1>0, <1>2, <1>3, <1>4, SendersStay
<1>10. \A i \in DOMAIN mainQueue' :
         mainQueue'[i].type # "disconnect" => Upgraded(mainQueue[i].id)'
  BY <1>0, <1>2, <1>3, <1>4, PostUpgraded
<1>11. IdsAreUpgraded' /\ NoMixup'
  BY <1>0, <1>4, <1>10, IoKeeps
<1>12. OneOpen'
  BY <1>0, <1>5 DEF OneOpen
<1> QED  BY <1>6, <1>8, <1>9, <1>11, <1>12 DEF ClientInv


\* What is sent goes to the current connection, the one open WebSocket: the
\* cause is that one or is closed.
LEMMA ClientSendsOut ==
  ASSUME ServerInv, ClientInv, SendMessageToClient
  PROVE  ClientInv'
<1>0. /\ TypeOK /\ ioQueue # << >> /\ ioQueue' = Tail(ioQueue)
      /\ UNCHANGED <<sockets, connectionId, mainQueue, frontend, served>>
      /\ delivered' = IF connectionId \in OpenSockets("webSocket")
                        THEN delivered \cup {<<Head(ioQueue), connectionId>>}
                        ELSE delivered
      /\ OneOpen /\ IdsAreUpgraded /\ SendersWereOpen
      /\ TasksInTurn /\ NextInTurn /\ NoMixup
  BY DEF ServerInv, SendMessageToClient, ClientInv
<1>1. /\ Head(ioQueue) = ioQueue[1] /\ 1 \in DOMAIN ioQueue
      /\ \A i \in DOMAIN ioQueue' : ioQueue'[i] = ioQueue[i + 1] /\ (i + 1) \in DOMAIN ioQueue
  BY <1>0 DEF TypeOK
<1>2. Upgraded(Head(ioQueue))
  BY <1>0, <1>1 DEF IdsAreUpgraded
<1>3. ASSUME connectionId \in OpenSockets("webSocket"), Head(ioQueue) # connectionId
      PROVE  sockets[Head(ioQueue)] \in {"closed", "failed"}
  <2>1. sockets[Head(ioQueue)] # "webSocket"
    BY <1>0, <1>2, <1>3 DEF OneOpen, OpenSockets, Upgraded
  <2>2. sockets[Head(ioQueue)] \in {"http", "webSocket", "closed", "failed"}
    BY <1>0, <1>2 DEF TypeOK, Upgraded
  <2> QED  BY <1>2, <2>1, <2>2 DEF Upgraded
<1>4. NoMixup' /\ \A d \in delivered' : Upgraded(d[1])'
  <2> SUFFICES ASSUME NEW d \in delivered'
               PROVE  /\ Upgraded(d[1])'
                      /\ d[1] # d[2] => sockets'[d[1]] \in {"closed", "failed"}
    BY DEF NoMixup
  <2>1. CASE d \in delivered
    BY <1>0, <2>1 DEF NoMixup, IdsAreUpgraded, Upgraded
  <2>2. CASE d \notin delivered
    <3>1. connectionId \in OpenSockets("webSocket") /\ d = <<Head(ioQueue), connectionId>>
      BY <1>0, <2>2
    <3>2. d[1] = Head(ioQueue) /\ d[2] = connectionId
      BY <3>1
    <3> QED  BY <1>0, <1>2, <1>3, <3>1, <3>2 DEF Upgraded
  <2> QED  BY <2>1, <2>2
<1>5. OpenSockets("webSocket")' = OpenSockets("webSocket") /\ Failed' = Failed
  BY <1>0 DEF OpenSockets, Failed
<1>6. TasksInTurn' /\ NextInTurn'
  BY <1>0, <1>5, SameQueue
<1>7. \A i \in DOMAIN ioQueue' : Upgraded(ioQueue[i])'
  BY <1>0, <1>1 DEF IdsAreUpgraded, Upgraded
<1>8. IdsAreUpgraded' /\ OneOpen' /\ SendersWereOpen'
  BY <1>0, <1>4, <1>5, <1>7 DEF IdsAreUpgraded, OneOpen, Upgraded, SendersWereOpen
<1> QED  BY <1>4, <1>6, <1>8 DEF ClientInv

\* The main thread's handlers.
LEMMA ClientHandles ==
  ASSUME TypeOK, ClientInv, NEW type \in {"connect", "disconnect"}, TakeTask(type),
         type = "connect" => frontend' = TRUE /\ served' = Head(mainQueue).id,
         type = "disconnect" => frontend' = FALSE /\ served' = NoConnection,
         UNCHANGED <<sockets, connectionId, ioQueue, delivered>>
  PROVE  ClientInv'
<1>0. /\ OneOpen /\ IdsAreUpgraded /\ SendersWereOpen
      /\ TasksInTurn /\ NextInTurn /\ NoMixup
  BY DEF ClientInv
<1>1. TasksInTurn' /\ NextInTurn' /\ SendersWereOpen'
  BY <1>0, TakeInTurn, TakeSenders
<1>2. /\ \A i \in DOMAIN mainQueue' :
           mainQueue'[i].type # "disconnect" => Upgraded(mainQueue[i].id)'
      /\ type = "connect" => Upgraded(Head(mainQueue).id)
  BY <1>0, TakeUpgraded
<1>3. (served # NoConnection => Upgraded(served))'
  BY <1>2 DEF Upgraded
<1>4. IdsAreUpgraded' /\ NoMixup' /\ OneOpen'
  BY <1>0, <1>2, <1>3 DEF IdsAreUpgraded, NoMixup, OneOpen, OpenSockets, Upgraded
<1> QED  BY <1>1, <1>4 DEF ClientInv

LEMMA ClientAnswers ==
  ASSUME TypeOK, ClientInv, HandleMessageFromClient PROVE ClientInv'
<1>0. /\ OneOpen /\ IdsAreUpgraded /\ SendersWereOpen
      /\ TasksInTurn /\ NextInTurn /\ NoMixup /\ TakeTask("message")
      /\ UNCHANGED <<sockets, connectionId, frontend, served, delivered>>
  BY DEF ClientInv, HandleMessageFromClient
<1>1. TasksInTurn' /\ NextInTurn' /\ SendersWereOpen'
  BY <1>0, TakeInTurn, TakeSenders
<1>2. /\ \A i \in DOMAIN mainQueue' :
           mainQueue'[i].type # "disconnect" => Upgraded(mainQueue[i].id)'
      /\ Upgraded(Head(mainQueue).id)
  BY <1>0, TakeUpgraded
<1>3. Head(mainQueue).id \in Connections
  BY <1>0, TakeTaskQueue DEF Tasks
<1>4. \A i \in DOMAIN ioQueue' : Upgraded(ioQueue[i])'
  <2>1. CASE frontend
    BY <1>0, <1>2, <1>3, <2>1, SendUpgraded DEF HandleMessageFromClient
  <2>2. CASE ~frontend
    BY <1>0, <2>2 DEF HandleMessageFromClient, IdsAreUpgraded, Upgraded
  <2> QED  BY <2>1, <2>2
<1>5. IdsAreUpgraded' /\ NoMixup' /\ OneOpen'
  BY <1>0, <1>2, <1>4 DEF IdsAreUpgraded, NoMixup, OneOpen, OpenSockets, Upgraded
<1> QED  BY <1>1, <1>5 DEF ClientInv

LEMMA ClientAccept ==
  ASSUME TypeOK, ClientInv, Accept PROVE ClientInv'
<1>0. /\ OneOpen /\ IdsAreUpgraded /\ SendersWereOpen /\ TasksInTurn /\ NextInTurn
      /\ UNCHANGED <<mainQueue, ioQueue, frontend, served, delivered>>
  BY DEF ClientInv, Accept
<1>1. OpenSockets("webSocket")' = OpenSockets("webSocket") /\ Failed' = Failed
  <2>1. /\ DOMAIN sockets' = DOMAIN sockets \cup {Len(sockets) + 1}
        /\ sockets'[Len(sockets) + 1] = "http"
        /\ \A c \in DOMAIN sockets : sockets'[c] = sockets[c]
        /\ Len(sockets) + 1 \notin DOMAIN sockets
    BY DEF Accept, TypeOK
  <2> QED  BY <2>1 DEF OpenSockets, Failed
<1>2. TasksInTurn' /\ NextInTurn'
  BY <1>0, <1>1, SameQueue
<1>3. SocketsMove
  BY SocketsMoveOn
<1>4. \A i \in DOMAIN mainQueue' :
        mainQueue'[i].type # "disconnect" => Upgraded(mainQueue[i].id)'
  BY <1>0, <1>3 DEF IdsAreUpgraded, Upgraded, SocketsMove
<1>5. IdsAreUpgraded' /\ NoMixup'
  BY <1>0, <1>3, <1>4, IoKeeps
<1>6. SendersWereOpen' /\ OneOpen'
  BY <1>0, <1>1 DEF SendersWereOpen, OneOpen
<1> QED  BY <1>2, <1>5, <1>6 DEF ClientInv


\* The IO thread's steps, and all of them.
LEMMA ClientIo ==
  ASSUME MaxClients = 1, ServerInv, ClientInv, IoThread PROVE ClientInv'
<1>1. ASSUME NEW c \in DOMAIN sockets, OnWebSocketRequest(c) PROVE ClientInv'
  <2>1. HandshakeWritten(c) \/ HandshakeFails(c)
    BY <1>1 DEF OnWebSocketRequest
  <2> QED  BY <1>1, <2>1, ClientWritten, ClientFails
<1> QED  BY <1>1, ClientAccept, ClientMessage, ClientClose, ClientSendsOut
         DEF IoThread, ServerInv

LEMMA ClientNext ==
  ASSUME MaxClients = 1, ServerInv, ClientInv, [Next]_vars PROVE ClientInv'
<1>0. TypeOK
  BY DEF ServerInv
<1>1. CASE IoThread
  BY <1>1, ClientIo
<1>2. CASE HandleConnect
  BY <1>0, <1>2, ClientHandles DEF HandleConnect
<1>3. CASE HandleDisconnect
  BY <1>0, <1>3, ClientHandles DEF HandleDisconnect
<1>4. CASE HandleMessageFromClient
  BY <1>0, <1>4, ClientAnswers
<1>5. CASE SendNotification
  <2>1. served \in Connections /\ served # NoConnection
    BY <1>0, <1>5 DEF ServerInv, ServedWhileFrontend, TypeOK, SendNotification
  <2>2. Upgraded(served)
    BY <2>1 DEF ClientInv, IdsAreUpgraded
  <2> QED  BY <1>0, <1>5, <2>1, <2>2, ClientSends DEF SendNotification, SendFor
<1>6. CASE UNCHANGED vars
  <2>1. UNCHANGED <<sockets, connectionId, mainQueue, ioQueue, frontend, served, delivered>>
    BY <1>6 DEF vars, serverVars
  <2>2. TasksInTurn' /\ NextInTurn'
    BY <2>1, SameQueue DEF ClientInv, OpenSockets, Failed
  <2> QED  BY <2>1, <2>2 DEF ClientInv, OneOpen, OpenSockets, IdsAreUpgraded, Upgraded,
               NoMixup, SendersWereOpen, Failed
<1> QED  BY <1>1, <1>2, <1>3, <1>4, <1>5, <1>6 DEF Next, MainThread

\* What the invariant says of the task that runs next.
LEMMA HeadInTurn ==
  ASSUME ServerInv, ClientInv, mainQueue # << >>, frontend
  PROVE  /\ Head(mainQueue).type = "connect" => served \in Failed
         /\ Head(mainQueue).type = "message" =>
              served = Head(mainQueue).id /\ served \notin Failed
<1>1. /\ 1 \in DOMAIN mainQueue /\ Head(mainQueue) = mainQueue[1]
      /\ mainQueue[1].id \in Connections /\ DOMAIN mainQueue \subseteq Nat
  <2>1. /\ 1 \in DOMAIN mainQueue /\ Head(mainQueue) = mainQueue[1]
        /\ mainQueue[1] \in Tasks /\ DOMAIN mainQueue \subseteq Nat
    BY DEF ServerInv, TypeOK
  <2> QED  BY <2>1 DEF Tasks
<1>2. ~Ends(0, 1)
  BY <1>1 DEF Ends
<1>3. ASSUME NEW D, ServesOnly(1, D) PROVE served \in D
  BY <1>2, <1>3 DEF ServesOnly
<1>4. /\ mainQueue[1].type = "connect" => \E D \in SUBSET Failed : ServesOnly(1, D)
      /\ mainQueue[1].type = "message" => ServesOnly(1, {mainQueue[1].id})
  BY <1>1 DEF ClientInv, TasksInTurn
<1>5. mainQueue[1].type = "message" => mainQueue[1].id \notin Failed
  BY <1>1 DEF ClientInv, SendersWereOpen
<1> QED  BY <1>1, <1>3, <1>4, <1>5

\* With one client at a time the invariant holds at every step.
THEOREM ClientInvariance == MaxClients = 1 => (Spec => [](ServerInv /\ ClientInv))
<1> SUFFICES ASSUME MaxClients = 1 PROVE Spec => [](ServerInv /\ ClientInv)
  OBVIOUS
<1>1. Init => ServerInv /\ ClientInv
  BY ServerInit, ClientInit
<1>2. ServerInv /\ ClientInv /\ [Next]_vars => (ServerInv /\ ClientInv)'
  BY ServerNext, ClientNext
<1> QED  BY <1>1, <1>2, PTL DEF Spec

\* sendMessageToClient does not say whom a message is for, and yet, with one
\* client at a time, nothing meant for a client that is still connected
\* reaches another: whoever gets it has taken the place of one that is gone.
THEOREM NoMixupAlways == MaxClients = 1 => (Spec => []NoMixup)
<1> SUFFICES ASSUME MaxClients = 1 PROVE Spec => []NoMixup
  OBVIOUS
<1>1. ServerInv /\ ClientInv => NoMixup
  BY DEF ClientInv
<1>2. Spec => [](ServerInv /\ ClientInv)
  BY ClientInvariance
<1> QED  BY <1>1, <1>2, PTL

\* V8Inspector::connectFrontend's ASSERT(!m_frontend): however the closes of
\* other connections are mixed in, the client before was disconnected, or was
\* never there, because its handshake failed.
THEOREM ConnectsWhenFreeAlways == MaxClients = 1 => (Spec => []ConnectsWhenFree)
<1> SUFFICES ASSUME MaxClients = 1 PROVE Spec => []ConnectsWhenFree
  OBVIOUS
<1>1. ServerInv /\ ClientInv => ConnectsWhenFree
  BY HeadInTurn DEF ConnectsWhenFree
<1>2. Spec => [](ServerInv /\ ClientInv)
  BY ClientInvariance
<1> QED  BY <1>1, <1>2, PTL

=============================================================================
