------------------------ MODULE InspectorSystem_proofs ------------------------
(***************************************************************************)
(* Proofs about the whole backend, for any number of connections and of    *)
(* waiting tasks: the transport's invariants hold of it too, although the  *)
(* answer to an evaluate waits for its script, and the session's hold      *)
(* although everything a client sends waits behind the running script.     *)
(***************************************************************************)
EXTENDS InspectorSystem, RemoteServer_proofs

\* The session exists exactly while V8Inspector has a front-end.
SessionIsFrontend == (session # "detached") <=> frontend

\* A stopped program has its script on the stack, and only in a stop is there a
\* second one on top of it.
StackIsHeld ==
  /\ calls \in Seq(Connections \cup {NoConnection}) /\ mainPending \in BOOLEAN
  /\ Len(calls) <= 2
  /\ blocked => calls # << >>
  /\ Len(calls) = 2 => blocked

\* The inductive invariant, for any number of clients.
SysInv ==
  /\ ServerInv /\ S!TypeOK /\ S!BlockedOnlyByPause
  /\ SessionIsFrontend /\ StackIsHeld

-----------------------------------------------------------------------------
\* JavaScript that is started goes on top of the stack.
LEMMA PushCalls ==
  ASSUME NEW T, calls \in Seq(T), NEW x \in T, calls' = <<x>> \o calls
  PROVE  /\ calls' \in Seq(T) /\ Len(calls') = Len(calls) + 1 /\ Len(calls) \in Nat
         /\ calls'[1] = x
         /\ \A i \in DOMAIN calls' : i # 1 => /\ i - 1 \in DOMAIN calls
                                              /\ calls'[i] = calls[i - 1]
<1> DEFINE one == <<x>>
<1>1. one \in Seq(T) /\ Len(one) = 1 /\ one[1] = x
  OBVIOUS
<1>2. calls' = one \o calls
  OBVIOUS
<1> HIDE DEF one
<1>3. /\ calls' \in Seq(T) /\ Len(calls') = 1 + Len(calls) /\ Len(calls) \in Nat
      /\ \A i \in 1..(1 + Len(calls)) : calls'[i] = IF i <= 1 THEN one[i] ELSE calls[i - 1]
  BY <1>1, <1>2, ConcatProperties, LenProperties
<1>4. DOMAIN calls' = 1..(1 + Len(calls)) /\ DOMAIN calls = 1..Len(calls)
  BY <1>3
<1> QED  BY <1>1, <1>3, <1>4

\* JavaScript that returns is taken off it.
LEMMA PopCalls ==
  ASSUME NEW T, calls \in Seq(T), calls # << >>, calls' = Tail(calls)
  PROVE  /\ calls' \in Seq(T) /\ Len(calls') = Len(calls) - 1 /\ Len(calls) \in Nat
         /\ Head(calls) = calls[1] /\ 1 \in DOMAIN calls /\ calls[1] \in T
         /\ \A i \in DOMAIN calls' : i + 1 \in DOMAIN calls /\ calls'[i] = calls[i + 1]
  OBVIOUS

\* What a step of the backend is to the transport: a step of its own, a message
\* taken without an answer, or a message sent for the served connection or for
\* the one whose evaluate returns.
LEMMA ServerSteps ==
  ASSUME SysInv, [SysNext]_sysVars
  PROVE  \/ [Next]_vars
         \/ TakeSilently
         \/ \E c \in Connections : /\ SendFor(c)
                                   /\ c = served \/ (\E i \in DOMAIN calls : c = calls[i] /\ frontend)
<1>1. CASE IoThread \/ Connect \/ Disconnect \/ RunCommand
  BY <1>1 DEF Next, MainThread, Connect, Disconnect, RunCommand
<1>2. CASE RunMainTask \/ UNCHANGED sysVars
  BY <1>2 DEF RunMainTask, sysVars
<1>3. CASE StartEvaluate
  BY <1>3 DEF StartEvaluate, TakeSilently
<1>4. CASE FinishJavaScript
  <2>1. /\ calls \in Seq(Connections \cup {NoConnection}) /\ calls # << >>
        /\ calls' = Tail(calls)
    BY <1>4 DEF SysInv, StackIsHeld, FinishJavaScript
  <2>2. /\ 1 \in DOMAIN calls /\ Head(calls) = calls[1]
        /\ calls[1] \in Connections \cup {NoConnection}
    BY <2>1, PopCalls
  <2>3. CASE Head(calls) # NoConnection /\ frontend
    <3>1. calls[1] \in Connections /\ SendFor(calls[1])
      BY <1>4, <2>2, <2>3 DEF FinishJavaScript, SendFor
    <3> QED  BY <2>2, <2>3, <3>1
  <2>4. CASE ~(Head(calls) # NoConnection /\ frontend)
    BY <1>4, <2>4 DEF FinishJavaScript, vars, serverVars
  <2> QED  BY <2>3, <2>4
<1>5. ASSUME session # "detached" PROVE served \in Connections
  <2>1. frontend
    BY <1>5 DEF SysInv, SessionIsFrontend
  <2> QED  BY <2>1 DEF SysInv, ServerInv, ServedWhileFrontend, TypeOK
<1>6. CASE Stop
  <2>1. session # "detached" /\ SendFor(served)
    BY <1>6 DEF Stop, S!Stop, SendFor
  <2> QED  BY <1>5, <2>1
<1>7. CASE GoOn
  <2>1. CASE session = "paused"
    <3>1. session # "detached" /\ SendFor(served)
      BY <1>7, <2>1 DEF GoOn, SendFor
    <3> QED  BY <1>5, <3>1
  <2>2. CASE session # "paused"
    BY <1>7, <2>2 DEF GoOn, vars, serverVars
  <2> QED  BY <2>1, <2>2
<1> QED  BY <1>1, <1>2, <1>3, <1>4, <1>6, <1>7 DEF SysNext, MainTask

\* The session keeps its type and its promise.
LEMMA SessionSteps ==
  ASSUME SysInv, [SysNext]_sysVars
  PROVE  S!TypeOK' /\ S!BlockedOnlyByPause'
<1>0. S!TypeOK /\ S!BlockedOnlyByPause
  BY DEF SysInv
<1>1. CASE UNCHANGED sessionVars
  BY <1>0, <1>1 DEF sessionVars, S!TypeOK, S!BlockedOnlyByPause
<1>2. CASE S!Attach \/ S!TurnOn \/ S!Leave("idle") \/ S!Leave("detached")
           \/ S!Stop \/ S!Release \/ S!GoOn
  <2>1. CASE S!Attach \/ S!TurnOn
    BY <1>0, <2>1 DEF S!TypeOK, S!BlockedOnlyByPause, S!Attach, S!TurnOn
  <2>2. ASSUME NEW to \in {"idle", "detached"}, S!Leave(to)
        PROVE  S!TypeOK' /\ S!BlockedOnlyByPause'
    BY <1>0, <2>2 DEF S!TypeOK, S!BlockedOnlyByPause, S!Leave
  <2>3. CASE S!Stop
    BY <1>0, <2>3 DEF S!TypeOK, S!BlockedOnlyByPause, S!Stop
  <2>4. CASE S!Release
    BY <1>0, <2>4 DEF S!TypeOK, S!BlockedOnlyByPause, S!Release
  <2>5. CASE S!GoOn
    BY <1>0, <2>5 DEF S!TypeOK, S!BlockedOnlyByPause, S!GoOn
  <2> QED  BY <1>2, <2>1, <2>2, <2>3, <2>4, <2>5
<1> QED  BY <1>1, <1>2 DEF SysNext, sysVars, MainTask, RunMainTask, Connect, Disconnect,
             RunCommand, StartEvaluate, FinishJavaScript, Stop, GoOn

\* The front-end comes and goes with the session.
LEMMA FrontendSteps ==
  ASSUME SysInv, [SysNext]_sysVars
  PROVE  SessionIsFrontend'
<1>0. ((session # "detached") <=> frontend) /\ frontend \in BOOLEAN
  BY DEF SysInv, SessionIsFrontend, ServerInv, TypeOK
<1>1. CASE Connect
  <2>1. frontend' = TRUE
    BY <1>1 DEF Connect, HandleConnect
  <2>2. session' # "detached"
    BY <1>1 DEF Connect, S!Attach, sessionVars
  <2> QED  BY <2>1, <2>2 DEF SessionIsFrontend
<1>2. CASE Disconnect
  <2>1. frontend' = FALSE
    BY <1>2 DEF Disconnect, HandleDisconnect
  <2>2. session' = "detached"
    BY <1>2 DEF Disconnect, S!Leave, sessionVars
  <2> QED  BY <2>1, <2>2 DEF SessionIsFrontend
<1>3. CASE RunCommand
  <2>1. frontend' = frontend
    BY <1>3 DEF RunCommand, HandleMessageFromClient
  <2>2. session' # "detached" <=> session # "detached"
    <3>1. CASE frontend
      BY <1>0, <1>3, <3>1 DEF RunCommand, S!TurnOn, S!Leave, S!Release, sessionVars
    <3>2. CASE ~frontend
      BY <1>3, <3>2 DEF RunCommand, sessionVars
    <3> QED  BY <3>1, <3>2
  <2> QED  BY <1>0, <2>1, <2>2 DEF SessionIsFrontend
<1>4. CASE \/ IoThread /\ UNCHANGED <<sessionVars, threadVars>>
           \/ RunMainTask \/ StartEvaluate \/ FinishJavaScript \/ UNCHANGED sysVars
  <2>1. UNCHANGED <<frontend, session>>
    BY <1>4 DEF IoThread, Accept, OnWebSocketRequest, OnWebSocketMessage, OnClose,
       SendMessageToClient, RunMainTask, StartEvaluate, FinishJavaScript,
       sysVars, vars, sessionVars
  <2> QED  BY <1>0, <2>1 DEF SessionIsFrontend
<1>5. CASE Stop \/ GoOn
  <2>1. frontend' = frontend /\ (session' # "detached" <=> session # "detached")
    BY <1>5 DEF Stop, GoOn, S!Stop, S!GoOn
  <2> QED  BY <1>0, <2>1 DEF SessionIsFrontend
<1> QED  BY <1>1, <1>2, <1>3, <1>4, <1>5 DEF SysNext, MainTask

\* A task takes the stack only when it is free or stopped, and the innermost
\* script gives it back only when it is not the stopped one.
LEMMA StackSteps ==
  ASSUME SysInv, [SysNext]_sysVars
  PROVE  StackIsHeld'
<1> DEFINE T == Connections \cup {NoConnection}
<1>0. StackIsHeld /\ S!TypeOK /\ calls \in Seq(T)
  BY DEF SysInv, StackIsHeld
<1>1. CASE \/ IoThread /\ UNCHANGED <<sessionVars, threadVars>>
           \/ UNCHANGED sysVars
  BY <1>0, <1>1 DEF StackIsHeld, sysVars, sessionVars, threadVars
<1>2. CASE Connect \/ Disconnect \/ RunCommand
  <2>1. UNCHANGED threadVars /\ UNCHANGED blocked
    BY <1>2 DEF Connect, Disconnect, RunCommand, S!Attach, S!Leave, S!TurnOn, S!Release,
       sessionVars
  <2> QED  BY <1>0, <2>1 DEF StackIsHeld, threadVars
<1>3. ASSUME NEW x \in T, calls' = <<x>> \o calls, LoopRuns, UNCHANGED blocked,
             mainPending' \in BOOLEAN
      PROVE  StackIsHeld'
  <2> HIDE DEF T
  <2>1. calls' \in Seq(T) /\ Len(calls') = Len(calls) + 1 /\ Len(calls) \in Nat
    BY <1>0, <1>3, PushCalls
  <2>2. (Len(calls) = 0 /\ ~blocked) \/ (Len(calls) = 1 /\ blocked)
    BY <1>0, <1>3 DEF LoopRuns, StackIsHeld
  <2>3. Len(calls') <= 2 /\ (Len(calls') = 2 => blocked) /\ Len(calls') # 0
    <3>1. ASSUME NEW n \in Nat, n = 0 \/ n = 1 PROVE n + 1 <= 2 /\ n + 1 # 0
      BY <3>1
    <3>2. ASSUME NEW n \in Nat, n + 1 = 2 PROVE n # 0
      BY <3>2
    <3> QED  BY ONLY <2>1, <2>2, <3>1, <3>2
  <2>4. calls' # << >>
    BY <2>1, <2>3, EmptySeq
  <2> QED  BY <1>3, <2>1, <2>3, <2>4 DEF StackIsHeld, T
<1>4. CASE StartEvaluate
  <2>1. Head(mainQueue).id \in T
    BY <1>4, TakeTaskQueue DEF StartEvaluate, SysInv, ServerInv, Tasks
  <2>2. /\ calls' = <<Head(mainQueue).id>> \o calls /\ LoopRuns /\ UNCHANGED blocked
        /\ mainPending' = mainPending
    BY <1>4 DEF StartEvaluate, sessionVars
  <2>3. mainPending' \in BOOLEAN
    BY <1>0, <2>2 DEF StackIsHeld
  <2> QED  BY <1>3, <2>1, <2>2, <2>3
<1>5. CASE RunMainTask
  <2>1. /\ calls' = <<NoConnection>> \o calls /\ LoopRuns /\ UNCHANGED blocked
        /\ mainPending' = FALSE
    BY <1>5 DEF RunMainTask, sessionVars
  <2> QED  BY <1>3, <2>1
<1>6. CASE FinishJavaScript
  <2>1. /\ Len(calls) = (IF blocked THEN 2 ELSE 1) /\ calls' = Tail(calls)
        /\ UNCHANGED <<blocked, mainPending>>
    BY <1>6 DEF FinishJavaScript, sessionVars
  <2>2. calls # << >>
    BY <2>1
  <2> HIDE DEF T
  <2>3. calls' \in Seq(T) /\ Len(calls') = Len(calls) - 1
    BY <1>0, <2>1, <2>2, PopCalls
  <2>4. Len(calls') <= 2 /\ Len(calls') # 2 /\ (blocked => Len(calls') # 0)
    <3>1. 2 - 1 = 1 /\ 1 - 1 = 0 /\ 1 <= 2 /\ 0 <= 2 /\ 1 # 2 /\ 0 # 2 /\ 1 # 0
      OBVIOUS
    <3>2. Len(calls') = IF blocked THEN 1 ELSE 0
      BY ONLY <2>1, <2>3, <3>1
    <3> QED  BY ONLY <3>1, <3>2
  <2>5. blocked => calls' # << >>
    BY <2>3, <2>4, EmptySeq
  <2> QED  BY <1>0, <2>1, <2>3, <2>4, <2>5 DEF StackIsHeld, T
<1>7. CASE Stop
  <2>1. calls # << >> /\ UNCHANGED threadVars /\ blocked'
    BY <1>7 DEF Stop, S!Stop
  <2> QED  BY <1>0, <2>1 DEF StackIsHeld, threadVars
<1>8. CASE GoOn
  <2>1. Len(calls) = 1 /\ UNCHANGED threadVars /\ ~blocked'
    BY <1>8 DEF GoOn, S!GoOn
  <2>2. UNCHANGED <<calls, mainPending>> /\ Len(calls) <= 2 /\ Len(calls) # 2
    BY <2>1 DEF threadVars
  <2>3. mainPending \in BOOLEAN
    BY <1>0 DEF StackIsHeld
  <2> QED  BY <1>0, <2>1, <2>2, <2>3 DEF StackIsHeld
<1> QED  BY <1>1, <1>2, <1>4, <1>5, <1>6, <1>7, <1>8 DEF SysNext, MainTask

-----------------------------------------------------------------------------
LEMMA SysInvInit == SysInit => SysInv
<1> SUFFICES ASSUME SysInit PROVE SysInv
  OBVIOUS
<1>1. ServerInv
  BY ServerInit DEF SysInit
<1>2. S!TypeOK /\ S!BlockedOnlyByPause
  BY DEF SysInit, S!Init, S!TypeOK, S!BlockedOnlyByPause
<1>3. SessionIsFrontend /\ StackIsHeld
  BY DEF SysInit, Init, S!Init, SessionIsFrontend, StackIsHeld
<1> QED  BY <1>1, <1>2, <1>3 DEF SysInv

\* The invariant is inductive.
LEMMA SysInvNext == SysInv /\ [SysNext]_sysVars => SysInv'
<1> SUFFICES ASSUME SysInv, [SysNext]_sysVars PROVE SysInv'
  OBVIOUS
<1>1. ServerInv'
  BY ServerSteps, ServerNext, ServerTakes, ServerSends DEF SysInv
<1>2. S!TypeOK' /\ S!BlockedOnlyByPause' /\ SessionIsFrontend' /\ StackIsHeld'
  BY SessionSteps, FrontendSteps, StackSteps
<1> QED  BY <1>1, <1>2 DEF SysInv

\* What the invariant means to the client: a program that waits is in a pause,
\* so that a front-end is there, and, once the main thread has caught up, the
\* connection too.
LEMMA InvWaitsForSomeone == SysInv => WaitsForSomeone
<1> SUFFICES ASSUME SysInv PROVE WaitsForSomeone
  OBVIOUS
<1>1. (session # "detached") <=> frontend
  BY DEF SysInv, SessionIsFrontend
<1>2. ASSUME blocked, ~released, \A i \in DOMAIN mainQueue : ~IsControl(i)
      PROVE  connectionId # NoConnection
  <2>1. session # "detached"
    BY <1>2 DEF SysInv, S!BlockedOnlyByPause
  <2> QED  BY <1>1, <1>2, <2>1 DEF SysInv, ServerInv, SessionFollowsConnection
<1> QED  BY <1>1, <1>2 DEF WaitsForSomeone

\* A program that waits although the connection is gone will be told so: a
\* disconnect waits for the nested loop, which runs unless something evaluated
\* in the stop does, and no connect comes after it.
LossIsQueued ==
  blocked /\ ~released /\ connectionId = NoConnection =>
    /\ LoopRuns \/ Len(calls) = 2
    /\ \E i \in DOMAIN mainQueue : IsLastControl(i) /\ mainQueue[i].type = "disconnect"

LEMMA InvLossIsQueued == SysInv => LossIsQueued
<1> SUFFICES ASSUME SysInv, blocked, ~released, connectionId = NoConnection
             PROVE  /\ LoopRuns \/ Len(calls) = 2
                    /\ \E i \in DOMAIN mainQueue :
                         IsLastControl(i) /\ mainQueue[i].type = "disconnect"
  BY DEF LossIsQueued
<1>1. PICK k \in DOMAIN mainQueue : IsControl(k)
  BY InvWaitsForSomeone DEF WaitsForSomeone
<1>2. PICK i \in DOMAIN mainQueue : IsLastControl(i)
  BY <1>1, LastControlExists DEF SysInv, ServerInv
<1>3. mainQueue[i].type # "connect" /\ mainQueue[i].type # "message"
  <2>1. mainQueue[i].id # NoConnection
    <3>1. mainQueue[i] \in Tasks
      BY <1>2 DEF SysInv, ServerInv, TypeOK
    <3> QED  BY <3>1 DEF Tasks, Connections, NoConnection
  <2> QED  BY <1>2, <2>1 DEF SysInv, ServerInv, LastControlDecides, IsLastControl, IsControl
<1>4. mainQueue[i].type \in {"connect", "message", "disconnect"}
  <2>1. mainQueue[i] \in Tasks
    BY <1>2 DEF SysInv, ServerInv, TypeOK
  <2> QED  BY <2>1 DEF Tasks
<1>5. Len(calls) = 1 \/ Len(calls) = 2
  <2>1. calls \in Seq(Connections \cup {NoConnection}) /\ calls # << >> /\ Len(calls) <= 2
    BY DEF SysInv, StackIsHeld
  <2>2. Len(calls) \in Nat /\ Len(calls) # 0
    BY <2>1, EmptySeq
  <2>3. \A n \in Nat : n # 0 /\ n <= 2 => n = 1 \/ n = 2
    OBVIOUS
  <2> QED  BY ONLY <2>1, <2>2, <2>3
<1> QED  BY <1>2, <1>3, <1>4, <1>5 DEF LoopRuns

-----------------------------------------------------------------------------
(* One client at a time.                                                   *)

\* A connection that was lost in its handshake has nobody to enable its debugger.
FailedIsIdle == frontend /\ served \in Failed => session = "idle"

\* The inductive invariant on top of SysInv: a session that evaluates cannot be
\* replaced, because a connect runs only when nobody is served who could have
\* stopped the program, and the nested loop runs tasks only for the client that
\* is served.
SysClientInv == ClientInv /\ FailedIsIdle /\ AskerIsServed

\* A connect never finds the program stopped and still waiting.
LEMMA ConnectFindsNoStop ==
  ASSUME SysInv, SysClientInv, Connect
  PROVE  calls = << >> /\ session' = "idle"
<1>0. ServerInv /\ ClientInv /\ FailedIsIdle
  BY DEF SysInv, SysClientInv
<1>1. mainQueue # << >> /\ Head(mainQueue).type = "connect" /\ LoopRuns
  BY DEF Connect, HandleConnect, TakeTask
<1>2. session # "detached" => session = "idle"
  <2>1. session # "detached" => frontend
    BY DEF SysInv, SessionIsFrontend
  <2>2. frontend => served \in Failed
    BY <1>0, <1>1, HeadInTurn
  <2> QED  BY <1>0, <2>1, <2>2 DEF FailedIsIdle
<1>3. ~(blocked /\ ~released)
  BY <1>2 DEF SysInv, S!BlockedOnlyByPause
<1>4. calls = << >>
  BY <1>1, <1>3 DEF LoopRuns
<1>5. session' = "idle"
  BY <1>2 DEF Connect, S!Attach, sessionVars
<1> QED  BY <1>4, <1>5

\* The steps that can disturb FailedIsIdle.
LEMMA IdleSteps ==
  ASSUME SysInv, SysClientInv, [SysNext]_sysVars
  PROVE  FailedIsIdle'
<1>0. ServerInv /\ TypeOK /\ ClientInv /\ FailedIsIdle
  BY DEF SysInv, ServerInv, SysClientInv
<1>1. CASE Connect
  BY <1>1, ConnectFindsNoStop DEF FailedIsIdle
<1>2. CASE Disconnect
  BY <1>2 DEF Disconnect, HandleDisconnect, FailedIsIdle
<1>3. CASE RunCommand
  <2>1. /\ mainQueue # << >> /\ Head(mainQueue).type = "message"
        /\ UNCHANGED <<sockets, frontend, served>>
    BY <1>3 DEF RunCommand, HandleMessageFromClient, TakeTask
  <2>2. frontend => served \notin Failed
    BY <1>0, <2>1, HeadInTurn
  <2> QED  BY <2>1, <2>2 DEF FailedIsIdle, Failed
<1>4. CASE IoThread /\ UNCHANGED <<sessionVars, threadVars>>
  <2>1. UNCHANGED <<frontend, served, session>>
    BY <1>4 DEF IoThread, Accept, OnWebSocketRequest, OnWebSocketMessage, OnClose,
       SendMessageToClient, sessionVars
  <2>2. SocketsMove
    <3>1. \/ Accept
          \/ \E c \in DOMAIN sockets : OnWebSocketRequest(c) \/ OnClose(c)
          \/ UNCHANGED sockets
      BY <1>4 DEF IoThread, OnWebSocketMessage, SendMessageToClient
    <3> QED  BY <1>0, <3>1, SocketsMoveOn
  <2>3. frontend => Upgraded(served)
    BY <1>0 DEF ServerInv, ServedWhileFrontend, ClientInv, IdsAreUpgraded
  <2>4. frontend /\ (served \in Failed)' => served \in Failed
    BY <2>1, <2>2, <2>3 DEF SocketsMove, Failed
  <2> QED  BY <1>0, <2>1, <2>4 DEF FailedIsIdle
<1>5. CASE RunMainTask \/ StartEvaluate \/ FinishJavaScript \/ UNCHANGED sysVars
  <2>1. UNCHANGED <<sockets, frontend, served, session>>
    BY <1>5 DEF RunMainTask, StartEvaluate, FinishJavaScript, sysVars, vars, serverVars,
       sessionVars
  <2> QED  BY <1>0, <2>1 DEF FailedIsIdle, Failed
<1>6. CASE Stop \/ GoOn
  <2>1. /\ UNCHANGED <<sockets, frontend, served>>
        /\ session = "idle" => session' = "idle"
    BY <1>6 DEF Stop, GoOn, S!Stop, S!GoOn
  <2> QED  BY <1>0, <2>1 DEF FailedIsIdle, Failed
<1> QED  BY <1>1, <1>2, <1>3, <1>4, <1>5, <1>6 DEF SysNext, MainTask

\* The steps that can disturb AskerIsServed.
LEMMA AskerSteps ==
  ASSUME SysInv, SysClientInv, [SysNext]_sysVars
  PROVE  AskerIsServed'
<1> DEFINE T == Connections \cup {NoConnection}
<1>0. ServerInv /\ ClientInv /\ AskerIsServed /\ calls \in Seq(T)
  BY DEF SysInv, SysClientInv, StackIsHeld
<1>1. CASE Connect
  <2>1. calls' = << >>
    BY <1>1, ConnectFindsNoStop DEF Connect, threadVars
  <2> QED  BY <2>1 DEF AskerIsServed
<1>2. CASE Disconnect
  BY <1>2 DEF Disconnect, HandleDisconnect, AskerIsServed
<1> HIDE DEF T
<1>3. ASSUME NEW x \in T, calls' = <<x>> \o calls, UNCHANGED <<frontend, served>>,
             x # NoConnection /\ frontend => x = served
      PROVE  AskerIsServed'
  <2>1. /\ calls'[1] = x
        /\ \A i \in DOMAIN calls' : i # 1 => i - 1 \in DOMAIN calls /\ calls'[i] = calls[i - 1]
    BY <1>0, <1>3, PushCalls
  <2> QED  BY <1>0, <1>3, <2>1 DEF AskerIsServed
<1>4. CASE StartEvaluate
  <2>1. /\ frontend /\ mainQueue # << >> /\ Head(mainQueue).type = "message"
        /\ calls' = <<Head(mainQueue).id>> \o calls /\ UNCHANGED <<frontend, served>>
        /\ TakeTask("message")
    BY <1>4 DEF StartEvaluate, TakeTask
  <2>2. served = Head(mainQueue).id
    BY <1>0, <2>1, HeadInTurn
  <2>3. Head(mainQueue).id \in T
    BY <1>0, <2>1, TakeTaskQueue DEF ServerInv, Tasks, T
  <2> QED  BY <1>3, <2>1, <2>2, <2>3
<1>5. CASE RunMainTask
  <2>1. calls' = <<NoConnection>> \o calls /\ UNCHANGED <<frontend, served>>
    BY <1>5 DEF RunMainTask, vars
  <2>2. NoConnection \in T
    BY DEF T
  <2> QED  BY <1>3, <2>1, <2>2
<1>6. CASE FinishJavaScript
  <2>1. calls # << >> /\ calls' = Tail(calls) /\ UNCHANGED <<frontend, served>>
    BY <1>6 DEF FinishJavaScript
  <2>2. \A i \in DOMAIN calls' : i + 1 \in DOMAIN calls /\ calls'[i] = calls[i + 1]
    BY <1>0, <2>1, PopCalls
  <2> QED  BY <1>0, <2>1, <2>2 DEF AskerIsServed
<1>7. CASE \/ IoThread /\ UNCHANGED <<sessionVars, threadVars>>
           \/ RunCommand \/ Stop \/ GoOn \/ UNCHANGED sysVars
  <2>1. UNCHANGED <<calls, frontend, served>>
    BY <1>7 DEF IoThread, Accept, OnWebSocketRequest, OnWebSocketMessage, OnClose,
       SendMessageToClient, RunCommand, HandleMessageFromClient, Stop, GoOn,
       sysVars, threadVars, vars
  <2> QED  BY <1>0, <2>1 DEF AskerIsServed
<1> QED  BY <1>1, <1>2, <1>4, <1>5, <1>6, <1>7 DEF SysNext, MainTask

LEMMA SysClientNext ==
  ASSUME MaxClients = 1, SysInv, SysClientInv, [SysNext]_sysVars
  PROVE  SysClientInv'
<1>0. ServerInv /\ TypeOK /\ ClientInv /\ AskerIsServed
  BY DEF SysInv, SysClientInv, ServerInv
<1>1. ASSUME NEW c \in Connections, SendFor(c),
             c = served \/ (\E i \in DOMAIN calls : c = calls[i] /\ frontend)
      PROVE  ClientInv'
  <2>1. c = served /\ served # NoConnection
    BY <1>0, <1>1 DEF AskerIsServed, Connections, NoConnection
  <2>2. Upgraded(c)
    BY <1>0, <2>1 DEF ClientInv, IdsAreUpgraded
  <2> QED  BY <1>0, <1>1, <2>2, ClientSends
<1>2. ClientInv'
  <2>1. CASE [Next]_vars
    BY <1>0, <2>1, ClientNext
  <2>2. CASE TakeSilently
    BY <1>0, <2>2, ClientTakes
  <2> QED  BY <1>1, <2>1, <2>2, ServerSteps
<1>3. AskerIsServed' /\ FailedIsIdle'
  BY AskerSteps, IdleSteps
<1> QED  BY <1>2, <1>3 DEF SysClientInv

\* A stop is held by a client that can be reached.
LEMMA InvWaitsForOpen == SysInv /\ SysClientInv => WaitsForOpen
<1> SUFFICES ASSUME SysInv, SysClientInv, blocked, ~released,
                    \A i \in DOMAIN mainQueue : ~IsControl(i)
             PROVE  connectionId \in OpenSockets("webSocket")
  BY DEF WaitsForOpen
<1>1. session = "paused" /\ frontend
  BY DEF SysInv, S!BlockedOnlyByPause, SessionIsFrontend
<1>2. connectionId # NoConnection /\ served = connectionId
  BY <1>1 DEF SysInv, ServerInv, SessionFollowsConnection
<1>3. served \notin Failed
  BY <1>1 DEF SysClientInv, FailedIsIdle
<1> QED  BY <1>2, <1>3 DEF SysInv, ServerInv, CurrentIsOpen

-----------------------------------------------------------------------------
(* The theorems.                                                           *)

\* The conjunction is an invariant of the backend.
THEOREM SysInvariance == SysSpec => []SysInv
  BY SysInvInit, SysInvNext, PTL DEF SysSpec

\* A program in runMessageLoopOnPause is never left waiting for a client that
\* is gone: either its connection is current or a disconnect is queued, which
\* the nested loop will run.  It holds of any number of clients.
THEOREM WaitsForSomeoneAlways == SysSpec => []WaitsForSomeone
  BY SysInvariance, InvWaitsForSomeone, PTL

\* The safety half of LossEndsStop: OnClose leaves a HandleDisconnect in the
\* queue of the loop that holds the program, and nothing undoes it.
THEOREM LossIsQueuedAlways == SysSpec => []LossIsQueued
  BY SysInvariance, InvLossIsQueued, PTL

\* With one client at a time the second invariant holds as well.
THEOREM SysClientInvariance == MaxClients = 1 => (SysSpec => [](SysInv /\ SysClientInv))
<1> SUFFICES ASSUME MaxClients = 1 PROVE SysSpec => [](SysInv /\ SysClientInv)
  OBVIOUS
<1>1. SysInit => SysInv /\ SysClientInv
  <2> SUFFICES ASSUME SysInit PROVE SysInv /\ SysClientInv
    OBVIOUS
  <2>1. ClientInv
    BY ClientInit DEF SysInit
  <2>2. AskerIsServed /\ FailedIsIdle
    BY DEF SysInit, Init, AskerIsServed, FailedIsIdle
  <2> QED  BY <2>1, <2>2, SysInvInit DEF SysClientInv
<1>2. SysInv /\ SysClientInv /\ [SysNext]_sysVars => (SysInv /\ SysClientInv)'
  BY SysInvNext, SysClientNext
<1> QED  BY <1>1, <1>2, PTL DEF SysSpec

\* With one client at a time the connection it waits for is open: one that was
\* lost in its handshake, although it becomes current, never stops the program.
THEOREM WaitsForOpenAlways == MaxClients = 1 => (SysSpec => []WaitsForOpen)
<1> SUFFICES ASSUME MaxClients = 1 PROVE SysSpec => []WaitsForOpen
  OBVIOUS
<1>1. SysSpec => [](SysInv /\ SysClientInv)
  BY SysClientInvariance
<1> QED  BY <1>1, InvWaitsForOpen, PTL

\* The answer of an evaluate is held back through any number of stops, during
\* which the nested loop runs the tasks of whoever connects: when it is sent,
\* the client that asked is the one that is served, or nobody is.
THEOREM AskerIsServedAlways == MaxClients = 1 => (SysSpec => []AskerIsServed)
<1> SUFFICES ASSUME MaxClients = 1 PROVE SysSpec => []AskerIsServed
  OBVIOUS
<1>1. SysInv /\ SysClientInv => AskerIsServed
  BY DEF SysClientInv
<1>2. SysSpec => [](SysInv /\ SysClientInv)
  BY SysClientInvariance
<1> QED  BY <1>1, <1>2, PTL

\* The transport's promise survives the late answers: no message meant for a
\* client that is still connected reaches another.
THEOREM SysNoMixup == MaxClients = 1 => (SysSpec => []NoMixup)
<1> SUFFICES ASSUME MaxClients = 1 PROVE SysSpec => []NoMixup
  OBVIOUS
<1>1. SysInv /\ SysClientInv => NoMixup
  BY DEF SysClientInv, ClientInv
<1>2. SysSpec => [](SysInv /\ SysClientInv)
  BY SysClientInvariance
<1> QED  BY <1>1, <1>2, PTL

=============================================================================
