--------------------------- MODULE InspectorSystem ---------------------------
(***************************************************************************)
(* The whole backend: the transport of RemoteServer driving the session of *)
(* DebuggerSession, which InspectorDebugger implements.  What it adds is   *)
(* the main thread itself: a task of the message loop can run only while   *)
(* no JavaScript is on the stack or the JavaScript is stopped in the       *)
(* nested loop, so that everything a client sends waits in mainQueue       *)
(* behind a running script, and the reply to an evaluate waits for the     *)
(* script it started, through any number of stops.  JavaScript evaluated   *)
(* in a stop runs on top of the stopped script and holds up the nested     *)
(* loop in the same way; it cannot stop a second time.                     *)
(***************************************************************************)
EXTENDS RemoteServer

VARIABLES
  session, blocked, released,   \* see DebuggerSession
  calls,          \* the JavaScript on the stack of the main thread, innermost
                  \* first: the connection whose evaluate started it, or
                  \* NoConnection for runMainTask
  mainPending     \* runMainTask has not run yet

S == INSTANCE DebuggerSession

sessionVars == <<session, blocked, released>>
threadVars  == <<calls, mainPending>>
sysVars == <<vars, sessionVars, threadVars>>

SysInit ==
  /\ Init /\ S!Init
  /\ calls = << >> /\ mainPending = TRUE

\* Mutant: tasks run while a script is on the stack.
LoopAlwaysRuns == ~released

\* The pump of the top-level or of the nested loop runs the next task.
LoopRuns == (calls = << >> \/ (blocked /\ Len(calls) = 1)) /\ ~released

\* runMainTask.  main() posts it after it has started the server, so that it may
\* come after the tasks of a client and even run in a stop of an evaluate.
RunMainTask ==
  /\ LoopRuns /\ mainPending
  /\ calls' = <<NoConnection>> \o calls /\ mainPending' = FALSE
  /\ UNCHANGED <<vars, sessionVars>>

\* Mutant: the agents are restored as the last session left them.
ConnectRestores ==
  /\ LoopRuns /\ HandleConnect
  /\ session' = IF session = "detached" THEN "running" ELSE session
  /\ UNCHANGED <<blocked, released, threadVars>>

\* connectFrontend: the agents of a front-end that is replaced stay enabled.
Connect ==
  /\ LoopRuns /\ HandleConnect
  /\ IF session = "detached" THEN S!Attach ELSE UNCHANGED sessionVars
  /\ UNCHANGED threadVars

\* Mutants: the agents are told nothing, or forget the session without letting
\* the program go.
DisconnectTransportOnly ==
  LoopRuns /\ HandleDisconnect /\ UNCHANGED <<sessionVars, threadVars>>

DisconnectWithoutRelease ==
  /\ LoopRuns /\ HandleDisconnect
  /\ session' = "detached"
  /\ UNCHANGED <<blocked, released, threadVars>>

\* disconnectFrontend
Disconnect ==
  /\ LoopRuns /\ HandleDisconnect
  /\ IF session = "detached" THEN UNCHANGED sessionVars ELSE S!Leave("detached")
  /\ UNCHANGED threadVars

\* A command that is over when its task is: it changes the session or not,
\* and is answered, unless nobody is connected.
RunCommand ==
  /\ LoopRuns /\ HandleMessageFromClient
  /\ IF frontend
       THEN \/ S!TurnOn
            \/ session \in {"running", "paused"} /\ S!Leave("idle")
            \/ S!Release
            \/ UNCHANGED sessionVars
       ELSE UNCHANGED sessionVars
  /\ UNCHANGED threadVars

\* A command that starts JavaScript; its answer comes when that returns.
StartEvaluate ==
  /\ LoopRuns /\ frontend
  /\ TakeTask("message")
  /\ calls' = <<Head(mainQueue).id>> \o calls
  /\ UNCHANGED <<sockets, connectionId, ioQueue, frontend, served, delivered,
                 sessionVars, mainPending>>

\* The innermost JavaScript returns, which the stopped one cannot.  dispatch()
\* then answers the command, unless the channel of its dispatcher was cleared
\* by a disconnect.
FinishJavaScript ==
  /\ Len(calls) = (IF blocked THEN 2 ELSE 1)
  /\ calls' = Tail(calls)
  /\ IF Head(calls) # NoConnection /\ frontend THEN Send(Head(calls))
                                                ELSE UNCHANGED ioQueue
  /\ UNCHANGED <<sockets, connectionId, mainQueue, frontend, served, delivered,
                 sessionVars, mainPending>>

\* A break stops the program and the client is notified.
Stop ==
  /\ calls # << >>
  /\ S!Stop
  /\ Send(served)
  /\ UNCHANGED <<sockets, connectionId, mainQueue, frontend, served, delivered,
                 threadVars>>

\* The nested loop returns, once no task is running in it; a client that is
\* still attached is notified.
GoOn ==
  /\ S!GoOn /\ Len(calls) = 1
  /\ IF session = "paused" THEN Send(served) ELSE UNCHANGED ioQueue
  /\ UNCHANGED <<sockets, connectionId, mainQueue, frontend, served, delivered,
                 threadVars>>

MainTask == Connect \/ Disconnect \/ RunCommand \/ StartEvaluate

SysNext ==
  \/ IoThread /\ UNCHANGED <<sessionVars, threadVars>>
  \/ RunMainTask \/ MainTask \/ FinishJavaScript \/ Stop \/ GoOn

\* Both message loops run the tasks in their queues, and a loop told to quit
\* returns.  No JavaScript is assumed to end and no client to send anything.
SysFairness ==
  /\ WF_sysVars(MainTask)
  /\ WF_sysVars(SendMessageToClient /\ UNCHANGED <<sessionVars, threadVars>>)
  /\ WF_sysVars(released /\ GoOn)

SysSpec == SysInit /\ [][SysNext]_sysVars /\ SysFairness

-----------------------------------------------------------------------------
(* Properties.                                                             *)

\* The program is never left waiting for a client that is not there: if it
\* waits, and no disconnect is on its way, some connection is current, and
\* a session exists exactly while V8Inspector has a front-end.
WaitsForSomeone ==
  /\ (session # "detached") <=> frontend
  /\ blocked /\ ~released /\ (\A i \in DOMAIN mainQueue : ~IsControl(i))
       => connectionId # NoConnection

\* With one client at a time that connection can also be reached: one lost in
\* its handshake becomes current and gets a front-end (OnWebSocketRequest), but
\* nobody is there to enable its debugger, so that it holds no stop.
WaitsForOpen ==
  blocked /\ ~released /\ (\A i \in DOMAIN mainQueue : ~IsControl(i))
    => connectionId \in OpenSockets("webSocket")

\* A client that closes its connection while the program is stopped lets the
\* program go, whatever is queued before the disconnect, as long as what is
\* evaluated in the stop comes to an end: an endless evaluateOnCallFrame keeps
\* the nested loop from ever taking the disconnect.
LossEndsStop ==
  []<>(~(blocked /\ Len(calls) = 2)) =>
    ((blocked /\ connectionId = NoConnection) ~> ~blocked)

\* A stop is an exchange with the session that evaluates: the connection of
\* every command that is still running, in the stop or stopped itself, is the
\* one that is served, or nobody is any more.
AskerIsServed ==
  \A i \in DOMAIN calls : calls[i] # NoConnection /\ frontend => calls[i] = served

=============================================================================
