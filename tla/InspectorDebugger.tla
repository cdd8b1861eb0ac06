-------------------------- MODULE InspectorDebugger --------------------------
(***************************************************************************)
(* The pause core of the V8 inspector backend: everything that decides     *)
(* when the JavaScript thread stops, who may let it go again, and what the *)
(* remote client is told about it.  Four layers share the work and each    *)
(* keeps its own idea of "paused":                                         *)
(*                                                                         *)
(*   V8Inspector             connect / disconnect of the one front-end     *)
(*   InspectorDebuggerAgent  the Debugger domain: enable, pause, resume,   *)
(*                           steps, skip decisions (didPause)              *)
(*   V8Debugger,             the break handler, the nested message loop    *)
(*   WorkerThreadDebugger    that runs while the program is stopped        *)
(*   v8::Debug               break flag, stepping, exception breaks        *)
(*                                                                         *)
(* One thread runs all of this.  It is in its top-level message loop       *)
(* ("loop"), executing JavaScript ("js"), or in the message loop nested in *)
(* a break ("nested"); protocol commands are tasks of the two loops.       *)
(* "crashed" is the state after V8Debugger uses its empty debugger context.*)
(* Async call tracking is off here (m_maxAsyncCallStackDepth = 0).         *)
(***************************************************************************)
EXTENDS Naturals

CONSTANT MaxSkipStepFrameCount   \* maxSkipStepFrameCount, 128 in the code

ASSUME MaxSkipAssumption == MaxSkipStepFrameCount \in Nat

VARIABLES
  frontend,          \* V8Inspector::m_frontend and the agents' copies are set
  debuggerEnabled,   \* m_state's debuggerEnabled of the agent
  stateExceptions,   \* m_state's pauseOnExceptionsState of the agent
  listener,          \* WorkerThreadDebugger::m_listener is set
  v8Enabled,         \* V8Debugger::enabled(): m_debuggerScript is set
  thread,            \* what the main thread is doing
  scope,             \* who called the running JavaScript, see Scopes
  quit,              \* QuitNow was called on the nested message loop
  quitWhenIdle,      \* QuitWhenIdle was called on the nested message loop
  mainPending,       \* main() has posted runMainTask and it has not run
  pausedScriptState, \* InspectorDebuggerAgent::m_pausedScriptState is set
  v8Paused,          \* V8Debugger::m_pausedScriptState is set
  scheduledStep,     \* m_scheduledDebuggerStep
  pauseScheduled,    \* m_javaScriptPauseScheduled
  steppingFromFramework, skipAllPauses, skippedStepFrameCount,
  continueToLocation,    \* m_continueToLocationBreakpointId is not empty
  debugBreak,        \* V8's DEBUGBREAK stack-guard request
  v8Step,            \* V8's last_step_action
  v8Exceptions,      \* V8's break-on-exception flags
  breaksActive,      \* not V8's break_disabled_
  lastEvent,         \* the last of paused / resumed sent since enable
  overridden         \* history: a silent call has lost the exception state
                     \* that the client set, or is about to

sessionVars == <<frontend, debuggerEnabled, listener, v8Enabled, overridden>>
loopVars    == <<thread, scope, quit, quitWhenIdle, mainPending>>
agentVars   == <<pausedScriptState, scheduledStep, pauseScheduled,
                 steppingFromFramework, skippedStepFrameCount,
                 continueToLocation>>
v8Vars      == <<debugBreak, v8Step, v8Exceptions, breaksActive>>
vars == <<sessionVars, loopVars, agentVars, v8Vars, stateExceptions,
          v8Paused, skipAllPauses, lastEvent>>

Exceptions == {"none", "uncaught", "all"}
Steps      == {"NoStep", "StepInto", "StepOver", "StepOut"}
V8Steps    == {"none", "in", "next", "out", "frame"}
Threads    == {"loop", "js", "nested", "crashed"}
Events     == {"none", "paused", "resumed"}

\* The caller of the running JavaScript.  "main" is runMainTask, "evaluate" a
\* Runtime command inside an InjectedScriptCallScope, "runScript" the Debugger
\* command of that name; silent is doNotPauseOnExceptionsAndMuteConsole and
\* saved the previousPauseOnExceptionsState that the epilogue writes back;
\* stopped says that this JavaScript has been stopped before.
Scopes  == [caller : {"main", "evaluate", "runScript"}, silent : BOOLEAN,
            saved : Exceptions, stopped : BOOLEAN]
NoScope == [caller |-> "main", silent |-> FALSE, saved |-> "none",
            stopped |-> FALSE]

Init ==
  /\ frontend = FALSE /\ debuggerEnabled = FALSE /\ listener = FALSE
  /\ v8Enabled = FALSE /\ stateExceptions = "none"
  /\ thread = "loop" /\ scope = NoScope
  /\ quit = FALSE /\ quitWhenIdle = FALSE /\ mainPending = TRUE
  /\ pausedScriptState = FALSE /\ v8Paused = FALSE
  /\ scheduledStep = "NoStep" /\ pauseScheduled = FALSE
  /\ steppingFromFramework = FALSE /\ skipAllPauses = FALSE
  /\ skippedStepFrameCount = 0 /\ continueToLocation = FALSE
  /\ debugBreak = FALSE /\ v8Step = "none" /\ v8Exceptions = "none"
  /\ breaksActive = TRUE /\ lastEvent = "none" /\ overridden = FALSE

-----------------------------------------------------------------------------
(* Building blocks shared by the commands.                                 *)

\* A task of the message loop can run: JavaScript is not on the stack, or it
\* is stopped in the nested loop.  Once QuitNow was called the pump returns
\* right after the task that called it.
LoopRuns == thread \in {"loop", "nested"} /\ ~quit

\* A protocol command is dispatched only while a dispatcher exists.
CanDispatch == LoopRuns /\ frontend

\* Mutant: the message loop is not told to quit.
ContinueWithoutQuit == UNCHANGED quit /\ v8Paused' = FALSE

\* V8Debugger::continueProgram
ContinueProgram ==
  /\ quit' = (quit \/ v8Paused)
  /\ v8Paused' = FALSE

\* V8Debugger's settings, as DebuggerScript passes them to V8.
SetPauseOnExceptionsState(e)    == v8Exceptions' = e
SetBreakpointsActivated(active) == breaksActive' = active

\* WorkerThreadDebugger::addListener enables V8Debugger, whose script is
\* compiled afresh and clears V8's exception flags.
AddListener ==
  /\ v8Enabled' = TRUE
  /\ SetPauseOnExceptionsState("none")
  /\ listener' = TRUE

\* removeListener lets a stopped program go and unloads V8's debugger, which
\* ends stepping.
RemoveListener ==
  /\ ContinueProgram
  /\ listener' = FALSE
  /\ v8Enabled' = FALSE /\ v8Step' = "none"

\* Mutants of clear(): the paused state, or the scheduled step, is forgotten.
ClearKeepsPaused ==
  /\ continueToLocation' = FALSE /\ scheduledStep' = "NoStep"
  /\ pauseScheduled' = FALSE /\ steppingFromFramework' = FALSE
  /\ skippedStepFrameCount' = 0 /\ UNCHANGED pausedScriptState

ClearKeepsStep ==
  /\ continueToLocation' = FALSE /\ pausedScriptState' = FALSE
  /\ pauseScheduled' = FALSE /\ steppingFromFramework' = FALSE
  /\ skippedStepFrameCount' = 0 /\ UNCHANGED scheduledStep

\* The agent's fields that clear() resets.
ClearAgent ==
  /\ pausedScriptState' = FALSE
  /\ continueToLocation' = FALSE
  /\ scheduledStep' = "NoStep"
  /\ pauseScheduled' = FALSE
  /\ steppingFromFramework' = FALSE
  /\ skippedStepFrameCount' = 0

\* InspectorDebuggerAgent::disable(ErrorString*): the state is reset, the
\* listener removed, the fields cleared.  Nothing here withdraws V8's
\* DEBUGBREAK request nor its exception flags.
DisableAgent ==
  IF debuggerEnabled
    THEN /\ stateExceptions' = "none"
         /\ RemoveListener
         /\ ClearAgent
         /\ skipAllPauses' = FALSE
         /\ debuggerEnabled' = FALSE
    ELSE UNCHANGED <<stateExceptions, quit, v8Paused, listener, v8Enabled,
                     v8Step, agentVars, skipAllPauses, debuggerEnabled>>

-----------------------------------------------------------------------------
(* The session: V8Inspector and the agent's enable / disable.              *)

\* V8Inspector::connectFrontend, for clients that come one after the other.  The
\* server does not see to that: a connect that meets the front-end of another
\* client is modelled in RemoteServer and InspectorSystem.
ConnectFrontend ==
  /\ LoopRuns /\ ~frontend
  /\ frontend' = TRUE
  /\ UNCHANGED <<debuggerEnabled, listener, v8Enabled, overridden, loopVars,
                 agentVars, v8Vars, stateExceptions, v8Paused, skipAllPauses, lastEvent>>

\* Mutant: the front-end is dropped and the agents are left as they are.
DisconnectWithoutDisable ==
  /\ LoopRuns /\ frontend
  /\ frontend' = FALSE
  /\ UNCHANGED <<debuggerEnabled, listener, v8Enabled, overridden, loopVars,
                 agentVars, v8Vars, stateExceptions, v8Paused, skipAllPauses, lastEvent>>

\* V8Inspector::disconnectFrontend: every agent is disabled, then detached.
DisconnectFrontend ==
  /\ LoopRuns /\ frontend
  /\ DisableAgent
  /\ frontend' = FALSE
  /\ UNCHANGED <<thread, scope, quitWhenIdle, mainPending, debugBreak, v8Exceptions,
                 breaksActive, lastEvent, overridden>>

\* Debugger.enable, which also activates breakpoints.  A silent call on the
\* stack, from before, will write back an exception state of its own.
Enable ==
  /\ CanDispatch /\ ~debuggerEnabled
  /\ AddListener
  /\ SetBreakpointsActivated(TRUE)
  /\ debuggerEnabled' = TRUE
  /\ lastEvent' = "none" /\ overridden' = scope.silent
  /\ UNCHANGED <<frontend, loopVars, agentVars, debugBreak, v8Step,
                 stateExceptions, v8Paused, skipAllPauses>>

\* Debugger.disable
Disable ==
  /\ CanDispatch /\ debuggerEnabled
  /\ DisableAgent
  /\ UNCHANGED <<frontend, thread, scope, quitWhenIdle, mainPending, debugBreak,
                 v8Exceptions, breaksActive, lastEvent, overridden>>

-----------------------------------------------------------------------------
(* Pausing, resuming and stepping.                                         *)

\* Debugger.pause: ask V8 to break at the next statement.
Pause ==
  /\ CanDispatch /\ debuggerEnabled
  /\ ~pauseScheduled /\ ~v8Paused
  /\ pauseScheduled' = TRUE
  /\ scheduledStep' = "NoStep"
  /\ skippedStepFrameCount' = 0
  /\ steppingFromFramework' = FALSE
  /\ debugBreak' = TRUE
  /\ UNCHANGED <<sessionVars, loopVars, pausedScriptState, continueToLocation,
                 v8Step, v8Exceptions, breaksActive, stateExceptions, v8Paused,
                 skipAllPauses, lastEvent>>

\* Debugger.resume
Resume ==
  /\ CanDispatch /\ pausedScriptState
  /\ scheduledStep' = "NoStep"
  /\ steppingFromFramework' = FALSE
  /\ ContinueProgram
  /\ UNCHANGED <<sessionVars, thread, scope, quitWhenIdle, mainPending, pausedScriptState,
                 pauseScheduled, skippedStepFrameCount, continueToLocation,
                 v8Vars, stateExceptions, skipAllPauses, lastEvent>>

\* Debugger.stepInto / stepOver / stepOut.  Whether the top frame is
\* blackboxed is a property of the script, so an input; stepOver at a
\* function's return point is stepInto.
StepCommand(s, v8s, blackboxed) ==
  /\ CanDispatch /\ pausedScriptState
  /\ scheduledStep' = s
  /\ steppingFromFramework' = blackboxed
  /\ v8Step' = v8s
  /\ ContinueProgram
  /\ UNCHANGED <<sessionVars, thread, scope, quitWhenIdle, mainPending, pausedScriptState,
                 pauseScheduled, skippedStepFrameCount, continueToLocation,
                 debugBreak, v8Exceptions, breaksActive, stateExceptions,
                 skipAllPauses, lastEvent>>

StepInto(blackboxed) == StepCommand("StepInto", "in", blackboxed)
StepOver(blackboxed) == StepCommand("StepOver", "next", blackboxed)
StepOut(blackboxed)  == StepCommand("StepOut", "out", blackboxed)

\* Debugger.continueToLocation: remove the previous one-shot breakpoint; a
\* malformed location ends the command there, otherwise a new one is set
\* (resolved or not) and the program resumed, if it is stopped.
ContinueToLocation(location) ==
  /\ CanDispatch /\ debuggerEnabled
  /\ continueToLocation' = (location = "resolved")
  /\ IF location # "malformed" /\ pausedScriptState
       THEN /\ scheduledStep' = "NoStep"
            /\ steppingFromFramework' = FALSE
            /\ ContinueProgram
       ELSE UNCHANGED <<scheduledStep, steppingFromFramework, quit, v8Paused>>
  /\ UNCHANGED <<sessionVars, thread, scope, quitWhenIdle, mainPending,
                 pausedScriptState, pauseScheduled, skippedStepFrameCount,
                 v8Vars, stateExceptions, skipAllPauses, lastEvent>>

-----------------------------------------------------------------------------
(* Settings.                                                               *)

\* Debugger.setSkipAllPauses, which does not ask whether the agent is enabled.
SetSkipAllPauses(skipped) ==
  /\ CanDispatch
  /\ skipAllPauses' = skipped
  /\ UNCHANGED <<sessionVars, loopVars, agentVars, v8Vars, stateExceptions,
                 v8Paused, lastEvent>>

\* Debugger.setPauseOnExceptions
SetPauseOnExceptions(e) ==
  /\ CanDispatch /\ debuggerEnabled
  /\ SetPauseOnExceptionsState(e) /\ stateExceptions' = e
  /\ overridden' = scope.silent
  /\ UNCHANGED <<frontend, debuggerEnabled, listener, v8Enabled, loopVars,
                 agentVars, debugBreak, v8Step, breaksActive, v8Paused,
                 skipAllPauses, lastEvent>>

\* Debugger.setBreakpointsActive: V8 disables every kind of break except those
\* on exceptions.
SetBreakpointsActive(active) ==
  /\ CanDispatch /\ debuggerEnabled
  /\ SetBreakpointsActivated(active)
  /\ UNCHANGED <<sessionVars, loopVars, agentVars, debugBreak, v8Step,
                 v8Exceptions, stateExceptions, v8Paused, skipAllPauses,
                 lastEvent>>

-----------------------------------------------------------------------------
(* Entering and leaving JavaScript.                                        *)

\* runMainTask: the script given on the command line.  The server is there when
\* the task is posted, so that commands of a client may come before it.
RunMainTask ==
  /\ thread = "loop" /\ mainPending
  /\ thread' = "js" /\ mainPending' = FALSE
  /\ UNCHANGED <<sessionVars, scope, quit, quitWhenIdle, agentVars, v8Vars,
                 stateExceptions, v8Paused, skipAllPauses, lastEvent>>

\* runMainTask when a client's command stopped before it: it is a task of the
\* nested loop then, its JavaScript cannot stop again, and a call of the shell's
\* quit() ends the nested loop when it becomes idle.
RunMainTaskInStop(quits) ==
  /\ LoopRuns /\ thread = "nested" /\ mainPending
  /\ mainPending' = FALSE
  /\ quitWhenIdle' = (quitWhenIdle \/ quits)
  /\ UNCHANGED <<sessionVars, thread, scope, quit, agentVars, v8Vars,
                 stateExceptions, v8Paused, skipAllPauses, lastEvent>>

\* JavaScript called by a command.  A silent caller turns exception breaks off
\* and keeps the present state for its epilogue; V8Debugger ignores it while
\* disabled, when the state kept is the new one.
CallJavaScript(caller, silent) ==
  /\ CanDispatch /\ thread = "loop"
  /\ thread' = "js"
  /\ scope' = [caller |-> caller, silent |-> silent,
               saved |-> IF silent /\ v8Enabled THEN v8Exceptions ELSE "none",
               stopped |-> FALSE]
  /\ v8Exceptions' = IF silent /\ v8Enabled THEN "none" ELSE v8Exceptions
  /\ UNCHANGED <<sessionVars, quit, quitWhenIdle, mainPending, agentVars,
                 debugBreak, v8Step, breaksActive, stateExceptions, v8Paused,
                 skipAllPauses, lastEvent>>

\* Runtime.evaluate, callFunctionOn and getProperties
Evaluate(silent) == CallJavaScript("evaluate", silent)

\* Debugger.runScript of a compiled script
RunScript(silent) == debuggerEnabled /\ CallJavaScript("runScript", silent)

\* Debugger.runScript of a script id that was not compiled: the early return
\* comes after the exception state was changed and before it is restored.
RunUnknownScript(silent) ==
  /\ CanDispatch /\ debuggerEnabled
  /\ v8Exceptions' = IF silent THEN "none" ELSE v8Exceptions
  /\ overridden' = (overridden \/ silent)
  /\ UNCHANGED <<frontend, debuggerEnabled, listener, v8Enabled, loopVars,
                 agentVars, debugBreak, v8Step, breaksActive, stateExceptions,
                 v8Paused, skipAllPauses, lastEvent>>

\* JavaScript evaluated while the program is stopped cannot stop again, so it
\* is over within its task and the exception state is what it was before.  A
\* call of the shell's quit() ends the nested loop when it becomes idle.
EvaluateOnCallFrame(quits) ==
  /\ CanDispatch /\ thread = "nested"
  /\ quitWhenIdle' = (quitWhenIdle \/ quits)
  /\ UNCHANGED <<sessionVars, thread, scope, quit, mainPending, agentVars,
                 v8Vars, stateExceptions, v8Paused, skipAllPauses, lastEvent>>

\* Mutant: nothing is restored.
FinishRestoresNothing ==
  /\ thread = "js" /\ thread' = "loop" /\ scope' = NoScope
  /\ UNCHANGED <<sessionVars, quit, quitWhenIdle, mainPending, agentVars,
                 v8Vars, stateExceptions, v8Paused, skipAllPauses, lastEvent>>

\* The JavaScript returns to its caller, whose epilogue restores the exception
\* state.  InjectedScriptCallScope asks whether V8Debugger is still enabled;
\* runScript does not, and enters an empty context when it is not.  (runScript's
\* early return on an empty result has no case here: a script ends with a value,
\* or with an exception that the TryCatch holds, unless its execution is
\* terminated, and nothing in the program terminates it.)
FinishJavaScript ==
  /\ thread = "js"
  /\ thread' = IF scope.caller = "runScript" /\ scope.silent /\ ~v8Enabled
                 THEN "crashed" ELSE "loop"
  /\ v8Exceptions' = IF scope.silent /\ v8Enabled THEN scope.saved
                                                  ELSE v8Exceptions
  /\ scope' = NoScope
  /\ UNCHANGED <<sessionVars, quit, quitWhenIdle, mainPending, agentVars,
                 debugBreak, v8Step, breaksActive, stateExceptions, v8Paused,
                 skipAllPauses, lastEvent>>

-----------------------------------------------------------------------------
(* Breaks.                                                                 *)

Kinds == {"interrupt", "debugger", "step", "breakpoint", "exception"}
Tops  == {"user", "blackboxed", "none"}  \* the top call frame, if there is one

\* v8::Debug reports a break of this kind.  A function checks for a pending
\* request when it is entered, so before any other break of JavaScript that
\* has just been called.  Breakpoints, steps and exceptions end stepping; the
\* stack-guard interrupt and the debugger statement do not, but both clear a
\* pending request.
V8CanBreak(kind, top) ==
  /\ thread = "js" /\ v8Enabled
  /\ kind # "exception" => breaksActive
  /\ debugBreak /\ breaksActive /\ ~scope.stopped => kind = "interrupt"
  /\ top = "none" => kind \in {"interrupt", "step", "exception"}
  /\ kind = "interrupt" => debugBreak
  /\ kind = "step" => v8Step # "none"
  /\ kind = "exception" => v8Exceptions # "none"
ClearsRequest(kind)  == kind \in {"interrupt", "debugger"}
ClearsStepping(kind) == kind \in {"step", "breakpoint", "exception"}

\* shouldSkipExceptionPause
ShouldSkipExceptionPause(top) ==
  IF steppingFromFramework \/ top = "user" THEN "NoSkip" ELSE "Continue"

\* Mutant: one frame too many.
SkipOneStepMore(top) ==
  IF steppingFromFramework \/ top = "user" THEN "NoSkip"
  ELSE IF skippedStepFrameCount > MaxSkipStepFrameCount THEN "StepOut"
  ELSE "StepFrame"

\* shouldSkipStepPause
ShouldSkipStepPause(top) ==
  IF steppingFromFramework \/ top = "user" THEN "NoSkip"
  ELSE IF skippedStepFrameCount >= MaxSkipStepFrameCount THEN "StepOut"
  ELSE "StepFrame"

\* The SkipPauseRequest that didPause returns.
SkipPauseRequest(kind, top) ==
  LET request ==
        IF skipAllPauses               THEN "Continue"
        ELSE IF kind = "breakpoint"    THEN "NoSkip"
        ELSE IF kind = "exception"     THEN ShouldSkipExceptionPause(top)
        ELSE IF scheduledStep # "NoStep" \/ pauseScheduled
                                       THEN ShouldSkipStepPause(top)
        ELSE "NoSkip"
  IN  IF request = "NoSkip" /\ top = "none" THEN "Continue" ELSE request

\* Mutant: the pause request outlives the pause it asked for.
PauseKeepsRequest ==
  /\ pausedScriptState' = TRUE /\ lastEvent' = "paused"
  /\ scheduledStep' = "NoStep" /\ steppingFromFramework' = FALSE
  /\ skippedStepFrameCount' = 0 /\ continueToLocation' = FALSE
  /\ UNCHANGED pauseScheduled

\* The rest of didPause for a break that is not skipped.
PauseAgent ==
  /\ pausedScriptState' = TRUE
  /\ lastEvent' = "paused"
  /\ scheduledStep' = "NoStep"
  /\ pauseScheduled' = FALSE
  /\ steppingFromFramework' = FALSE
  /\ skippedStepFrameCount' = 0
  /\ continueToLocation' = FALSE

\* Mutant: the client is not told.
ContinueSilently == pausedScriptState' = FALSE /\ UNCHANGED lastEvent

\* didContinue
DidContinue ==
  /\ pausedScriptState' = FALSE
  /\ lastEvent' = "resumed"

\* V8Debugger::handleProgramBreak with didPause inside: the program stops ...
BreakAndPause(kind, top) ==
  /\ V8CanBreak(kind, top) /\ listener
  /\ SkipPauseRequest(kind, top) = "NoSkip"
  /\ debugBreak' = (debugBreak /\ ~ClearsRequest(kind))
  /\ v8Step' = IF ClearsStepping(kind) THEN "none" ELSE v8Step
  /\ PauseAgent
  /\ v8Paused' = TRUE
  /\ thread' = "nested"
  /\ scope' = [scope EXCEPT !.stopped = TRUE]
  /\ UNCHANGED <<sessionVars, quit, quitWhenIdle, mainPending,
                 v8Exceptions, breaksActive, stateExceptions, skipAllPauses>>

\* ... or the break is skipped, V8 being told to go on, to step frame by frame
\* out of blackboxed code, or out of the current function.
BreakAndSkip(kind, top) ==
  /\ V8CanBreak(kind, top) /\ listener
  /\ LET request == SkipPauseRequest(kind, top) IN
       /\ request # "NoSkip"
       /\ debugBreak' = (debugBreak /\ ~ClearsRequest(kind))
       /\ v8Step' = CASE request = "StepFrame" -> "frame"
                      [] request = "StepOut" -> "out"
                      [] OTHER -> IF ClearsStepping(kind) THEN "none" ELSE v8Step
       /\ skippedStepFrameCount' = IF request = "StepFrame"
                                     THEN skippedStepFrameCount + 1
                                     ELSE skippedStepFrameCount
  /\ UNCHANGED <<sessionVars, loopVars, pausedScriptState, scheduledStep,
                 pauseScheduled, steppingFromFramework, continueToLocation,
                 v8Exceptions, breaksActive, stateExceptions, v8Paused,
                 skipAllPauses, lastEvent>>

\* Mutant: the listener of before the loop is called, removed or not.
LeaveWithoutListener ==
  /\ thread = "nested" /\ (quit \/ quitWhenIdle)
  /\ DidContinue
  /\ v8Paused' = FALSE /\ thread' = "js" /\ quit' = FALSE /\ quitWhenIdle' = FALSE
  /\ UNCHANGED <<sessionVars, scope, mainPending, scheduledStep,
                 pauseScheduled, steppingFromFramework, skippedStepFrameCount,
                 continueToLocation, v8Vars, stateExceptions, skipAllPauses>>

\* WorkerThreadDebugger::runMessageLoopOnPause and the end of
\* handleProgramBreak: the nested loop returns and the agent, if it is still
\* listening, tells the client.
LeaveNestedLoop ==
  /\ thread = "nested" /\ (quit \/ quitWhenIdle)
  /\ IF listener THEN DidContinue ELSE UNCHANGED <<pausedScriptState, lastEvent>>
  /\ v8Paused' = FALSE
  /\ thread' = "js"
  /\ quit' = FALSE /\ quitWhenIdle' = FALSE
  /\ UNCHANGED <<sessionVars, scope, mainPending, scheduledStep,
                 pauseScheduled, steppingFromFramework, skippedStepFrameCount,
                 continueToLocation, v8Vars, stateExceptions, skipAllPauses>>

-----------------------------------------------------------------------------
Command ==
  \/ Enable \/ Disable
  \/ Pause \/ Resume
  \/ \E blackboxed \in BOOLEAN : \/ StepInto(blackboxed)
                                 \/ StepOver(blackboxed)
                                 \/ StepOut(blackboxed)
  \/ \E location \in {"malformed", "unresolved", "resolved"} :
       ContinueToLocation(location)
  \/ \E b \in BOOLEAN : \/ SetSkipAllPauses(b)
                        \/ SetBreakpointsActive(b)
                        \/ Evaluate(b)
                        \/ RunScript(b)
                        \/ RunUnknownScript(b)
                        \/ EvaluateOnCallFrame(b)
  \/ \E e \in Exceptions : SetPauseOnExceptions(e)

Program ==
  \/ RunMainTask
  \/ \E b \in BOOLEAN : RunMainTaskInStop(b)
  \/ FinishJavaScript
  \/ \E kind \in Kinds, top \in Tops : \/ BreakAndPause(kind, top)
                                       \/ BreakAndSkip(kind, top)
  \/ LeaveNestedLoop

Next == ConnectFrontend \/ DisconnectFrontend \/ Command \/ Program

\* QuitNow makes the pump return after the current task, whatever else is
\* queued.  Nothing else is promised: the client may never resume, and a loop
\* told to quit when idle may never be idle.
Fairness == WF_vars(quit /\ LeaveNestedLoop)

Spec == Init /\ [][Next]_vars /\ Fairness

-----------------------------------------------------------------------------
(* Properties.                                                             *)

\* The type of the state: flags, and the rest.
FlagsOK ==
  /\ frontend \in BOOLEAN /\ debuggerEnabled \in BOOLEAN
  /\ listener \in BOOLEAN /\ v8Enabled \in BOOLEAN
  /\ quit \in BOOLEAN /\ quitWhenIdle \in BOOLEAN /\ mainPending \in BOOLEAN
  /\ pausedScriptState \in BOOLEAN /\ v8Paused \in BOOLEAN
  /\ pauseScheduled \in BOOLEAN /\ steppingFromFramework \in BOOLEAN
  /\ skipAllPauses \in BOOLEAN /\ continueToLocation \in BOOLEAN
  /\ debugBreak \in BOOLEAN /\ breaksActive \in BOOLEAN
  /\ overridden \in BOOLEAN

ValuesOK ==
  /\ thread \in Threads /\ scope \in Scopes
  /\ scheduledStep \in Steps /\ v8Step \in V8Steps
  /\ stateExceptions \in Exceptions /\ v8Exceptions \in Exceptions
  /\ lastEvent \in Events
  /\ skippedStepFrameCount \in 0..MaxSkipStepFrameCount

TypeOK == FlagsOK /\ ValuesOK

\* The four layers agree on whether the program is stopped.  While the nested
\* loop waits for a command, the agent and V8Debugger both hold the paused
\* script state, and there is an enabled agent with a front-end to let the
\* program go; outside the nested loop neither holds it, so that the ASSERT of
\* didPause holds and no command is refused or accepted by mistake.
PausedTogether ==
  /\ thread = "nested" /\ ~quit =>
       pausedScriptState /\ v8Paused /\ listener /\ v8Enabled /\ frontend
  /\ thread # "nested" => ~pausedScriptState /\ ~v8Paused /\ ~quit

\* What the client was last told is what is so: since it enabled the debugger,
\* its last event is "paused" exactly while the agent accepts resume and steps.
ClientKnows == debuggerEnabled => (lastEvent = "paused" <=> pausedScriptState)

\* A stop starts afresh: while the program waits, no step and no pause request
\* from before the stop is left to distort the skip decision of the next break.
StopsAreFresh ==
  thread = "nested" /\ ~quit =>
    /\ scheduledStep = "NoStep" /\ ~pauseScheduled /\ ~steppingFromFramework
    /\ ~continueToLocation /\ skippedStepFrameCount = 0

\* disable() ends the pause core's part of the session, also when it comes from
\* a disconnect in the middle of a stop: nobody listens, nothing is paused, and
\* no step, pause request or exception setting of this client is left for the
\* next one.  (Not so V8's DEBUGBREAK request and, as it is accepted while
\* disabled, skipAllPauses.  Nor does the statement reach past the pause core:
\* clear() also leaves the blackbox pattern, the edited scripts,
\* m_serverBreakpoints and the promise tracker's switch as they are.)
NothingOutlivesDisable ==
  ~debuggerEnabled =>
    /\ ~listener /\ ~v8Enabled /\ ~pausedScriptState /\ ~v8Paused
    /\ scheduledStep = "NoStep" /\ ~pauseScheduled /\ ~steppingFromFramework
    /\ ~continueToLocation /\ skippedStepFrameCount = 0
    /\ v8Step = "none" /\ stateExceptions = "none"

\* V8 breaks on the exceptions that the client asked for.  Silent calls turn
\* these breaks off and on again; what they write back is what the client set,
\* through stops, disable, disconnect and the next client's enable, except after
\* three things: the client changes the setting while a silent call is stopped,
\* enables the debugger in such a stop, or runs a script that does not exist.
ExceptionsAsAsked ==
  debuggerEnabled /\ ~scope.silent /\ ~overridden =>
    v8Exceptions = stateExceptions

\* Debugger events are sent only to a connected client that has the debugger
\* enabled: didPause and didContinue use frontend() without a null check, and
\* didContinue runs after whatever ended the nested loop.
EventsNeedListener ==
  [][lastEvent' # lastEvent => frontend' /\ debuggerEnabled']_vars

\* The program is never kept in a nested loop that no command can end: when
\* the client disables, disconnects, resumes or steps, the loop is left.
StopsEnd ==
  (thread = "nested" /\ ~(frontend /\ pausedScriptState /\ v8Paused))
    ~> (thread = "js")

\* What makes the above inductive: the three places that remember "enabled"
\* agree and imply a front-end; only the nested loop is ever told to quit, and
\* QuitNow comes after V8Debugger forgot the paused state, so that the agent
\* still holds it exactly if it is still enabled.
LayersAgree ==
  /\ listener = debuggerEnabled /\ v8Enabled = debuggerEnabled
  /\ debuggerEnabled => frontend
  /\ quitWhenIdle => thread = "nested"
  /\ quit => ~v8Paused /\ pausedScriptState = debuggerEnabled

\* A silent call, of which there is none outside JavaScript, will write back
\* what the client set.
WritesBack ==
  /\ debuggerEnabled /\ scope.silent /\ ~overridden => scope.saved = stateExceptions
  /\ thread = "loop" => ~scope.silent

\* The inductive invariant.
IndInv ==
  /\ TypeOK /\ LayersAgree /\ PausedTogether /\ ClientKnows
  /\ StopsAreFresh /\ NothingOutlivesDisable
  /\ ExceptionsAsAsked /\ WritesBack

\* changeJavaScriptRecursionLevel: "Do not ever loose user's pause request
\* until we have actually paused."  A request that is still scheduled, and not
\* masked by skipAllPauses, is known to V8 as a pending break or step.
PauseRequestKept ==
  pauseScheduled /\ ~skipAllPauses => debugBreak \/ v8Step # "none"

\* V8Debugger::pauseOnExceptionsState: ASSERT(enabled()).
DebuggerUsedOnlyEnabled == thread # "crashed"

-----------------------------------------------------------------------------
(* The client's view as an abstract specification.                         *)

session == IF ~frontend              THEN "detached"
           ELSE IF ~debuggerEnabled  THEN "idle"
           ELSE IF pausedScriptState THEN "paused"
           ELSE "running"

Session == INSTANCE DebuggerSession WITH
             blocked <- (thread = "nested"), released <- quit

\* The backend implements the session it promises, step by step and including
\* that a released program goes on.
ImplementsSession == Session!Spec

=============================================================================
