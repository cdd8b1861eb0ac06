----------------------- MODULE InspectorDebugger_proofs -----------------------
(***************************************************************************)
(* Proofs about the pause core, for every MaxSkipStepFrameCount: IndInv is *)
(* an inductive invariant, the properties of InspectorDebugger follow from *)
(* it, and every step is a step of DebuggerSession or leaves it alone.     *)
(***************************************************************************)
EXTENDS InspectorDebugger, TLAPS

\* Building and marking the record of a JavaScript call keeps its type.
LEMMA NoScopeType == NoScope \in Scopes
  BY DEF NoScope, Scopes, Exceptions

LEMMA StoppedType ==
  ASSUME NEW s \in Scopes
  PROVE  [s EXCEPT !.stopped = TRUE] \in Scopes
  BY DEF Scopes

\* shouldSkipStepPause counts a skipped frame only below the limit.
LEMMA SkipCounts ==
  ASSUME NEW k, NEW t, skippedStepFrameCount \in Nat,
         SkipPauseRequest(k, t) = "StepFrame"
  PROVE  skippedStepFrameCount < MaxSkipStepFrameCount
  BY MaxSkipAssumption
  DEF SkipPauseRequest, ShouldSkipExceptionPause, ShouldSkipStepPause

LEMMA InitIndInv == Init => IndInv
<1> SUFFICES ASSUME Init PROVE IndInv
  OBVIOUS
<1>1. FlagsOK
  BY DEF Init, FlagsOK
<1>2. ValuesOK
  BY NoScopeType, MaxSkipAssumption
  DEF Init, ValuesOK, Exceptions, Steps, V8Steps, Threads, Events
<1>3. LayersAgree /\ PausedTogether /\ ClientKnows /\ StopsAreFresh
  BY DEF Init, LayersAgree, PausedTogether, ClientKnows, StopsAreFresh
<1>4. NothingOutlivesDisable
  BY DEF Init, NothingOutlivesDisable
<1>5. ExceptionsAsAsked /\ WritesBack
  BY DEF Init, NoScope, ExceptionsAsAsked, WritesBack
<1> QED  BY <1>1, <1>2, <1>3, <1>4, <1>5 DEF IndInv, TypeOK

\* Connecting, disconnecting, enabling and disabling.
LEMMA SessionSteps ==
  ASSUME IndInv,
         \/ ConnectFrontend
         \/ DisconnectFrontend
         \/ Enable
         \/ Disable
  PROVE  IndInv'
<1> USE MaxSkipAssumption DEF IndInv, TypeOK, LayersAgree, PausedTogether,
      sessionVars, loopVars, agentVars, v8Vars, CanDispatch, LoopRuns
<1>1. CASE ConnectFrontend
  <2>1. FlagsOK'
    BY <1>1 DEF FlagsOK, ConnectFrontend
  <2>2. ValuesOK'
    BY <1>1 DEF FlagsOK, ValuesOK, ConnectFrontend, Exceptions, Steps,
      V8Steps, Threads, Events
  <2>3. LayersAgree' /\ PausedTogether'
    BY <1>1 DEF FlagsOK, ConnectFrontend
  <2>4. ClientKnows' /\ StopsAreFresh' /\ NothingOutlivesDisable'
    BY <1>1 DEF FlagsOK, ClientKnows, StopsAreFresh, NothingOutlivesDisable,
      ConnectFrontend
  <2>5. ExceptionsAsAsked' /\ WritesBack'
    BY <1>1 DEF FlagsOK, ValuesOK, ExceptionsAsAsked, WritesBack,
      NothingOutlivesDisable, ConnectFrontend
  <2> QED  BY <2>1, <2>2, <2>3, <2>4, <2>5
<1>2. CASE DisconnectFrontend
  <2>1. FlagsOK'
    BY <1>2 DEF FlagsOK, DisconnectFrontend, DisableAgent, RemoveListener,
      ContinueProgram, ClearAgent
  <2>2. ValuesOK'
    BY <1>2 DEF FlagsOK, ValuesOK, DisconnectFrontend, DisableAgent,
      RemoveListener, ContinueProgram, ClearAgent, Exceptions, Steps, V8Steps, Threads, Events
  <2>3. LayersAgree' /\ PausedTogether'
    BY <1>2 DEF FlagsOK, DisconnectFrontend, DisableAgent, RemoveListener,
      ContinueProgram, ClearAgent
  <2>4. ClientKnows' /\ StopsAreFresh' /\ NothingOutlivesDisable'
    BY <1>2 DEF FlagsOK, ClientKnows, StopsAreFresh, NothingOutlivesDisable,
      DisconnectFrontend, DisableAgent, RemoveListener, ContinueProgram, ClearAgent
  <2>5. ExceptionsAsAsked' /\ WritesBack'
    BY <1>2 DEF FlagsOK, ValuesOK, ExceptionsAsAsked, WritesBack,
      NothingOutlivesDisable, DisconnectFrontend, DisableAgent,
      RemoveListener, ContinueProgram, ClearAgent
  <2> QED  BY <2>1, <2>2, <2>3, <2>4, <2>5
<1>3. CASE Enable
  <2>1. FlagsOK'
    BY <1>3 DEF FlagsOK, ValuesOK, Scopes, Enable, AddListener,
      SetBreakpointsActivated
  <2>2. ValuesOK'
    BY <1>3 DEF FlagsOK, ValuesOK, Enable, AddListener,
      SetPauseOnExceptionsState, SetBreakpointsActivated, Exceptions, Steps,
      V8Steps, Threads, Events
  <2>3. LayersAgree' /\ PausedTogether'
    BY <1>3 DEF FlagsOK, Enable, AddListener
  <2>4. ClientKnows' /\ StopsAreFresh' /\ NothingOutlivesDisable'
    BY <1>3 DEF FlagsOK, ClientKnows, StopsAreFresh, NothingOutlivesDisable,
      Enable, AddListener
  <2>5. ExceptionsAsAsked' /\ WritesBack'
    BY <1>3 DEF FlagsOK, ValuesOK, ExceptionsAsAsked, WritesBack,
      NothingOutlivesDisable, Enable, AddListener, SetPauseOnExceptionsState
  <2> QED  BY <2>1, <2>2, <2>3, <2>4, <2>5
<1>4. CASE Disable
  <2>1. FlagsOK'
    BY <1>4 DEF FlagsOK, Disable, DisableAgent, RemoveListener,
      ContinueProgram, ClearAgent
  <2>2. ValuesOK'
    BY <1>4 DEF FlagsOK, ValuesOK, Disable, DisableAgent, RemoveListener,
      ContinueProgram, ClearAgent, Exceptions, Steps, V8Steps, Threads, Events
  <2>3. LayersAgree' /\ PausedTogether'
    BY <1>4 DEF FlagsOK, Disable, DisableAgent, RemoveListener,
      ContinueProgram, ClearAgent
  <2>4. ClientKnows' /\ StopsAreFresh' /\ NothingOutlivesDisable'
    BY <1>4 DEF FlagsOK, ClientKnows, StopsAreFresh, NothingOutlivesDisable,
      Disable, DisableAgent, RemoveListener, ContinueProgram, ClearAgent
  <2>5. ExceptionsAsAsked' /\ WritesBack'
    BY <1>4 DEF FlagsOK, ValuesOK, ExceptionsAsAsked, WritesBack,
      NothingOutlivesDisable, Disable, DisableAgent, RemoveListener,
      ContinueProgram, ClearAgent
  <2> QED  BY <2>1, <2>2, <2>3, <2>4, <2>5
<1> QED  BY <1>1, <1>2, <1>3, <1>4

\* The commands that pause, resume, step and change settings.
LEMMA CommandSteps ==
  ASSUME IndInv,
         \/ Pause
         \/ Resume
         \/ (\E b \in BOOLEAN : StepInto(b))
         \/ (\E b \in BOOLEAN : StepOver(b))
         \/ (\E b \in BOOLEAN : StepOut(b))
         \/ (\E l \in {"malformed", "unresolved", "resolved"} : ContinueToLocation(l))
         \/ (\E b \in BOOLEAN : SetSkipAllPauses(b))
         \/ (\E b \in BOOLEAN : SetBreakpointsActive(b))
         \/ (\E e \in Exceptions : SetPauseOnExceptions(e))
         \/ (\E b \in BOOLEAN : RunUnknownScript(b))
         \/ (\E b \in BOOLEAN : EvaluateOnCallFrame(b))
  PROVE  IndInv'
<1> USE MaxSkipAssumption DEF IndInv, TypeOK, LayersAgree, PausedTogether,
      sessionVars, loopVars, agentVars, v8Vars, CanDispatch, LoopRuns
<1>1. CASE Pause
  <2>1. FlagsOK'
    BY <1>1 DEF FlagsOK, Pause
  <2>2. ValuesOK'
    BY <1>1 DEF FlagsOK, ValuesOK, Pause, Exceptions, Steps, V8Steps, Threads,
      Events
  <2>3. LayersAgree' /\ PausedTogether'
    BY <1>1 DEF FlagsOK, Pause
  <2>4. ClientKnows' /\ StopsAreFresh' /\ NothingOutlivesDisable'
    BY <1>1 DEF FlagsOK, ClientKnows, StopsAreFresh, NothingOutlivesDisable,
      Pause
  <2>5. ExceptionsAsAsked' /\ WritesBack'
    BY <1>1 DEF FlagsOK, ValuesOK, ExceptionsAsAsked, WritesBack,
      NothingOutlivesDisable, Pause
  <2> QED  BY <2>1, <2>2, <2>3, <2>4, <2>5
<1>2. CASE Resume
  <2>1. FlagsOK'
    BY <1>2 DEF FlagsOK, Resume, ContinueProgram
  <2>2. ValuesOK'
    BY <1>2 DEF FlagsOK, ValuesOK, Resume, ContinueProgram, Exceptions, Steps,
      V8Steps, Threads, Events
  <2>3. LayersAgree' /\ PausedTogether'
    BY <1>2 DEF FlagsOK, Resume, ContinueProgram
  <2>4. ClientKnows' /\ StopsAreFresh' /\ NothingOutlivesDisable'
    BY <1>2 DEF FlagsOK, ClientKnows, StopsAreFresh, NothingOutlivesDisable,
      Resume, ContinueProgram
  <2>5. ExceptionsAsAsked' /\ WritesBack'
    BY <1>2 DEF FlagsOK, ValuesOK, ExceptionsAsAsked, WritesBack,
      NothingOutlivesDisable, Resume, ContinueProgram
  <2> QED  BY <2>1, <2>2, <2>3, <2>4, <2>5
<1>3. ASSUME NEW b \in BOOLEAN, StepInto(b)
     PROVE  IndInv'
  <2>1. FlagsOK'
    BY <1>3 DEF FlagsOK, StepInto, StepCommand, ContinueProgram
  <2>2. ValuesOK'
    BY <1>3 DEF FlagsOK, ValuesOK, StepInto, StepCommand, ContinueProgram,
      Exceptions, Steps, V8Steps, Threads, Events
  <2>3. LayersAgree' /\ PausedTogether'
    BY <1>3 DEF FlagsOK, StepInto, StepCommand, ContinueProgram
  <2>4. ClientKnows' /\ StopsAreFresh' /\ NothingOutlivesDisable'
    BY <1>3 DEF FlagsOK, ClientKnows, StopsAreFresh, NothingOutlivesDisable,
      StepInto, StepCommand, ContinueProgram
  <2>5. ExceptionsAsAsked' /\ WritesBack'
    BY <1>3 DEF FlagsOK, ValuesOK, ExceptionsAsAsked, WritesBack,
      NothingOutlivesDisable, StepInto, StepCommand, ContinueProgram
  <2> QED  BY <2>1, <2>2, <2>3, <2>4, <2>5
<1>4. ASSUME NEW b \in BOOLEAN, StepOver(b)
     PROVE  IndInv'
  <2>1. FlagsOK'
    BY <1>4 DEF FlagsOK, StepOver, StepCommand, ContinueProgram
  <2>2. ValuesOK'
    BY <1>4 DEF FlagsOK, ValuesOK, StepOver, StepCommand, ContinueProgram,
      Exceptions, Steps, V8Steps, Threads, Events
  <2>3. LayersAgree' /\ PausedTogether'
    BY <1>4 DEF FlagsOK, StepOver, StepCommand, ContinueProgram
  <2>4. ClientKnows' /\ StopsAreFresh' /\ NothingOutlivesDisable'
    BY <1>4 DEF FlagsOK, ClientKnows, StopsAreFresh, NothingOutlivesDisable,
      StepOver, StepCommand, ContinueProgram
  <2>5. ExceptionsAsAsked' /\ WritesBack'
    BY <1>4 DEF FlagsOK, ValuesOK, ExceptionsAsAsked, WritesBack,
      NothingOutlivesDisable, StepOver, StepCommand, ContinueProgram
  <2> QED  BY <2>1, <2>2, <2>3, <2>4, <2>5
<1>5. ASSUME NEW b \in BOOLEAN, StepOut(b)
     PROVE  IndInv'
  <2>1. FlagsOK'
    BY <1>5 DEF FlagsOK, StepOut, StepCommand, ContinueProgram
  <2>2. ValuesOK'
    BY <1>5 DEF FlagsOK, ValuesOK, StepOut, StepCommand, ContinueProgram,
      Exceptions, Steps, V8Steps, Threads, Events
  <2>3. LayersAgree' /\ PausedTogether'
    BY <1>5 DEF FlagsOK, StepOut, StepCommand, ContinueProgram
  <2>4. ClientKnows' /\ StopsAreFresh' /\ NothingOutlivesDisable'
    BY <1>5 DEF FlagsOK, ClientKnows, StopsAreFresh, NothingOutlivesDisable,
      StepOut, StepCommand, ContinueProgram
  <2>5. ExceptionsAsAsked' /\ WritesBack'
    BY <1>5 DEF FlagsOK, ValuesOK, ExceptionsAsAsked, WritesBack,
      NothingOutlivesDisable, StepOut, StepCommand, ContinueProgram
  <2> QED  BY <2>1, <2>2, <2>3, <2>4, <2>5
<1>6. ASSUME NEW l \in {"malformed", "unresolved", "resolved"}, ContinueToLocation(l)
     PROVE  IndInv'
  <2>1. FlagsOK'
    BY <1>6 DEF FlagsOK, ContinueToLocation, ContinueProgram
  <2>2. ValuesOK'
    BY <1>6 DEF FlagsOK, ValuesOK, ContinueToLocation, ContinueProgram,
      Exceptions, Steps, V8Steps, Threads, Events
  <2>3. LayersAgree' /\ PausedTogether'
    BY <1>6 DEF FlagsOK, ContinueToLocation, ContinueProgram
  <2>4. ClientKnows' /\ StopsAreFresh' /\ NothingOutlivesDisable'
    BY <1>6 DEF FlagsOK, ClientKnows, StopsAreFresh, NothingOutlivesDisable,
      ContinueToLocation, ContinueProgram
  <2>5. ExceptionsAsAsked' /\ WritesBack'
    BY <1>6 DEF FlagsOK, ValuesOK, ExceptionsAsAsked, WritesBack,
      NothingOutlivesDisable, ContinueToLocation, ContinueProgram
  <2> QED  BY <2>1, <2>2, <2>3, <2>4, <2>5
<1>7. ASSUME NEW b \in BOOLEAN, SetSkipAllPauses(b)
     PROVE  IndInv'
  <2>1. FlagsOK'
    BY <1>7 DEF FlagsOK, SetSkipAllPauses
  <2>2. ValuesOK'
    BY <1>7 DEF FlagsOK, ValuesOK, SetSkipAllPauses, Exceptions, Steps,
      V8Steps, Threads, Events
  <2>3. LayersAgree' /\ PausedTogether'
    BY <1>7 DEF FlagsOK, SetSkipAllPauses
  <2>4. ClientKnows' /\ StopsAreFresh' /\ NothingOutlivesDisable'
    BY <1>7 DEF FlagsOK, ClientKnows, StopsAreFresh, NothingOutlivesDisable,
      SetSkipAllPauses
  <2>5. ExceptionsAsAsked' /\ WritesBack'
    BY <1>7 DEF FlagsOK, ValuesOK, ExceptionsAsAsked, WritesBack,
      NothingOutlivesDisable, SetSkipAllPauses
  <2> QED  BY <2>1, <2>2, <2>3, <2>4, <2>5
<1>8. ASSUME NEW b \in BOOLEAN, SetBreakpointsActive(b)
     PROVE  IndInv'
  <2>1. FlagsOK'
    BY <1>8 DEF FlagsOK, SetBreakpointsActive, SetBreakpointsActivated
  <2>2. ValuesOK'
    BY <1>8 DEF FlagsOK, ValuesOK, SetBreakpointsActive, Exceptions, Steps,
      V8Steps, Threads, Events
  <2>3. LayersAgree' /\ PausedTogether'
    BY <1>8 DEF FlagsOK, SetBreakpointsActive
  <2>4. ClientKnows' /\ StopsAreFresh' /\ NothingOutlivesDisable'
    BY <1>8 DEF FlagsOK, ClientKnows, StopsAreFresh, NothingOutlivesDisable,
      SetBreakpointsActive
  <2>5. ExceptionsAsAsked' /\ WritesBack'
    BY <1>8 DEF FlagsOK, ValuesOK, ExceptionsAsAsked, WritesBack,
      NothingOutlivesDisable, SetBreakpointsActive
  <2> QED  BY <2>1, <2>2, <2>3, <2>4, <2>5
<1>9. ASSUME NEW e \in Exceptions, SetPauseOnExceptions(e)
     PROVE  IndInv'
  <2>1. FlagsOK'
    BY <1>9 DEF FlagsOK, ValuesOK, Scopes, SetPauseOnExceptions
  <2>2. ValuesOK'
    BY <1>9 DEF FlagsOK, ValuesOK, SetPauseOnExceptions,
      SetPauseOnExceptionsState, Exceptions, Steps, V8Steps, Threads, Events
  <2>3. LayersAgree' /\ PausedTogether'
    BY <1>9 DEF FlagsOK, SetPauseOnExceptions
  <2>4. ClientKnows' /\ StopsAreFresh' /\ NothingOutlivesDisable'
    BY <1>9 DEF FlagsOK, ClientKnows, StopsAreFresh, NothingOutlivesDisable,
      SetPauseOnExceptions
  <2>5. ExceptionsAsAsked' /\ WritesBack'
    BY <1>9 DEF FlagsOK, ValuesOK, ExceptionsAsAsked, WritesBack,
      NothingOutlivesDisable, SetPauseOnExceptions, SetPauseOnExceptionsState
  <2> QED  BY <2>1, <2>2, <2>3, <2>4, <2>5
<1>10. ASSUME NEW b \in BOOLEAN, RunUnknownScript(b)
     PROVE  IndInv'
  <2>1. FlagsOK'
    BY <1>10 DEF FlagsOK, RunUnknownScript
  <2>2. ValuesOK'
    BY <1>10 DEF FlagsOK, ValuesOK, RunUnknownScript, Exceptions, Steps,
      V8Steps, Threads, Events
  <2>3. LayersAgree' /\ PausedTogether'
    BY <1>10 DEF FlagsOK, RunUnknownScript
  <2>4. ClientKnows' /\ StopsAreFresh' /\ NothingOutlivesDisable'
    BY <1>10 DEF FlagsOK, ClientKnows, StopsAreFresh, NothingOutlivesDisable,
      RunUnknownScript
  <2>5. ExceptionsAsAsked' /\ WritesBack'
    BY <1>10 DEF FlagsOK, ValuesOK, ExceptionsAsAsked, WritesBack,
      NothingOutlivesDisable, RunUnknownScript
  <2> QED  BY <2>1, <2>2, <2>3, <2>4, <2>5
<1>11. ASSUME NEW b \in BOOLEAN, EvaluateOnCallFrame(b)
     PROVE  IndInv'
  <2>1. FlagsOK'
    BY <1>11 DEF FlagsOK, EvaluateOnCallFrame
  <2>2. ValuesOK'
    BY <1>11 DEF FlagsOK, ValuesOK, EvaluateOnCallFrame, Exceptions, Steps,
      V8Steps, Threads, Events
  <2>3. LayersAgree' /\ PausedTogether'
    BY <1>11 DEF FlagsOK, EvaluateOnCallFrame
  <2>4. ClientKnows' /\ StopsAreFresh' /\ NothingOutlivesDisable'
    BY <1>11 DEF FlagsOK, ClientKnows, StopsAreFresh, NothingOutlivesDisable,
      EvaluateOnCallFrame
  <2>5. ExceptionsAsAsked' /\ WritesBack'
    BY <1>11 DEF FlagsOK, ValuesOK, ExceptionsAsAsked, WritesBack,
      NothingOutlivesDisable, EvaluateOnCallFrame
  <2> QED  BY <2>1, <2>2, <2>3, <2>4, <2>5
<1> QED  BY <1>1, <1>2, <1>3, <1>4, <1>5, <1>6, <1>7, <1>8, <1>9, <1>10, <1>11

\* Entering and leaving JavaScript, breaks and the nested loop.
LEMMA ProgramSteps ==
  ASSUME IndInv,
         \/ RunMainTask
         \/ (\E b \in BOOLEAN : RunMainTaskInStop(b))
         \/ (\E b \in BOOLEAN : Evaluate(b))
         \/ (\E b \in BOOLEAN : RunScript(b))
         \/ FinishJavaScript
         \/ (\E k \in Kinds, t \in Tops : BreakAndPause(k, t))
         \/ (\E k \in Kinds, t \in Tops : BreakAndSkip(k, t))
         \/ LeaveNestedLoop
  PROVE  IndInv'
<1> USE MaxSkipAssumption DEF IndInv, TypeOK, LayersAgree, PausedTogether,
      sessionVars, loopVars, agentVars, v8Vars, CanDispatch, LoopRuns
<1>1. CASE RunMainTask
  <2>1. FlagsOK'
    BY <1>1 DEF FlagsOK, RunMainTask
  <2>2. ValuesOK'
    BY <1>1 DEF FlagsOK, ValuesOK, RunMainTask, Exceptions, Steps, V8Steps,
      Threads, Events, Scopes, NoScope
  <2>3. LayersAgree' /\ PausedTogether'
    BY <1>1 DEF FlagsOK, RunMainTask
  <2>4. ClientKnows' /\ StopsAreFresh' /\ NothingOutlivesDisable'
    BY <1>1 DEF FlagsOK, ClientKnows, StopsAreFresh, NothingOutlivesDisable,
      RunMainTask
  <2>5. ExceptionsAsAsked' /\ WritesBack'
    BY <1>1 DEF FlagsOK, ValuesOK, ExceptionsAsAsked, WritesBack,
      NothingOutlivesDisable, RunMainTask
  <2> QED  BY <2>1, <2>2, <2>3, <2>4, <2>5
<1>2. ASSUME NEW b \in BOOLEAN, Evaluate(b)
     PROVE  IndInv'
  <2>1. FlagsOK'
    BY <1>2 DEF FlagsOK, Evaluate, CallJavaScript
  <2>2. ValuesOK'
    BY <1>2 DEF FlagsOK, ValuesOK, Evaluate, CallJavaScript, Exceptions,
      Steps, V8Steps, Threads, Events, Scopes, NoScope
  <2>3. LayersAgree' /\ PausedTogether'
    BY <1>2 DEF FlagsOK, Evaluate, CallJavaScript
  <2>4. ClientKnows' /\ StopsAreFresh' /\ NothingOutlivesDisable'
    BY <1>2 DEF FlagsOK, ClientKnows, StopsAreFresh, NothingOutlivesDisable,
      Evaluate, CallJavaScript
  <2>5. ExceptionsAsAsked' /\ WritesBack'
    BY <1>2 DEF FlagsOK, ValuesOK, ExceptionsAsAsked, WritesBack,
      NothingOutlivesDisable, Evaluate, CallJavaScript
  <2> QED  BY <2>1, <2>2, <2>3, <2>4, <2>5
<1>3. ASSUME NEW b \in BOOLEAN, RunScript(b)
     PROVE  IndInv'
  <2>1. FlagsOK'
    BY <1>3 DEF FlagsOK, RunScript, CallJavaScript
  <2>2. ValuesOK'
    BY <1>3 DEF FlagsOK, ValuesOK, RunScript, CallJavaScript, Exceptions,
      Steps, V8Steps, Threads, Events, Scopes, NoScope
  <2>3. LayersAgree' /\ PausedTogether'
    BY <1>3 DEF FlagsOK, RunScript, CallJavaScript
  <2>4. ClientKnows' /\ StopsAreFresh' /\ NothingOutlivesDisable'
    BY <1>3 DEF FlagsOK, ClientKnows, StopsAreFresh, NothingOutlivesDisable,
      RunScript, CallJavaScript
  <2>5. ExceptionsAsAsked' /\ WritesBack'
    BY <1>3 DEF FlagsOK, ValuesOK, ExceptionsAsAsked, WritesBack,
      NothingOutlivesDisable, RunScript, CallJavaScript
  <2> QED  BY <2>1, <2>2, <2>3, <2>4, <2>5
<1>4. CASE FinishJavaScript
  <2>1. FlagsOK'
    BY <1>4 DEF FlagsOK, FinishJavaScript
  <2>2. ValuesOK'
    BY <1>4 DEF FlagsOK, ValuesOK, FinishJavaScript, Exceptions, Steps,
      V8Steps, Threads, Events, Scopes, NoScope
  <2>3. LayersAgree' /\ PausedTogether'
    BY <1>4 DEF FlagsOK, FinishJavaScript
  <2>4. ClientKnows' /\ StopsAreFresh' /\ NothingOutlivesDisable'
    BY <1>4 DEF FlagsOK, ClientKnows, StopsAreFresh, NothingOutlivesDisable,
      FinishJavaScript
  <2>5. ExceptionsAsAsked' /\ WritesBack'
    BY <1>4 DEF FlagsOK, ValuesOK, ExceptionsAsAsked, WritesBack,
      NothingOutlivesDisable, FinishJavaScript, NoScope
  <2> QED  BY <2>1, <2>2, <2>3, <2>4, <2>5
<1>5. ASSUME NEW k \in Kinds, NEW t \in Tops, BreakAndPause(k, t)
     PROVE  IndInv'
  <2>1. FlagsOK'
    BY <1>5 DEF FlagsOK, BreakAndPause, PauseAgent, V8CanBreak
  <2>2. ValuesOK'
    BY <1>5, StoppedType
    DEF ValuesOK, BreakAndPause, PauseAgent, Steps, V8Steps, Threads, Events
  <2>3. LayersAgree' /\ PausedTogether'
    BY <1>5 DEF FlagsOK, BreakAndPause, PauseAgent, V8CanBreak
  <2>4. ClientKnows' /\ StopsAreFresh' /\ NothingOutlivesDisable'
    BY <1>5 DEF FlagsOK, ClientKnows, StopsAreFresh, NothingOutlivesDisable,
      BreakAndPause, PauseAgent, V8CanBreak
  <2>5. ExceptionsAsAsked' /\ WritesBack'
    BY <1>5 DEF FlagsOK, ValuesOK, ExceptionsAsAsked, WritesBack, Scopes,
      BreakAndPause, V8CanBreak
  <2> QED  BY <2>1, <2>2, <2>3, <2>4, <2>5
<1>6. ASSUME NEW k \in Kinds, NEW t \in Tops, BreakAndSkip(k, t)
     PROVE  IndInv'
  <2>1. FlagsOK'
    BY <1>6 DEF FlagsOK, BreakAndSkip, V8CanBreak
  <2>2. ValuesOK'
    <3>1. skippedStepFrameCount' \in 0..MaxSkipStepFrameCount
      BY <1>6, SkipCounts DEF ValuesOK, BreakAndSkip
    <3>2. v8Step' \in V8Steps
      BY <1>6 DEF ValuesOK, BreakAndSkip, V8Steps
    <3> QED  BY <1>6, <3>1, <3>2 DEF ValuesOK, BreakAndSkip
  <2>3. LayersAgree' /\ PausedTogether'
    BY <1>6 DEF FlagsOK, BreakAndSkip, V8CanBreak
  <2>4. ClientKnows' /\ StopsAreFresh' /\ NothingOutlivesDisable'
    BY <1>6 DEF FlagsOK, ClientKnows, StopsAreFresh, NothingOutlivesDisable,
      BreakAndSkip, V8CanBreak
  <2>5. ExceptionsAsAsked' /\ WritesBack'
    BY <1>6 DEF FlagsOK, ValuesOK, ExceptionsAsAsked, WritesBack,
      NothingOutlivesDisable, BreakAndSkip, V8CanBreak
  <2> QED  BY <2>1, <2>2, <2>3, <2>4, <2>5
<1>7. CASE LeaveNestedLoop
  <2>1. FlagsOK'
    BY <1>7 DEF FlagsOK, LeaveNestedLoop, DidContinue
  <2>2. ValuesOK'
    BY <1>7 DEF FlagsOK, ValuesOK, LeaveNestedLoop, DidContinue, Exceptions,
      Steps, V8Steps, Threads, Events, Scopes, NoScope
  <2>3. LayersAgree' /\ PausedTogether'
    BY <1>7 DEF FlagsOK, LeaveNestedLoop, DidContinue
  <2>4. ClientKnows' /\ StopsAreFresh' /\ NothingOutlivesDisable'
    BY <1>7 DEF FlagsOK, ClientKnows, StopsAreFresh, NothingOutlivesDisable,
      LeaveNestedLoop, DidContinue
  <2>5. ExceptionsAsAsked' /\ WritesBack'
    BY <1>7 DEF FlagsOK, ValuesOK, ExceptionsAsAsked, WritesBack,
      NothingOutlivesDisable, LeaveNestedLoop, DidContinue
  <2> QED  BY <2>1, <2>2, <2>3, <2>4, <2>5
<1>8. ASSUME NEW b \in BOOLEAN, RunMainTaskInStop(b)
     PROVE  IndInv'
  <2>1. FlagsOK'
    BY <1>8 DEF FlagsOK, RunMainTaskInStop
  <2>2. ValuesOK'
    BY <1>8 DEF FlagsOK, ValuesOK, RunMainTaskInStop, Exceptions, Steps,
      V8Steps, Threads, Events
  <2>3. LayersAgree' /\ PausedTogether'
    BY <1>8 DEF FlagsOK, RunMainTaskInStop
  <2>4. ClientKnows' /\ StopsAreFresh' /\ NothingOutlivesDisable'
    BY <1>8 DEF FlagsOK, ClientKnows, StopsAreFresh, NothingOutlivesDisable,
      RunMainTaskInStop
  <2>5. ExceptionsAsAsked' /\ WritesBack'
    BY <1>8 DEF FlagsOK, ValuesOK, ExceptionsAsAsked, WritesBack,
      NothingOutlivesDisable, RunMainTaskInStop
  <2> QED  BY <2>1, <2>2, <2>3, <2>4, <2>5
<1> QED  BY <1>1, <1>2, <1>3, <1>4, <1>5, <1>6, <1>7, <1>8
-----------------------------------------------------------------------------
LEMMA NextIndInv == IndInv /\ [Next]_vars => IndInv'
<1> SUFFICES ASSUME IndInv, [Next]_vars PROVE IndInv'
  OBVIOUS
<1>1. CASE ConnectFrontend \/ DisconnectFrontend
  BY <1>1, SessionSteps
<1>2. CASE Command
  BY <1>2, SessionSteps, CommandSteps, ProgramSteps DEF Command
<1>3. CASE Program
  BY <1>3, ProgramSteps DEF Program
<1>4. CASE UNCHANGED vars
  BY <1>4 DEF vars, sessionVars, loopVars, agentVars, v8Vars, IndInv, TypeOK,
     FlagsOK, ValuesOK, LayersAgree, PausedTogether, ClientKnows,
     StopsAreFresh, NothingOutlivesDisable, ExceptionsAsAsked, WritesBack
<1> QED  BY <1>1, <1>2, <1>3, <1>4 DEF Next

\* IndInv holds in every reachable state of the pause core.
THEOREM Invariance == Spec => []IndInv
  BY InitIndInv, NextIndInv, PTL DEF Spec

\* Every reachable state is well typed; in particular at most
\* MaxSkipStepFrameCount frames are skipped between two stops.
THEOREM TypeCorrect == Spec => []TypeOK
<1>1. IndInv => TypeOK
  BY DEF IndInv
<1> QED  BY <1>1, Invariance, PTL

\* The agent, V8Debugger, the message loop and the session agree on whether
\* the program is stopped.
THEOREM PausedTogetherAlways == Spec => []PausedTogether
<1>1. IndInv => PausedTogether
  BY DEF IndInv
<1> QED  BY <1>1, Invariance, PTL

\* An enabled client's last event says whether the program is stopped.
THEOREM ClientKnowsAlways == Spec => []ClientKnows
<1>1. IndInv => ClientKnows
  BY DEF IndInv
<1> QED  BY <1>1, Invariance, PTL

\* No request from before a stop survives it.
THEOREM StopsAreFreshAlways == Spec => []StopsAreFresh
<1>1. IndInv => StopsAreFresh
  BY DEF IndInv
<1> QED  BY <1>1, Invariance, PTL

\* A disabled agent is as good as new.
THEOREM NothingOutlivesDisableAlways == Spec => []NothingOutlivesDisable
<1>1. IndInv => NothingOutlivesDisable
  BY DEF IndInv
<1> QED  BY <1>1, Invariance, PTL

\* Unless the client did one of the three things that lose it, V8 breaks on the
\* exceptions the client asked for, outside silent calls.
THEOREM ExceptionsAsAskedAlways == Spec => []ExceptionsAsAsked
<1>1. IndInv => ExceptionsAsAsked
  BY DEF IndInv
<1> QED  BY <1>1, Invariance, PTL

-----------------------------------------------------------------------------
\* What each action does to the last event sent.
LEMMA EventSteps ==
  ASSUME IndInv, IndInv', Next, lastEvent' # lastEvent
  PROVE  frontend' /\ debuggerEnabled'
<1> USE DEF IndInv, TypeOK, FlagsOK, LayersAgree, sessionVars
<1>1. CASE ConnectFrontend \/ DisconnectFrontend
  BY <1>1 DEF ConnectFrontend, DisconnectFrontend
<1>2. CASE Command
  BY <1>2 DEF Command, CanDispatch, Enable, Disable, Pause, Resume, StepInto,
     StepOver, StepOut, StepCommand, ContinueToLocation, SetSkipAllPauses,
     SetBreakpointsActive, SetPauseOnExceptions, Evaluate, RunScript,
     CallJavaScript, RunUnknownScript, EvaluateOnCallFrame
<1>3. CASE Program
  BY <1>3 DEF Program, RunMainTask, RunMainTaskInStop, FinishJavaScript,
     BreakAndPause, BreakAndSkip, LeaveNestedLoop
<1> QED  BY <1>1, <1>2, <1>3 DEF Next

\* didPause and didContinue never reach a front-end that is gone.
THEOREM EventsNeedListenerAlways == Spec => EventsNeedListener
<1>1. IndInv /\ IndInv' /\ [Next]_vars =>
        [lastEvent' # lastEvent => frontend' /\ debuggerEnabled']_vars
  BY EventSteps
<1> QED  BY <1>1, Invariance, PTL DEF Spec, EventsNeedListener

-----------------------------------------------------------------------------
\* Where StopsEnd begins, in a stop that some layer has already left, QuitNow was
\* called, and nothing comes between that and the return of the nested loop: no
\* command, no connect or disconnect, no JavaScript.
QuitEndsStop ==
  [][thread = "nested" /\ ~(frontend /\ pausedScriptState /\ v8Paused)
       => (quit /\ LeaveNestedLoop) /\ thread' = "js"]_vars

LEMMA QuitSteps ==
  ASSUME IndInv, Next,
         thread = "nested", ~(frontend /\ pausedScriptState /\ v8Paused)
  PROVE  (quit /\ LeaveNestedLoop) /\ thread' = "js"
<1>1. quit /\ thread = "nested" /\ ~LoopRuns
  BY DEF IndInv, PausedTogether, LoopRuns
<1>2. ~ConnectFrontend /\ ~DisconnectFrontend
  BY <1>1 DEF ConnectFrontend, DisconnectFrontend
<1>3. ~Command
  BY <1>1 DEF Command, CanDispatch, Enable, Disable, Pause, Resume, StepInto,
     StepOver, StepOut, StepCommand, ContinueToLocation, SetSkipAllPauses,
     SetBreakpointsActive, SetPauseOnExceptions, Evaluate, RunScript,
     CallJavaScript, RunUnknownScript, EvaluateOnCallFrame
<1>4. Program => LeaveNestedLoop
  BY <1>1 DEF Program, RunMainTask, RunMainTaskInStop, FinishJavaScript,
     BreakAndPause, BreakAndSkip, V8CanBreak, LoopRuns
<1> QED  BY <1>1, <1>2, <1>3, <1>4 DEF Next, LeaveNestedLoop

\* The safety half of StopsEnd: a stop that its client left by a resume, a step,
\* disable or disconnect was told to quit, and its next step is the return of
\* runMessageLoopOnPause, the very step that Fairness promises.
THEOREM QuitEndsStopAlways == Spec => QuitEndsStop
<1>1. IndInv /\ [Next]_vars =>
        [thread = "nested" /\ ~(frontend /\ pausedScriptState /\ v8Paused)
           => (quit /\ LeaveNestedLoop) /\ thread' = "js"]_vars
  BY QuitSteps
<1> QED  BY <1>1, Invariance, PTL DEF Spec, QuitEndsStop

-----------------------------------------------------------------------------
(* The pause core implements DebuggerSession.                              *)

LEMMA SessionInit == Init => Session!Init
<1> SUFFICES ASSUME Init PROVE Session!Init
  OBVIOUS
<1>1. session = "detached"
  BY DEF Init, session
<1>2. (thread = "nested") = FALSE /\ quit = FALSE
  BY DEF Init
<1> QED  BY <1>1, <1>2 DEF Session!Init

\* Steps that leave the session, the nested loop and QuitNow alone.
LEMMA SessionStutters ==
  ASSUME UNCHANGED <<frontend, debuggerEnabled, pausedScriptState, thread, quit>>
  PROVE  UNCHANGED Session!vars
  BY DEF Session!vars, session

LEMMA RefinesSteps ==
  ASSUME IndInv, IndInv', Next
  PROVE  [Session!Next]_(Session!vars)
<1> USE DEF IndInv, TypeOK, FlagsOK, LayersAgree, PausedTogether, sessionVars,
      loopVars, agentVars, CanDispatch, LoopRuns
<1>1. ASSUME ConnectFrontend PROVE Session!Attach
  BY <1>1 DEF ConnectFrontend, Session!Attach, session
<1>2. ASSUME Enable PROVE Session!TurnOn
  BY <1>2 DEF Enable, Session!TurnOn, session
<1>3. ASSUME Disable PROVE Session!Leave("idle")
  BY <1>3 DEF Disable, DisableAgent, RemoveListener, ContinueProgram, ClearAgent,
     Session!Leave, session
<1>4. ASSUME DisconnectFrontend PROVE Session!Leave("detached")
  BY <1>4 DEF DisconnectFrontend, DisableAgent, RemoveListener, ContinueProgram, ClearAgent,
     Session!Leave, session
<1>5. ASSUME Resume \/ \E b \in BOOLEAN : StepInto(b) \/ StepOver(b) \/ StepOut(b)
      PROVE  Session!Release
  BY <1>5 DEF Resume, StepInto, StepOver, StepOut, StepCommand,
     ContinueProgram, Session!Release, session
<1>6. ASSUME NEW l, ContinueToLocation(l)
      PROVE  Session!Release \/ UNCHANGED Session!vars
  BY <1>6, SessionStutters DEF ContinueToLocation, ContinueProgram,
     Session!Release, session
<1>7. ASSUME NEW k, NEW t, BreakAndPause(k, t) PROVE Session!Stop
  BY <1>7 DEF BreakAndPause, PauseAgent, V8CanBreak, Session!Stop, session
<1>8. ASSUME LeaveNestedLoop PROVE Session!GoOn
  BY <1>8 DEF LeaveNestedLoop, DidContinue, Session!GoOn, session
<1>9. ASSUME \/ Pause \/ RunMainTask \/ FinishJavaScript
             \/ (\E b \in BOOLEAN : \/ SetSkipAllPauses(b) \/ Evaluate(b)
                                    \/ SetBreakpointsActive(b) \/ RunScript(b)
                                    \/ RunUnknownScript(b)
                                    \/ EvaluateOnCallFrame(b)
                                    \/ RunMainTaskInStop(b))
             \/ (\E e \in Exceptions : SetPauseOnExceptions(e))
             \/ (\E k \in Kinds, t \in Tops : BreakAndSkip(k, t))
      PROVE  UNCHANGED Session!vars
  BY <1>9 DEF Pause, RunMainTask, RunMainTaskInStop, FinishJavaScript,
     EvaluateOnCallFrame,
     SetSkipAllPauses, Evaluate, SetBreakpointsActive, RunScript,
     CallJavaScript, RunUnknownScript, SetPauseOnExceptions, BreakAndSkip,
     Session!vars, session
<1> QED
  BY <1>1, <1>2, <1>3, <1>4, <1>5, <1>6, <1>7, <1>8, <1>9
  DEF Next, Command, Program, Session!Next

\* The safety part of ImplementsSession: every behaviour of the pause core is,
\* seen by the client, a behaviour of DebuggerSession.
THEOREM Refinement ==
  Spec => Session!Init /\ [][Session!Next]_(Session!vars)
<1>1. IndInv /\ IndInv' /\ [Next]_vars => [Session!Next]_(Session!vars)
  <2> SUFFICES ASSUME IndInv, IndInv', [Next]_vars
               PROVE  [Session!Next]_(Session!vars)
    OBVIOUS
  <2>1. CASE UNCHANGED vars
    BY <2>1, SessionStutters DEF vars, sessionVars, loopVars, agentVars
  <2> QED  BY <2>1, RefinesSteps
<1> QED  BY <1>1, SessionInit, Invariance, PTL DEF Spec

=============================================================================
