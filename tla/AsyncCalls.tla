------------------------------ MODULE AsyncCalls ------------------------------
(***************************************************************************)
(* Async call tracking.  V8 reports the life of a microtask (enqueue,      *)
(* willHandle, didHandle); V8AsyncCallTracker keeps one async operation of *)
(* the agent for each, and the agent keeps, for every operation, the chain *)
(* of call stacks that led to it, whether the client has been told of it,  *)
(* and whether its callback is to be stopped in (an async breakpoint, or   *)
(* the target of stepIntoAsync).                                           *)
(*                                                                         *)
(* The handlers call each other, so that they are functions on the record  *)
(* agent.  Microtasks run when the script that created them has returned,  *)
(* oldest first, one at a time: m_nestedAsyncCallCount is 1 exactly while  *)
(* currentId is set, and V8RecursionScope's level is always 0.  V8 sends   *)
(* no task events from JavaScript evaluated while the program is stopped.  *)
(***************************************************************************)
EXTENDS Naturals, Sequences, FiniteSets, FiniteSetsExt, Functions

CONSTANTS
  MaxDepth,   \* bound: the depths a client sets
  MaxId,      \* the greatest operation id, 2^31 - 1 in the code
  MaxTasks    \* bound: microtasks in a behaviour

ASSUME AsyncBoundsAssumption ==
  MaxDepth \in Nat \ {0} /\ MaxId \in Nat \ {0} /\ MaxTasks \in Nat

VARIABLES
  enabled,    \* the debugger is enabled
  depth,      \* m_maxAsyncCallStackDepth
  agent,      \* the agent's async state, see AgentStates
  tasks,      \* m_v8AsyncOperations: the operations of microtasks
  queue,      \* V8's microtask queue
  lastTask,   \* lastMicrotaskId
  running,    \* what the JavaScript thread is executing
  paused      \* it is stopped in the nested loop

vars == <<enabled, depth, agent, tasks, queue, lastTask, running, paused>>

OpIds     == 1..MaxId
TaskIds   == 1..MaxTasks
UnknownId == 0                \* unknownAsyncOperationId

\* instrumented is V8's DEBUG_IS_ACTIVE when the microtask was created.
Microtasks == [id : TaskIds, instrumented : BOOLEAN]

\* The top-level loop, a script, the point between two microtasks, a microtask
\* that is reported and one that is not.
Callbacks == {"callback", "plainCallback"}
Activities == {"loop", "script", "checkpoint"} \cup Callbacks

\* ops maps an operation to the length of its chain, 0 without one; pausing,
\* starting and pausingOn are m_pausingAsyncOperations, m_startingStepIntoAsync
\* and m_pausingOnAsyncOperation; open is what the client has been told of and
\* not seen completed since tracking was turned on.
AgentStates ==
  [ops : UNION {[S -> 0..MaxDepth] : S \in SUBSET OpIds}, lastId : 0..MaxId,
   notifications : SUBSET OpIds, breakpoints : SUBSET OpIds,
   pausing : SUBSET OpIds, starting : BOOLEAN, pausingOn : BOOLEAN,
   currentId : 0..MaxId, currentChain : 0..MaxDepth, pending : BOOLEAN,
   scheduledStep : {"NoStep", "StepInto", "other"}, pauseScheduled : BOOLEAN,
   debugBreak : BOOLEAN, v8Step : BOOLEAN, open : SUBSET OpIds]

Init ==
  /\ enabled = FALSE /\ depth = 0
  /\ agent = [ops |-> << >>, lastId |-> 0, notifications |-> {},
              breakpoints |-> {}, pausing |-> {}, starting |-> FALSE,
              pausingOn |-> FALSE, currentId |-> UnknownId, currentChain |-> 0,
              pending |-> FALSE, scheduledStep |-> "NoStep",
              pauseScheduled |-> FALSE, debugBreak |-> FALSE, v8Step |-> FALSE,
              open |-> {}]
  /\ tasks = << >> /\ queue = << >> /\ lastTask = 0
  /\ running = "loop" /\ paused = FALSE

-----------------------------------------------------------------------------
(* The agent's handlers.                                                   *)

Tracking == depth > 0

ClearStepIntoAsync(a) ==
  [a EXCEPT !.starting = FALSE, !.pausingOn = FALSE, !.pausing = {}]

\* Mutant: the notifications are not cleared.
FlushKeepsNotifications(a) == [a EXCEPT !.open = @ \cup a.notifications]

\* flushAsyncOperationEvents.  Each operation has a call stack that converts: the
\* stacks kept in a chain are not empty and the one context stays valid.
FlushAsyncOperationEvents(a) ==
  [a EXCEPT !.open = @ \cup a.notifications, !.notifications = {}]

\* Mutant: one call stack too many.
ChainOneMore(a, hasFrames) ==
  IF hasFrames THEN 1 + Min({a.currentChain, depth})
               ELSE Min({a.currentChain, depth})

\* The AsyncCallChain of an operation started now: the call stack, if V8 has
\* one, on top of the current chain, as far as the depth allows.
ChainLength(a, hasFrames) ==
  IF hasFrames THEN 1 + Min({a.currentChain, depth - 1})
               ELSE Min({a.currentChain, depth})

\* Ids wrap around and skip the ones in use.
NextId(a) ==
  LET free  == OpIds \ DOMAIN a.ops
      later == {i \in free : i > a.lastId}
  IN  Min(IF later # {} THEN later ELSE free)

\* traceAsyncOperationStarting; the program is not stopped, so nothing is
\* flushed yet.
TraceAsyncOperationStarting(a, hasFrames) ==
  LET id    == NextId(a)
      chain == ChainLength(a, hasFrames)
      b     == [a EXCEPT
                  !.lastId = id,
                  !.ops = [i \in DOMAIN a.ops \cup {id} |->
                             IF i = id THEN chain ELSE a.ops[i]],
                  !.notifications = IF chain > 0 THEN @ \cup {id} ELSE @]
  IN  IF b.starting
        THEN [b EXCEPT !.pausing = @ \cup {id}, !.starting = FALSE,
                       !.scheduledStep = "NoStep", !.v8Step = FALSE]
      ELSE IF b.pausingOn THEN [b EXCEPT !.pausing = @ \cup {id}]
      ELSE b

\* traceAsyncOperationCompleted: delayed while the operation's callback runs.
\* The client is told, unless it has not been told of the operation either.
TraceAsyncOperationCompleted(a, id) ==
  IF a.currentId = id /\ ~a.pending
    THEN [a EXCEPT !.pending = TRUE]
    ELSE LET b == [a EXCEPT
                     !.pending = @ /\ a.currentId # id,
                     !.ops = Restrict(@, DOMAIN @ \ {id}),
                     !.breakpoints = @ \ {id}, !.pausing = @ \ {id},
                     !.open = IF id \in a.notifications THEN @ ELSE @ \ {id},
                     !.notifications = @ \ {id}]
         IN  IF b.starting /\ ~b.pausingOn /\ b.pausing = {}
               THEN ClearStepIntoAsync(b) ELSE b

ClearCurrentAsyncOperation(a) ==
  LET b == IF a.pending /\ a.currentId # UnknownId
             THEN TraceAsyncOperationCompleted(a, a.currentId) ELSE a
  IN  [b EXCEPT !.currentId = UnknownId, !.currentChain = 0, !.pending = FALSE]

\* traceAsyncCallbackStarting, when no chain is current (see CurrentIsRunning).
\* A callback to stop in is stopped in at its first statement.
TraceAsyncCallbackStarting(a, id) ==
  IF id \notin DOMAIN a.ops \/ a.ops[id] = 0 THEN a
  ELSE LET b == [a EXCEPT !.currentId = id, !.currentChain = a.ops[id],
                          !.pending = FALSE]
       IN  IF id \in a.pausing \cup a.breakpoints
             THEN [b EXCEPT !.pausingOn = TRUE, !.scheduledStep = "StepInto",
                            !.debugBreak = TRUE]
             ELSE b

\* Mutants: the current operation is completed and not forgotten; a step into
\* async that found nothing is not given up.
CompletedKeepsCurrent(a) ==
  IF a.currentId = UnknownId THEN a
  ELSE [a EXCEPT !.pausingOn = FALSE]

CompletedKeepsStarting(a) ==
  IF a.currentId = UnknownId THEN a
  ELSE LET b == ClearCurrentAsyncOperation(a)
       IN  IF ~b.pausingOn THEN b
           ELSE [b EXCEPT !.pausingOn = FALSE, !.scheduledStep = "NoStep",
                          !.debugBreak = FALSE]

\* traceAsyncCallbackCompleted: a stop that was meant for this callback, and
\* has not happened, is withdrawn.
TraceAsyncCallbackCompleted(a) ==
  IF a.currentId = UnknownId THEN a
  ELSE LET b == ClearCurrentAsyncOperation(a)
           c == [b EXCEPT !.pausingOn = FALSE, !.scheduledStep = "NoStep",
                          !.debugBreak = FALSE]
       IN  IF ~b.pausingOn THEN b
           ELSE IF c.starting /\ c.pausing = {} THEN ClearStepIntoAsync(c)
           ELSE c

\* Mutants: the operations, or their breakpoints, outlive the tracking.
ResetKeepsOperations(a) ==
  [ClearStepIntoAsync(ClearCurrentAsyncOperation(a)) EXCEPT
     !.notifications = {}, !.breakpoints = {}, !.open = {}]

ResetKeepsBreakpoints(a) ==
  [ClearStepIntoAsync(ClearCurrentAsyncOperation(a)) EXCEPT
     !.ops = << >>, !.notifications = {}, !.open = {}]

\* resetAsyncCallTracker.  V8AsyncCallTracker is not among the listeners it
\* tells, so that tasks stays as it is.
ResetAsyncCallTracker(a) ==
  [ClearStepIntoAsync(ClearCurrentAsyncOperation(a)) EXCEPT
     !.ops = << >>, !.notifications = {}, !.breakpoints = {}, !.open = {}]

-----------------------------------------------------------------------------
(* Protocol commands, in the top-level loop or in the nested one.          *)

LoopRuns == running = "loop" \/ paused

Enable ==
  /\ LoopRuns /\ ~enabled
  /\ enabled' = TRUE
  /\ UNCHANGED <<depth, agent, tasks, queue, lastTask, running, paused>>

\* disable() and clear(); the program goes on if it was stopped.
Disable ==
  /\ LoopRuns /\ enabled
  /\ enabled' = FALSE /\ depth' = 0 /\ paused' = FALSE
  /\ agent' = [ResetAsyncCallTracker(agent) EXCEPT
                 !.scheduledStep = "NoStep", !.pauseScheduled = FALSE,
                 !.v8Step = FALSE]
  /\ UNCHANGED <<tasks, queue, lastTask, running>>

SetAsyncCallStackDepth(d) ==
  /\ LoopRuns /\ enabled /\ d # depth
  /\ depth' = d
  /\ agent' = IF d = 0 THEN ResetAsyncCallTracker(agent) ELSE agent
  /\ UNCHANGED <<enabled, tasks, queue, lastTask, running, paused>>

Pause ==
  /\ LoopRuns /\ enabled /\ ~agent.pauseScheduled /\ ~paused
  /\ agent' = [ClearStepIntoAsync(agent) EXCEPT
                 !.pauseScheduled = TRUE, !.scheduledStep = "NoStep",
                 !.debugBreak = TRUE]
  /\ UNCHANGED <<enabled, depth, tasks, queue, lastTask, running, paused>>

\* Debugger.resume, and the steps into, over and out.
Resume(step) ==
  /\ LoopRuns /\ paused
  /\ paused' = FALSE
  /\ agent' = [agent EXCEPT !.scheduledStep = step,
                            !.v8Step = @ \/ step # "NoStep"]
  /\ UNCHANGED <<enabled, depth, tasks, queue, lastTask, running>>

StepIntoAsync ==
  /\ LoopRuns /\ paused /\ Tracking
  /\ paused' = FALSE
  /\ agent' = [ClearStepIntoAsync(agent) EXCEPT
                 !.starting = TRUE, !.scheduledStep = "StepInto", !.v8Step = TRUE]
  /\ UNCHANGED <<enabled, depth, tasks, queue, lastTask, running>>

SetAsyncOperationBreakpoint(id) ==
  /\ LoopRuns /\ Tracking /\ id \in DOMAIN agent.ops
  /\ agent' = [agent EXCEPT !.breakpoints = @ \cup {id}]
  /\ UNCHANGED <<enabled, depth, tasks, queue, lastTask, running, paused>>

RemoveAsyncOperationBreakpoint(id) ==
  /\ LoopRuns /\ Tracking
  /\ agent' = [agent EXCEPT !.breakpoints = @ \ {id}]
  /\ UNCHANGED <<enabled, depth, tasks, queue, lastTask, running, paused>>

FlushCommand ==
  /\ LoopRuns
  /\ agent' = FlushAsyncOperationEvents(agent)
  /\ UNCHANGED <<enabled, depth, tasks, queue, lastTask, running, paused>>

-----------------------------------------------------------------------------
(* The program.                                                            *)

InJavaScript == running \notin {"loop", "checkpoint"}

RunScript ==
  /\ running = "loop"
  /\ running' = "script"
  /\ UNCHANGED <<enabled, depth, agent, tasks, queue, lastTask, paused>>

\* V8 runs the microtasks before it returns to the loop.
AfterCall(q) == IF q = << >> THEN "loop" ELSE "checkpoint"

FinishScript ==
  /\ running = "script" /\ ~paused
  /\ running' = AfterCall(queue)
  /\ UNCHANGED <<enabled, depth, agent, tasks, queue, lastTask, paused>>

\* A microtask is created, and reported unless the program is stopped.
Enqueue(hasFrames) ==
  LET id == lastTask + 1 IN
  /\ InJavaScript /\ id \in TaskIds
  /\ lastTask' = id
  /\ queue' = Append(queue, [id |-> id, instrumented |-> enabled])
  /\ IF ~paused /\ Tracking
       THEN /\ DOMAIN agent.ops # OpIds
            /\ agent' = TraceAsyncOperationStarting(agent, hasFrames)
            /\ tasks' = [t \in DOMAIN tasks \cup {id} |->
                           IF t = id THEN agent'.lastId ELSE tasks[t]]
       ELSE UNCHANGED <<agent, tasks>>
  /\ UNCHANGED <<enabled, depth, running, paused>>

\* willHandleV8AsyncTask: the callback starts, then its operation is over.
WillHandle ==
  LET task == Head(queue)
      op   == IF task.id \in DOMAIN tasks THEN tasks[task.id] ELSE UnknownId
      a    == TraceAsyncCallbackStarting(agent, op)
  IN
  /\ running = "checkpoint" /\ queue # << >>
  /\ running' = IF task.instrumented THEN "callback" ELSE "plainCallback"
  /\ queue' = Tail(queue)
  /\ IF task.instrumented /\ Tracking
       THEN /\ agent' = IF op # UnknownId THEN TraceAsyncOperationCompleted(a, op)
                                          ELSE a
            /\ tasks' = Restrict(tasks, DOMAIN tasks \ {task.id})
       ELSE UNCHANGED <<agent, tasks>>
  /\ UNCHANGED <<enabled, depth, lastTask, paused>>

DidHandle ==
  /\ running \in Callbacks /\ ~paused
  /\ running' = AfterCall(queue)
  /\ agent' = IF running = "callback" /\ Tracking
                THEN TraceAsyncCallbackCompleted(agent) ELSE agent
  /\ UNCHANGED <<enabled, depth, tasks, queue, lastTask, paused>>

\* V8 breaks: at a pending request, at a debugger statement, after a step, at
\* a breakpoint or at an exception (which is a "breakpoint" here).  The first
\* two clear the request, the others end stepping.
Broken(a, kind) ==
  [a EXCEPT !.debugBreak = @ /\ kind \notin {"interrupt", "debugger"},
            !.v8Step = @ /\ kind \notin {"step", "breakpoint"}]
CanBreak(kind) ==
  /\ InJavaScript /\ enabled /\ ~paused
  /\ kind = "interrupt" => agent.debugBreak
  /\ kind = "step" => agent.v8Step

\* didPause: the client is told of new operations before it is told to pause.
Stop(kind) ==
  /\ CanBreak(kind)
  /\ paused' = TRUE
  /\ agent' = [ClearStepIntoAsync(FlushAsyncOperationEvents(Broken(agent, kind)))
                 EXCEPT !.scheduledStep = "NoStep", !.pauseScheduled = FALSE]
  /\ UNCHANGED <<enabled, depth, tasks, queue, lastTask, running>>

\* didPause skips the break, and V8 may be told to step on.
Skip(kind, stepOn) ==
  /\ CanBreak(kind)
  /\ agent' = [Broken(agent, kind) EXCEPT !.v8Step = @ \/ stepOn]
  /\ UNCHANGED <<enabled, depth, tasks, queue, lastTask, running, paused>>

Next ==
  \/ Enable \/ Disable \/ Pause \/ StepIntoAsync \/ FlushCommand
  \/ \E d \in 0..MaxDepth : SetAsyncCallStackDepth(d)
  \/ \E step \in {"NoStep", "StepInto", "other"} : Resume(step)
  \/ \E id \in OpIds : \/ SetAsyncOperationBreakpoint(id)
                       \/ RemoveAsyncOperationBreakpoint(id)
  \/ RunScript \/ FinishScript \/ WillHandle \/ DidHandle
  \/ \E hasFrames \in BOOLEAN : Enqueue(hasFrames)
  \/ \E kind \in {"interrupt", "debugger", "step", "breakpoint"} :
       Stop(kind) \/ \E stepOn \in BOOLEAN : Skip(kind, stepOn)

Spec == Init /\ [][Next]_vars

-----------------------------------------------------------------------------
(* Properties.                                                             *)

\* The type of the state.
TypeOK ==
  /\ enabled \in BOOLEAN /\ depth \in 0..MaxDepth /\ agent \in AgentStates
  /\ tasks \in UNION {[S -> OpIds] : S \in SUBSET TaskIds}
  /\ queue \in Seq(Microtasks) /\ lastTask \in 0..MaxTasks
  /\ running \in Activities
  /\ paused \in BOOLEAN

\* A stop is only ever planned in the callback of an operation that exists: an
\* id that is given again does not inherit the breakpoint of its predecessor.
BreakpointsAreOperations ==
  agent.breakpoints \cup agent.pausing \subseteq DOMAIN agent.ops

\* The current operation is that of the callback that runs: none is left over
\* when the next callback starts, which traceAsyncCallbackStarting asserts, and
\* a pause that didPause reports as one on an async operation can name it.
CurrentIsRunning ==
  /\ agent.currentId # UnknownId =>
       /\ running = "callback" /\ Tracking
       /\ agent.currentId \in DOMAIN agent.ops /\ agent.pending
  /\ agent.pausingOn => agent.currentId # UnknownId

\* No operation is kept forever: each one is current or belongs to a microtask
\* that is still to run, whatever was turned off and on meanwhile.
OperationsEnd ==
  \A i \in DOMAIN agent.ops :
    \/ i = agent.currentId
    \/ \E j \in DOMAIN queue : /\ queue[j].instrumented
                               /\ queue[j].id \in DOMAIN tasks
                               /\ tasks[queue[j].id] = i

\* While a step into async looks for its operation it is still a step, and it
\* has no target yet (traceAsyncOperationStarting asserts that).
StepIntoAsyncIsSingle ==
  agent.starting =>
    agent.pausing = {} /\ agent.scheduledStep = "StepInto" /\ ~paused

\* The client's list of operations is the agent's: every operation with a call
\* stack that is not still waiting to be announced, and no other.  What waits
\* exists and has a call stack: the ASSERTs in flushAsyncOperationEvents, which
\* dereferences the chain.
ClientListsOperations ==
  LET listed == {i \in DOMAIN agent.ops : agent.ops[i] > 0}
  IN  agent.notifications \subseteq listed /\ agent.open = listed \ agent.notifications

\* V8AsyncCallTracker's destructor: ASSERT(m_contextAsyncOperationMap.isEmpty()).
\* resetAsyncOperations, meant for the end of the tracking, would see to it.
TrackerIsReset == ~enabled => DOMAIN tasks = {}

=============================================================================
