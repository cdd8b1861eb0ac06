# Verification of the V8 inspector backend

This directory holds TLA+ specifications of the V8 inspector backend, TLC
configurations that check them on small instances, and TLAPS proofs of the
properties that matter most. Paths below are relative to `src/Source/`.

The program is a JavaScript shell (`v8inspector/V8InspectorMain.cpp`) that runs
one script and lets a remote front-end debug it over a WebSocket on port 2015.
Its own core is `v8inspector/`, `core/inspector/` and `bindings/core/v8/`; the
rest (`chrome/base`, `chrome/net`, `chrome/v8`, `wtf`, `platform`) is vendored
and is modelled only as far as the core relies on it.

## 1. Inventory

| Component | State | Operations | Talks to |
|---|---|---|---|
| Shell: `V8InspectorMain.cpp` | main message loop, nested loops, the pending main task | `runMainTask`, `quit()`, `DebuggerMessageLoopImpl::run / quitNow` | V8, V8Debugger |
| Remote debugging server: `RemoteDebuggingServer.cc` | `connection_id_` (IO thread), two task queues | `OnWebSocketRequest`, `OnWebSocketMessage`, `OnClose`, `sendMessageToClient`; `HandleConnect`, `HandleMessageFromClient`, `HandleDisconnect` | `net::HttpServer` (callbacks), V8Inspector (tasks) |
| V8Inspector: `V8Inspector.cpp` | front-end, dispatcher | `connectFrontend`, `disconnectFrontend`, `dispatchMessageFromFrontend` | agents |
| Debugger agent: `InspectorDebuggerAgent.cpp` | enabled, paused script state, scheduled step, pause request, skip counters, breakpoint maps, async operations | the Debugger domain, `didParseSource`, `didPause`, `didContinue` | V8Debugger, front-end |
| V8Debugger, WorkerThreadDebugger, `DebuggerScript.js` | debugger script, paused script state, listener | `enable`, `disable`, `handleV8DebugEvent`, `handleProgramBreak`, `runMessageLoopOnPause`, steps, breakpoints | V8, agent |
| Runtime agent: `InspectorRuntimeAgent.cpp` | `InjectedScriptCallScope` on the stack | `evaluate`, `callFunctionOn`, `getProperties`, `releaseObject(Group)` | injected script, V8Debugger |
| Async call tracking: `V8AsyncCallTracker.cpp`, `AsyncCallChain.cpp` and lines 813-824, 1076-1292 of the agent | operations, notifications, async breakpoints, current operation, step into async | task events of V8, `stepIntoAsync`, `setAsyncOperationBreakpoint` | agent, V8 |
| Promise tracker: `PromiseTracker.cpp` | `m_isEnabled`, the id counter, two weak maps | `enablePromiseTracker`, `disablePromiseTracker`, `getPromiseById`, promise events, garbage collection | agent, V8 |
| Injected script: `InjectedScript*.cpp`, `InjectedScriptSource.js` | `m_lastBoundObjectId` and three maps of object ids and object groups, `$_` of the console | wrap and release of objects, properties, call frames | runtime and debugger agent |
| Scripts: lines 490-511, 586-637, 889-946, 1008-1026, 1458-1503 of the agent, `ScriptDebugListener.cpp`, `liveEditScriptSource` | `m_scripts`, `m_editedScripts`, `m_compiledScripts`, the skip pattern and its generation | `didParseSource`, `compileScript`, `runScript`, `setScriptSource`, `getScriptSource`, `skipStackFrames` | V8 (compiler, LiveEdit, collector) |
| Inspector state: `InspectorState.cpp` | per-agent cookies | set, mute | agents |
| Search, JSON, call stacks | none | pure functions | agents |
| Generated protocol code: `core/Inspector*.cpp` | the channel of the dispatcher | `dispatch`, `sendResponse`, one function per event | V8Inspector, agents |

What is hard in this program:

* **One thread, two levels.** JavaScript, protocol commands and the stop are on
  one thread. A stop is a message loop nested inside the break handler; every
  command, including disable and disconnect, can run inside it, between the two
  halves of `handleProgramBreak`, of `evaluate` and of `runScript`.
* **Four ideas of "paused".** The agent, V8Debugger, the message loop and the
  front-end each keep their own; nothing but the order of the calls keeps them
  equal.
* **Two threads for the transport.** The IO thread acts on connects and closes
  at once; the main thread hears of them through a queue that stands still while
  a script runs. Messages to the client do not carry their connection.
* **Three registries of breakpoints.** Cookies, the agent's two maps and V8's
  break points must agree, whatever the order of scripts, breakpoints and enable.
* **Requests that V8 and the agent both remember**: pause requests, steps and
  step-into-async, which V8 may forget while the agent does not.
* **Tables of ids that outlive what they name.** Objects, promises, async
  operations and scripts have ids in several maps each, that start again after the
  last one, are cleared by different events, and are emptied by the collector.
* **State that outlives its session.** Silent calls that span a disable, edited
  texts, the skip pattern and bound objects stay when the client goes.

`hazards` in `PROJECT.json` lists these, each at the line where it bites and with
the property that covers it.

## 2. Modules and how they correspond to the code

**`InspectorDebugger`** is the pause core. Its variables are fields:
`pausedScriptState` and `v8Paused` are the `m_pausedScriptState` of the agent and
of V8Debugger, `listener` is `WorkerThreadDebugger::m_listener`, `debugBreak`,
`v8Step`, `v8Exceptions` and `breaksActive` are V8's stack-guard request,
`last_step_action`, break-on-exception flags and (negated) `break_disabled_`.
`thread` says what the one thread is doing: in its top loop, executing JavaScript,
in the nested loop, or crashed. Each protocol command is one action with the
guards of its early returns; `BreakAndPause` / `BreakAndSkip` are
`handleProgramBreak` with `didPause` inside, split where the nested loop begins;
`LeaveNestedLoop` is the other half. Scripts are an input: which kind of break
comes next, and whether the top frame is blackboxed, is chosen freely among what
V8 can produce (`V8CanBreak`, from `chrome/v8/src/debug.cc`).

**`DebuggerSession`** is the abstract specification: a session is detached, idle,
running or paused; only a pause blocks the program; whoever leaves the paused
session releases it. `InspectorDebugger` implements it by the mapping at its end
(`session` from the front-end, the enabled state and the paused state; `blocked`
is the nested loop, `released` is `quit`).

**`RemoteServer`** is the transport. `sockets` is the connection table of
`net::HttpServer`, `connectionId` is `connection_id_`, `mainQueue` and `ioQueue`
are the two task queues. One action per callback (IO thread) and per task (main
thread). `served` and `delivered` are history variables used only by properties.
The handshake that `OnWebSocketRequest` writes may fail: `HttpServer` then closes the
connection inside `AcceptWebSocket`, so that `OnClose` posts its disconnect first and
line 50 makes the dead id current afterwards (`HandshakeFails`; such a connection is
`"failed"`).

**`InspectorSystem`** composes them: the tasks of `RemoteServer` drive the session
of `DebuggerSession`, and only when the message loop can run. What it adds is the
stack of the main thread (`calls`): a command that runs JavaScript is answered when
the script returns, through any number of stops. JavaScript evaluated inside a stop
is a second entry of that stack; while it runs the nested loop takes no task, and
nothing says that it ends. `runMainTask` is posted after the server was started, so
that it may come after a client's first commands and even run inside a stop.

**`Breakpoints`** is the second half of the agent: cookies, the two maps, V8's
break points and the one-shot breakpoint of `continueToLocation`. Scripts, URL
patterns and lines are constants; what a pattern matches, which lines a script
has and where V8 moves a break point to are relations given by constants. The
command line API writes into the same registries: `DebugFunction` is `debug(f)` and
`monitor(f)`, `UndebugFunction` their opposites. They have ids of their own
(`Sources`), ask for no cookie and refuse no duplicate, and the break point of
`monitor` logs without stopping (`stops`).

**`AsyncCalls`** is the third: V8's microtasks reported through
`V8AsyncCallTracker` as async operations, their notifications, async breakpoints
and step-into-async. Microtasks are created by running JavaScript, run one after
the other, oldest first, when no other JavaScript is on the stack.

**`PromiseTracker`** is the fourth: promise ids, the two weak maps, and the garbage
collector, which may take a tracked promise between any two events. Every entry of
`m_idToPromise` that goes, for whatever reason, is told to the client by the
destructor of its callback data; `known` is what the client makes of these events.
`reused` remembers that an id was given out that a tracked promise still had, which
`circularSequentialId` does not ask.

**`RemoteObjects`** is the injected script as a table of object ids. `native` has the
fields of `InjectedScriptNative`, `created` and `contextId` are the two maps of
`InjectedScriptManager` for the one context of this program. `Bind`, `Unbind` and
`ReleaseGroup` are its three operations; the actions are the commands that bind or
release, and the stops: `DidPause` binds the call frames in the group `backtrace`,
`Resume` (and every step) releases it. `evaluate` and `callFunctionOn` are split at
their JavaScript, which may stop or bind objects itself; the group of a
`callFunctionOn` is read before. Its `bindRemoteObject` closure may be kept by the
script and called at any later time (`binders`). A result is bound, bound as an
exception, or, with `returnByValue`, only kept as the last result (`Outcomes`). `abandoned` remembers that a stop ended without
resume, or that a client put something in `backtrace` outside a stop.

**`HandleTable`** is the abstract specification of it: handles that name one object
from the answer that brings them until they or their group are released.
`RemoteObjects` implements it by the mapping at its end, for as long as ids last.

**`Scripts`** is what the agent remembers of scripts beside what V8 has: `v8Scripts`
is V8's heap, `scripts`, `edited` and `compiled` are `m_scripts`, `m_editedScripts`
and `m_compiledScripts`, `pattern` and `generation` the cached skip pattern. A script
is compiled by the program or by `compileScript`; LiveEdit may refuse a text (V8
reports it all the same), take it, or take it and leave a copy of the old script.
`editor`, `doubtful` and `again` are history variables of the properties.

In `InspectorDebugger`, `overridden` is the history variable of `ExceptionsAsAsked`: it
remembers that the exception state in V8 was set past the client, in one of the
three ways that the property names.

What the inspector relies on of the vendored code is modelled as well, and mapped to
its lines: `V8CanBreak`, `ClearsRequest`, `ClearsStepping`, `Broken` and `CollectScript`
(`chrome/v8/src/debug.cc`), `AfterCall` (`isolate.cc`), `Accept`, `OpenSockets`,
`MayUpgrade` and the outcomes of a handshake (`chrome/net/server/http_server.cc`),
`TakeTask` (`base::MessageLoop`).

Each module defines, next to a definition, mutated forms of it (marked "Mutant").
They are not used by the specification; `PROJECT.json` pairs each with a property
that it breaks, which shows that the property depends on the code.

## 3. Runs

| Run | Checks | Shows |
|---|---|---|
| `debugger` | `TypeOK PausedTogether ClientKnows StopsAreFresh NothingOutlivesDisable ExceptionsAsAsked EventsNeedListener StopsEnd ImplementsSession` | the layers of the pause core agree, the client is told the truth, stops and sessions start afresh, V8 pauses on the exceptions the client asked for, a stop that nobody can end does not exist, and the core implements `DebuggerSession` |
| `remote_server` | `TypeOK SessionFollowsConnection NoMixup ConnectsWhenFree` | with one WebSocket at a time, any plain HTTP connections beside it and handshakes that fail, the main thread's session follows the IO thread's connection, a message reaches another connection than its own only when its own is gone, and a connect finds no front-end but that of a connection lost in its handshake |
| `system` | `WaitsForSomeone WaitsForOpen AskerIsServed LossEndsStop` | a stopped program has a client, or a disconnect on its way to it, and that client is not one lost in its handshake; a lost client ends the stop if what is evaluated in it ends; the reply to `evaluate` belongs to the session that asked |
| `breakpoints` | `TypeOK RegistriesAgree UrlBreakpointsApply HitsAreSet` | the registries agree, a breakpoint by URL reaches every script it applies to exactly once in whatever order they come, and a pause names the breakpoints that are set where it happens |
| `async_calls` | `TypeOK BreakpointsAreOperations CurrentIsRunning OperationsEnd StepIntoAsyncIsSingle ClientListsOperations` | whatever is enabled, disabled, stopped or stepped between the creation, the start and the end of a microtask: an operation that is over leaves nothing behind, none is kept forever, and the client's list of operations is the agent's |
| `promise_tracker` | `TypeOK AnswersAreTracked IdNamesPromise ClientListsPromises TrackedForClient` | an answer to `getPromiseById` is a promise that is tracked under that id; until an id in use is given again, an id names one promise and the client's list of promises is the tracker's; nothing is tracked without a client |
| `remote_objects` | `TypeOK GroupsFindMembers FramesAreReleased ImplementsTable` | releasing a group releases all of it, although single releases leave ids in its list and ids start again; nothing of a stop that the client ended stays bound; until ids start again the maps implement `HandleTable` |
| `scripts` | `KnowsEveryScript SourceIsCurrent CompiledToRun BlackboxIsCurrent` | no script is unknown to the agent; when `getScriptSource` returns the text V8 has; `runScript` runs a script of its own session; a cached blackbox answer is the current pattern's |
| `pause_request_kept` | violates `PauseRequestKept` | a pause request can be lost in V8 while the agent keeps it, and then blocks further requests |
| `debugger_used_only_enabled` | violates `DebuggerUsedOnlyEnabled` | `runScript` can use V8Debugger after the client disabled it during a stop |
| `accepts_when_free` | violates `AcceptsWhenFree` | nothing keeps a second WebSocket out (with two clients `ConnectsWhenFree` fails as well) |
| `tracker_is_reset` | violates `TrackerIsReset` | `V8AsyncCallTracker` keeps operations after the tracking has ended |

The violated properties are assertions or comments of the code; `findings` in
`PROJECT.json` quotes them. Assertions are compiled out of a release build, so that
the models go on where an assertion fails. Two more assertions can fail in the
models and have no run, because nothing depends on them:
`ASSERT(!m_runningNestedMessageLoop)` of `setPauseOnNextStatement` (`releaseObject` in a
stop with a request pending), and `ASSERT(enabled())` of `resolveBreakpoint` (a
breakpoint by URL set before enable is resolved inside it). After a failed handshake
`ASSERT(connection_id_ == -1)` and `ASSERT(!m_frontend)` fail with a single client too.

`SourceIsCurrent`, `ExceptionsAsAsked`, `FramesAreReleased` and `ConnectsWhenFree` name the cases in which
they do not hold. These are not assumptions: the models contain them, the history
variables mark them, and each is a way in which the code's answer differs from
what a client may expect (the text of a refused or previewed edit, an edit of
another script under the same URL, a setting lost at the end of a silent call,
call frames kept after a stop that ended by disable, disconnect or `quit()`, a
front-end left by a failed handshake). The hazards behind them therefore have a note
in `PROJECT.json` where the property exempts what the hazard describes.

`NothingOutlivesDisable` is about the pause core. Other things do survive a disable: the
skip pattern, `m_editedScripts`, `m_serverBreakpoints` and `m_isEnabled` of the promise
tracker, and the modules that have them keep them.

Two early returns cannot happen and are not modelled: `runScript` returns without
restoring the exception state when the result of the script is empty without an
exception, which takes `TerminateExecution`, and nothing calls it; and
`flushAsyncOperationEvents` skips an operation whose call stack converts to null, which
takes an empty stack (not kept in a chain) or a context that is gone (there is one,
and it stays).

### Bounds

* `MaxSkipStepFrameCount = 2` (128 in the code): below, at and above the limit all
  occur, and the counter is the only use of the number.
* Three connections, queues of three tasks: enough for a connection to close and
  the next to open, and for a third beside them, while connect, message and
  disconnect of the first are still queued. `MaxClients = 1` is the use the
  server is made for; `MaxClients = 2` shows what the assertions rule out.
* Breakpoints: three scripts (one with a URL, one without, one that does not
  compile), one pattern, two lines that V8 maps to one, three numbers per session:
  two breakpoints that fall together beside a one-shot one.
* Async calls: chains of at most two call stacks, four microtasks, ids `1..2` so
  that an id is given again.
* Promises: four promises, which the model does not tell apart (symmetry), six
  events and three ids: ids start again, over free ones and over ones in use.
* Remote objects: two objects and ids `1..2`, so that a stop, which binds up to three
  values, goes through the ids more than once, and a release can meet ids of an
  earlier round.
* Scripts: two scripts, so that one can be the copy of the other or share its URL;
  two texts and one that does not compile; two patterns, one of which matches the
  copies; generations `1..2`, so that they start again.

Deadlock is checked in the runs `breakpoints`, `async_calls`, `promise_tracker`,
`remote_objects` and `scripts`. It is not in the runs of the pause core, where the
crashed state is the end of the program, nor in those of the transport and the
system, which may stop when all connections are used up; that the program itself is
never stuck there is what `StopsEnd` and `LossEndsStop` say.

No bound is in a guard of `RemoteObjects` or `Scripts`: ids and generations start
again after the last one, as in the code, and script ids are never given twice.

### Fairness

`InspectorDebugger` assumes only that a nested loop on which `QuitNow` was called
returns, which `base::MessageLoop` does after the current task. `InspectorSystem`
adds that both loops go on taking tasks from their queues. A task that starts
JavaScript is taken, and its end is another step, with no fairness. No script is
assumed to end, no client to send anything, and a loop told to quit when idle is not
assumed to become idle. `LossEndsStop` therefore has a premise, that JavaScript
evaluated in a stop is over again and again: an endless expression evaluated there
holds the nested loop, and the disconnect behind it, forever.

## 4. Proofs

`InspectorDebugger_proofs` proves, for every limit on skipped frames, that `IndInv`
is an inductive invariant. The properties alone are not inductive: `PausedTogether`
needs to know that a nested loop told to quit no longer has V8Debugger's paused
state and that the agent still holds its own exactly if it is still enabled, and
that listener, V8Debugger and agent state agree on "enabled"; that is
`LayersAgree`. The proof has one step per action, grouped in `SessionSteps`,
`CommandSteps` and `ProgramSteps`. From it follow `TypeCorrect`,
`PausedTogetherAlways`, `ClientKnowsAlways`, `StopsAreFreshAlways`,
`NothingOutlivesDisableAlways` (of the pause core's state), the action property `EventsNeedListenerAlways`,
and `Refinement`: initial states map to initial states of `DebuggerSession`, every
step to one of its steps or to a stutter.

`QuitEndsStopAlways` is the safety half of `StopsEnd`: a stop that some layer has left
was told to quit (`PausedTogether`), and the only step possible then is the return of
the nested loop, the step that the fairness is about. What remains for TLC is that it
is taken.

`RemoteServer_proofs` proves, for any number of connections, clients and tasks,
`ServerTypeCorrect` and `SessionFollowsConnectionAlways`. The idea is `LastControlDecides`: the last connect or disconnect that waits in the
queue agrees with `connectionId`; every step of the IO thread appends such a task
or leaves both alone, and when the main thread takes the last one, the front-end
has the value that it decides. The lemmas about queues (`PostControl`,
`PostMessage`, `TakeControl`, `TakeMessage`) carry that over an append and a tail. A
failed handshake appends two tasks, of which the second decides. `CurrentIsOpen`, a part
of the invariant, says what is then current: an open WebSocket or one that failed.

For one WebSocket at a time (the hypothesis `MaxClients = 1`; plain connections come
and go as they like) it also proves `NoMixupAlways` and `ConnectsWhenFreeAlways`.
`ClientInv` is the inductive invariant on top of `ServerInv`. Its idea is
`ServesOnly(i, D)`: when the task at position `i` of the main queue runs, nobody
outside `D` is served, because behind every other connect, or front-end that is there,
a disconnect or another connect waits. A connect finds nobody served but a connection
that failed, a message at most its sender (`TasksInTurn`), and the same holds of what
may still be posted (`NextInTurn`): a connect needs a free place, hence a closed
WebSocket, whose `OnClose` has posted its disconnect, or a failed one, which never sends
anything (`SendersWereOpen`). Since every id that is served, asked or answered was
upgraded (`IdsAreUpgraded`) and one WebSocket is open, what `sendMessageToClient` delivers
to the current connection was meant for it or for one that is gone.

`InspectorSystem_proofs` carries this to the composed backend. `ServerSteps` says what
a step of the backend is to the transport (one of its own steps, a message taken
without an answer, a message sent for the served or the asking connection), so that
`ServerInv` and `ClientInv` are preserved by the lemmas above. `SysInv` adds that the
session exists exactly while there is a front-end, that only a pause blocks
(`BlockedOnlyByPause` of `DebuggerSession`) and that a stopped program has JavaScript on
its stack, with at most one more call on top of it (`StackIsHeld`); it gives `WaitsForSomeoneAlways` and `LossIsQueuedAlways`, the safety half of
`LossEndsStop`, for any number of clients. `AskerIsServedAlways`, `WaitsForOpenAlways` and
`SysNoMixup` again need one client at a time: no connect can run while an evaluate is
under way, because the nested loop runs tasks only in a pause, a pause has a
front-end, and a connect finds none, or one left by a failed handshake; and the session
of that one is idle (`FailedIsIdle`), since nobody is there to enable its debugger.

`ExceptionsAsAskedAlways` needs `WritesBack`: a silent call that is under way will
write back what the client has set, and outside JavaScript there is none.

`RemoteObjects_proofs` proves, for any objects and any largest id,
`GroupsFindMembersAlways`, `FramesAreReleasedAlways` and `ImplementsTableAlways`. The
lemmas say what `Bind`, `Unbind` and `ReleaseGroup` do to a well-formed `native`
(`BindGood`, `UnbindGood`, `ReleaseGood`), so that an action only has to be recognised
as one of them. The refinement needs `IdsAscend`: until ids start again, every id in
a map is below the next one, so that a new handle is new, and an id left in the list
of a group is free or still in that group, so that a release takes nothing else.

`PromiseTracker_proofs` proves, for any number of promises, ids and events, all
properties of the promise tracker. It works on the record of the tracker's state
in the same way (`WithIdGood`, `CollectedGood`, `ClearGood`).

`Scripts_proofs` proves type correctness and all properties of the scripts, for any
scripts, texts, URLs, patterns and largest generation. `SourceIsCurrent` needs to
know that ids are not given twice (`IdsAreGiven`), that a script keeps its URL (`UrlsAgree`), that the text
under a URL is V8's text of the script that was edited last (`EditsAreApplied`) and
that other reports are true (`ReportsAreTrue`); `BlackboxIsCurrent` that no answer is
of a later generation (`AnswersAreEarlier`). Every `IndInv` was model-checked before.

`Breakpoints_proofs` proves, for any scripts, patterns, lines and numbers, type
correctness, `RegistriesAgreeAlways`, `HitsAreSetAlways` and `UrlBreakpointsApplyAlways`.
The inductive `BreakpointsInv` adds to the registries that every breakpoint set by
URL has its cookie (`IdsHaveCookies`), that V8's break points are in scripts it has
(`PointsInScripts`) and that every cookie was applied to every script it matches
(`CookiesApply`). A parsed script, `enable` and `setBreakpointByUrl` set several break
points at once, in an order the code does not fix; `debug` and `monitor` set one, and may
set the same again. `Registers` says what that comes
to, whatever the order: each request V8 has a place for is registered under a number
of its own, and the numbers are new. One lemma (`RegisterStep`) then serves all of
them. Counting the numbers needs finitely many scripts and cookies, which is part of the invariant
(`KnownIsFinite`) and no assumption.

`AsyncCalls_proofs` proves, for any depth, number of microtasks and largest id, all
properties of the async calls. `AgentGood` describes a consistent agent; a lemma per
operator of the model (`ClearStepIntoAsyncGood`, `FlushGood`, `OperationStartingGood` and
so on) says that it keeps one consistent, so that a handler, which applies several
of them in a row, is a chain of lemmas. `OperationsEnd` needs in addition that
microtasks are numbered (`TasksAreNumbered`), so that a new one does not take over the
operation of another, and that no operation outlives the tracking (`TrackingEnds`).

Assumptions: bounds are naturals, ids, depths and generations at least 1
(`MaxSkipAssumption`, `BoundsAssumption`, `AsyncBoundsAssumption`,
`PromiseBoundsAssumption`, `IdsAssumption`, `GenerationAssumption`); the relations between
scripts, patterns and lines are over these sets, and V8 places no break point in a
script that does not compile (`ConstantsAssumption`); and the special values of
`RemoteObjects` and `Scripts` (no group, no URL, the primitive value, a preview) are not
among the ordinary ones. TLC evaluates each of them in the runs.
`MaxClients = 1` is a hypothesis of the theorems that need it, not an assumption of
the modules.

Only model-checked: the liveness properties `StopsEnd` and `LossEndsStop` and the
fairness part of `ImplementsSession`. They need the enabledness of an action, which is
out of the prover's reach. Every invariant that a run checks is proved.

## 5. Not modelled, and the plan

Nearly all of the repository is vendored: `chrome/` (V8, base, net), `wtf/`, `platform/`
and the generated protocol code make up more than nine tenths of its lines, and they
are not this program's own logic. The modules cover the stateful part of
`v8inspector/`, `core/inspector/` and `bindings/core/v8/`, and of the vendored code what
that part relies on.

Not modelled in these directories:

* `quit()` called by JavaScript that is not stopped, which ends the program;
* code that nothing calls in this build (`changeJavaScriptRecursionLevel`,
  `willCallFunction` / `didCallFunction`, `schedulePauseOnNextStatement`, `restore`,
  `breakProgram` of the agent, `interruptAndDispatchInspectorCommands`,
  `resetModifiedSources`);
* what LiveEdit, `restartFrame` and `setVariableValue` do to the program and to its
  break points: V8 rewrites functions and frames, of which the inspector keeps no
  state besides the text;
* formatting, previews, JSON, search, call stacks and the marshalling of the
  generated protocol code, which are conversions of data.

Order of the work:

1. pause core, abstract session, transport, their composition (done and proved);
2. breakpoint registries and async calls (done and proved);
3. promises, remote objects with their abstract table, and scripts (done and proved);
4. left: async calls joined with the pause core, for the pause request that the end
   of an async callback withdraws (`traceAsyncCallbackCompleted`) and step-into-async
   over a stop.
