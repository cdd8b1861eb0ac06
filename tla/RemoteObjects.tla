--------------------------- MODULE RemoteObjects ---------------------------
(***************************************************************************)
(* Remote objects: how values of the inspected program get an id that the  *)
(* client can use, and when the inspector lets go of them.                 *)
(*                                                                         *)
(*   InjectedScriptManager   creates the injected script of the context    *)
(*                           when something first needs it                 *)
(*   InjectedScriptNative    object ids and object groups: three maps      *)
(*   InjectedScriptSource.js wraps results, properties and call frames     *)
(*   the agents              evaluate, callFunctionOn, getProperties, ...; *)
(*                           pauses bind, resume and steps release         *)
(*                                                                         *)
(* This program has one context.  The ids of its injected script and its   *)
(* maps live as long as V8Inspector: nothing discards them, not even a     *)
(* disconnect.  Call frames are bound in the group "backtrace".            *)
(***************************************************************************)
EXTENDS Naturals, Functions

CONSTANTS
  Objects,    \* values of the program that are not primitive
  Backtrace,  \* the object group of call frames
  Console,    \* the object group of the console's evaluations
  NoGroup,    \* the empty group name
  Primitive,  \* any value that is sent as such
  MaxId       \* the largest int, 2^31 - 1 in the code

ASSUME IdsAssumption == MaxId \in Nat \ {0}
ASSUME GroupsAssumption == Backtrace # Console /\ NoGroup \notin {Backtrace, Console}
ASSUME ValuesAssumption == Primitive \notin Objects

VARIABLES
  frontend,       \* a client is connected
  enabled,        \* InspectorDebuggerAgent is enabled
  contextId,      \* the context has an id in m_scriptStateToId
  created,        \* its injected script is in m_idToInjectedScript
  native,         \* InjectedScriptNative, see below
  lastResult,     \* _lastResult of the injected script, $_ in the console
  thread,         \* what the main thread is doing
  call,           \* whose JavaScript it is, see Calls
  binders,        \* the groups of the functions that bind objects and that
                  \* JavaScript called by a command has had in its hands
  abandoned       \* history: call frames may be bound outside their stop

vars == <<frontend, enabled, contextId, created, native, lastResult, thread,
          call, binders, abandoned>>
sessionVars == <<frontend, enabled, contextId>>

Ids        == 1..MaxId
Groups     == {Backtrace, Console}
GroupNames == Groups \cup {NoGroup}
Values     == Objects \cup {Primitive}
Threads    == {"loop", "js", "nested"}

\* The command whose JavaScript runs, if one does, and the group in which its
\* result will be bound.
Calls  == [caller : {"none", "evaluate", "callFunctionOn"}, group : GroupNames]
NoCall == [caller |-> "none", group |-> NoGroup]

\* The fields of InjectedScriptNative.  next is m_lastBoundObjectId, where 0
\* stands for every int that is not positive; wrapped is m_idToWrappedObject,
\* groupOf m_idToObjectGroupName and members m_nameToObjectGroup; again says
\* that the ids were used up and started again.
Maps(S, T) == UNION {[D -> T] : D \in SUBSET S}
Natives ==
  [next : 0..MaxId, wrapped : Maps(Ids, Objects), groupOf : Maps(Ids, Groups),
   members : [Groups -> SUBSET Ids], again : BOOLEAN]

Init ==
  /\ frontend = FALSE /\ enabled = FALSE
  /\ contextId = FALSE /\ created = FALSE
  /\ native = [next |-> 1, wrapped |-> [i \in {} |-> Primitive],
               groupOf |-> [i \in {} |-> NoGroup],
               members |-> [g \in Groups |-> {}], again |-> FALSE]
  /\ lastResult = Primitive
  /\ thread = "loop" /\ call = NoCall /\ binders = {} /\ abandoned = FALSE

-----------------------------------------------------------------------------
(* InjectedScriptNative.                                                   *)

\* Mutant: the id is given out and not counted.
BindWithoutCounting(n, value, group) ==
  LET id == IF n.next = 0 THEN 1 ELSE n.next IN
  IF value = Primitive THEN n
  ELSE [n EXCEPT
          !.wrapped = [i \in DOMAIN @ \cup {id} |-> IF i = id THEN value ELSE @[i]],
          !.groupOf = IF group = NoGroup THEN @
                      ELSE [i \in DOMAIN @ \cup {id} |->
                              IF i = id THEN group ELSE @[i]],
          !.members = [g \in Groups |-> IF g = group THEN @[g] \cup {id} ELSE @[g]]]

\* Mutant: the counter does not run over.
BindPastTheLast(n, value, group) ==
  [BindWithoutCounting(n, value, group) EXCEPT !.next = @ + 1]

\* bind with addObjectToGroup, as RemoteObject calls it: a value that is sent
\* as such is not bound.  The counter runs over after the last id.
Bind(n, value, group) ==
  LET id == IF n.next = 0 THEN 1 ELSE n.next IN
  IF value = Primitive THEN n
  ELSE [next    |-> IF id = MaxId THEN 0 ELSE id + 1,
        wrapped |-> [i \in DOMAIN n.wrapped \cup {id} |->
                       IF i = id THEN value ELSE n.wrapped[i]],
        groupOf |-> IF group = NoGroup THEN n.groupOf
                    ELSE [i \in DOMAIN n.groupOf \cup {id} |->
                            IF i = id THEN group ELSE n.groupOf[i]],
        members |-> [g \in Groups |-> IF g = group THEN n.members[g] \cup {id}
                                                   ELSE n.members[g]],
        again   |-> n.again \/ n.next = 0]

\* Mutant: the name of the group is kept.
UnbindKeepsName(n, ids) ==
  [n EXCEPT !.wrapped = Restrict(@, DOMAIN @ \ ids)]

\* unbind, of one id or of many.  It does not look into m_nameToObjectGroup.
Unbind(n, ids) ==
  [n EXCEPT !.wrapped = Restrict(@, DOMAIN @ \ ids),
            !.groupOf = Restrict(@, DOMAIN @ \ ids)]

\* releaseObjectGroup
ReleaseGroup(n, group) ==
  IF group = NoGroup THEN n
  ELSE [Unbind(n, n.members[group]) EXCEPT !.members[group] = {}]

\* groupName
GroupName(n, id) == IF id \in DOMAIN n.groupOf THEN n.groupOf[id] ELSE NoGroup

-----------------------------------------------------------------------------
(* InjectedScriptManager.                                                  *)

\* injectedScriptFor: the script is there or is created now, with the id the
\* context has or gets now.
InjectedScriptFor == created' = TRUE /\ contextId' = TRUE

\* injectedScriptForObjectId finds a script that is there.
InjectedScriptForObjectId(id) == created /\ id \in Ids

\* releaseObjectGroup, with InjectedScript::releaseObjectGroup inside.
ReleaseObjectGroupOfScripts(group) ==
  IF created
    THEN /\ native' = ReleaseGroup(native, group)
         /\ lastResult' = IF group = Console THEN Primitive ELSE lastResult
    ELSE UNCHANGED <<native, lastResult>>

-----------------------------------------------------------------------------
(* The session.                                                            *)

LoopRuns    == thread \in {"loop", "nested"}
CanDispatch == LoopRuns /\ frontend

ConnectFrontend ==
  /\ LoopRuns /\ ~frontend
  /\ frontend' = TRUE
  /\ UNCHANGED <<enabled, contextId, created, native, lastResult,
                 thread, call, abandoned, binders>>

\* A stop that ends without a resume: the program goes on and what was bound
\* for its call frames stays bound.
AbandonStop ==
  /\ thread' = IF thread = "nested" THEN "js" ELSE thread
  /\ abandoned' = (abandoned \/ thread = "nested")

\* disconnectFrontend disables both agents; no object is released.
DisconnectFrontend ==
  /\ CanDispatch
  /\ frontend' = FALSE /\ enabled' = FALSE
  /\ AbandonStop
  /\ UNCHANGED <<contextId, created, native, lastResult, call, binders>>

\* Runtime.enable tells the client the id of the context, which it gets now if
\* it has none.
EnableRuntime ==
  /\ CanDispatch
  /\ contextId' = TRUE
  /\ UNCHANGED <<frontend, enabled, created, native, lastResult, thread, call,
                 abandoned, binders>>

EnableDebugger ==
  /\ CanDispatch /\ ~enabled
  /\ enabled' = TRUE
  /\ UNCHANGED <<frontend, contextId, created, native, lastResult, thread, call,
                 abandoned, binders>>

\* Debugger.disable, also in a stop
DisableDebugger ==
  /\ CanDispatch /\ enabled
  /\ enabled' = FALSE
  /\ AbandonStop
  /\ UNCHANGED <<frontend, contextId, created, native, lastResult, call, binders>>

-----------------------------------------------------------------------------
(* Commands that give out objects.                                         *)

\* A command's JavaScript gets a function that binds objects in this group: the
\* console's inspect, in none, or callFunctionOn's bindRemoteObject, in that of
\* the object.  It may keep the function for as long as it likes.
HandBinder(group) == binders' = binders \cup {group}

\* Runtime.evaluate in the top-level loop; injectedScriptForEval knows the
\* context by its id or by default.
Evaluate(group, byId) ==
  /\ CanDispatch /\ thread = "loop"
  /\ byId => contextId
  /\ InjectedScriptFor
  /\ thread' = "js" /\ call' = [caller |-> "evaluate", group |-> group]
  /\ HandBinder(NoGroup)
  /\ UNCHANGED <<frontend, enabled, native, lastResult, abandoned>>

\* How JavaScript ends: with a value to be sent by reference or as a copy
\* (returnByValue), or with an exception.
Outcomes == {"returned", "byValue", "thrown"}

\* _evaluateAndWrap, when the evaluation has ended: a result of the console
\* that was not thrown is kept, and what there is to send is bound unless it is
\* copied.
WrapResult(value, group, outcome, keep) ==
  /\ native' = Bind(native, IF outcome = "byValue" THEN Primitive ELSE value, group)
  /\ lastResult' = IF keep /\ outcome # "thrown" /\ group = Console
                     THEN value ELSE lastResult

\* Runtime.callFunctionOn in the top-level loop: the result will be bound in
\* the group that the object has now.
CallFunctionOn(id) ==
  /\ CanDispatch /\ thread = "loop"
  /\ InjectedScriptForObjectId(id) /\ id \in DOMAIN native.wrapped
  /\ thread' = "js"
  /\ call' = [caller |-> "callFunctionOn", group |-> GroupName(native, id)]
  /\ HandBinder(GroupName(native, id))
  /\ UNCHANGED <<sessionVars, created, native, lastResult, abandoned>>

\* JavaScript that a command runs while the program is stopped ends within the
\* command: evaluate, evaluateOnCallFrame (group is the client's) and
\* callFunctionOn.
EvaluateInStop(group, value, outcome) ==
  /\ CanDispatch /\ thread = "nested"
  /\ InjectedScriptFor
  /\ HandBinder(NoGroup)
  /\ WrapResult(value, group, outcome, TRUE)
  /\ UNCHANGED <<frontend, enabled, thread, call, abandoned>>

CallFunctionInStop(id, value, outcome) ==
  /\ CanDispatch /\ thread = "nested"
  /\ InjectedScriptForObjectId(id) /\ id \in DOMAIN native.wrapped
  /\ HandBinder(GroupName(native, id))
  /\ WrapResult(value, GroupName(native, id), outcome, FALSE)
  /\ UNCHANGED <<sessionVars, created, thread, call, abandoned>>

\* Runtime.getProperties, and the Debugger's getFunctionDetails,
\* getGeneratorObjectDetails and getCollectionEntries: what is found in an
\* object is bound in the object's group.
GetProperties(id, value) ==
  /\ CanDispatch
  /\ InjectedScriptForObjectId(id) /\ id \in DOMAIN native.wrapped
  /\ native' = Bind(native, value, GroupName(native, id))
  /\ abandoned' = (abandoned \/ (thread = "loop" /\ GroupName(native, id) = Backtrace))
  /\ UNCHANGED <<sessionVars, created, lastResult, thread, call, binders>>

\* Debugger.getPromiseById of a promise that is tracked.
GetPromiseById(group, value) ==
  /\ CanDispatch /\ enabled
  /\ InjectedScriptFor
  /\ native' = Bind(native, value, group)
  /\ abandoned' = (abandoned \/ (thread = "loop" /\ group = Backtrace))
  /\ UNCHANGED <<frontend, enabled, lastResult, thread, call, binders>>

-----------------------------------------------------------------------------
(* Commands that release objects.                                          *)

ReleaseObject(id) ==
  /\ CanDispatch
  /\ InjectedScriptForObjectId(id)
  /\ native' = Unbind(native, {id})
  /\ UNCHANGED <<sessionVars, created, lastResult, thread, call, abandoned, binders>>

ReleaseObjectGroup(group) ==
  /\ CanDispatch
  /\ ReleaseObjectGroupOfScripts(group)
  /\ abandoned' = (abandoned /\ group # Backtrace)
  /\ UNCHANGED <<sessionVars, created, thread, call, binders>>

-----------------------------------------------------------------------------
(* The program and its stops.                                              *)

\* runMainTask.  Here the program may run again after it has ended.
RunMainTask ==
  /\ thread = "loop"
  /\ thread' = "js" /\ call' = NoCall
  /\ UNCHANGED <<sessionVars, created, native, lastResult, abandoned, binders>>

\* bindRemoteObject or inspect, called by any JavaScript that runs now: that of
\* the command that was given the function, one that came later, the program, or
\* what a command evaluates in a stop.
BindRemoteObject(value, group) ==
  /\ thread = "js" \/ (CanDispatch /\ thread = "nested")
  /\ group \in binders
  /\ native' = Bind(native, value, group)
  /\ abandoned' = (abandoned \/ (thread = "js" /\ group = Backtrace))
  /\ UNCHANGED <<sessionVars, created, lastResult, thread, call, binders>>

\* The JavaScript ends and its caller wraps what it returned or threw, also
\* when the client that asked has gone meanwhile.
FinishJavaScript(value, outcome) ==
  /\ thread = "js"
  /\ thread' = "loop" /\ call' = NoCall
  /\ IF call.caller = "none" THEN UNCHANGED <<native, lastResult>>
     ELSE WrapResult(value, call.group, outcome, call.caller = "evaluate")
  /\ abandoned' = (abandoned \/ call.group = Backtrace)
  /\ UNCHANGED <<sessionVars, created, binders>>

\* wrapCallFrames: the scope and the this object of a frame.
WrapCallFrames(n, scope, this) == Bind(Bind(n, scope, Backtrace), this, Backtrace)

\* didPause: the exception, if there is one, and the call frames.
DidPause(exception, scope, this) ==
  /\ thread = "js" /\ enabled
  /\ InjectedScriptFor
  /\ native' = WrapCallFrames(Bind(native, exception, Backtrace), scope, this)
  /\ thread' = "nested"
  /\ UNCHANGED <<frontend, enabled, lastResult, call, abandoned, binders>>

\* Debugger.getBacktrace, restartFrame and setScriptSource send the call frames
\* again; those sent before stay bound.
SendCallFrames(scope, this) ==
  /\ CanDispatch /\ thread = "nested"
  /\ InjectedScriptFor
  /\ native' = WrapCallFrames(native, scope, this)
  /\ UNCHANGED <<frontend, enabled, lastResult, thread, call, abandoned, binders>>

\* Mutant: the call frames are not released.
ResumeKeepsFrames ==
  /\ CanDispatch /\ thread = "nested"
  /\ thread' = "js" /\ abandoned' = FALSE
  /\ UNCHANGED <<sessionVars, created, native, lastResult, call, binders>>

\* Debugger.resume and the steps release the call frames, then let the program
\* go.
Resume ==
  /\ CanDispatch /\ thread = "nested"
  /\ ReleaseObjectGroupOfScripts(Backtrace)
  /\ thread' = "js" /\ abandoned' = FALSE
  /\ UNCHANGED <<sessionVars, created, call, binders>>

\* JavaScript evaluated in the stop calls the shell's quit(), and the nested
\* loop ends when it is idle.
QuitNestedLoop ==
  /\ CanDispatch /\ thread = "nested"
  /\ AbandonStop
  /\ UNCHANGED <<sessionVars, created, native, lastResult, call, binders>>

Next ==
  \/ ConnectFrontend \/ DisconnectFrontend
  \/ EnableRuntime \/ EnableDebugger \/ DisableDebugger
  \/ \E group \in GroupNames :
       \/ \E byId \in BOOLEAN : Evaluate(group, byId)
       \/ ReleaseObjectGroup(group)
       \/ \E value \in Values :
            \/ GetPromiseById(group, value)
            \/ \E outcome \in Outcomes : EvaluateInStop(group, value, outcome)
  \/ \E id \in Ids :
       \/ CallFunctionOn(id) \/ ReleaseObject(id)
       \/ \E value \in Values :
            \/ GetProperties(id, value)
            \/ \E outcome \in Outcomes : CallFunctionInStop(id, value, outcome)
  \/ RunMainTask \/ Resume \/ QuitNestedLoop
  \/ \E value \in Objects, group \in GroupNames : BindRemoteObject(value, group)
  \/ \E value \in Values, outcome \in Outcomes : FinishJavaScript(value, outcome)
  \/ \E scope \in Objects, this \in Values :
       \/ SendCallFrames(scope, this)
       \/ \E exception \in Values : DidPause(exception, scope, this)

Spec == Init /\ [][Next]_vars

-----------------------------------------------------------------------------
(* Properties.                                                             *)

\* The type of the state.
TypeOK ==
  /\ frontend \in BOOLEAN /\ enabled \in BOOLEAN
  /\ contextId \in BOOLEAN /\ created \in BOOLEAN
  /\ native \in Natives /\ lastResult \in Values
  /\ thread \in Threads /\ call \in Calls
  /\ binders \subseteq GroupNames /\ abandoned \in BOOLEAN

\* The three maps agree, although unbind leaves ids behind in the lists of
\* their groups and ids start again after the last one: an id has a group only
\* while it is bound, and the list of that group has it.  So that whatever the
\* client does with single objects, releasing a group releases all of it.
FindsMembers(n) ==
  \A i \in DOMAIN n.groupOf :
    i \in DOMAIN n.wrapped /\ i \in n.members[n.groupOf[i]]

GroupsFindMembers == FindsMembers(native)

\* While the program runs the inspector holds nothing in the group of the frames
\* of a stop that its client ended: not their scopes, not what was found in them,
\* not what callFunctionOn computed from them.  (A result of evaluateOnCallFrame
\* is in the group the client names.)  It does after a stop that ended by
\* disable, disconnect or quit(), for a client that names the group itself, and
\* for a program that has kept a bindRemoteObject of the group (abandoned).
FramesAreReleased ==
  thread # "nested" /\ ~abandoned =>
    \A i \in DOMAIN native.groupOf : native.groupOf[i] # Backtrace

\* What the table of handles takes besides: until ids start again, every id
\* that a map has was given out before the next one, and an id that the list of
\* a group has is in no other group while it is bound.
Given(n, i) == n.next = 0 \/ i < n.next

IdsAscend(n) ==
  ~n.again =>
    /\ \A i \in DOMAIN n.wrapped : Given(n, i)
    /\ \A g \in Groups : \A i \in n.members[g] :
         Given(n, i) /\ (i \in DOMAIN n.wrapped => GroupName(n, i) = g)

\* Nothing is bound, and no command waits to bind its result, before there is
\* an injected script.
BoundByScript ==
  ~created => DOMAIN native.wrapped = {} /\ call.caller = "none" /\ binders = {}

\* The inductive invariant.
IndInv ==
  /\ TypeOK /\ GroupsFindMembers /\ FramesAreReleased
  /\ IdsAscend(native) /\ BoundByScript

-----------------------------------------------------------------------------
(* The promise.                                                            *)

handles ==
  {[id |-> i, object |-> native.wrapped[i], group |-> GroupName(native, i)] :
     i \in DOMAIN native.wrapped}

Table == INSTANCE HandleTable WITH
           handles <- handles, intact <- ~native.again, NoObject <- Primitive

\* Until ids start again, the maps implement the table of handles: an id keeps
\* naming its object until it or its group is released, and a release takes
\* exactly the handles it names.
ImplementsTable == Table!Spec

=============================================================================
