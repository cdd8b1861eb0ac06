--------------------------- MODULE AsyncCalls_proofs ---------------------------
(***************************************************************************)
(* Proofs about async call tracking, for any call stack depth, any supply  *)
(* of operation ids and any number of microtasks.                          *)
(***************************************************************************)
EXTENDS AsyncCalls, WellFoundedInduction, TLAPS

\* The operations that have a call stack, which the client is told of.
WithChain(a) == {i \in DOMAIN a.ops : a.ops[i] > 0}

\* What the agent's handlers keep, whichever order they are called in: stops
\* are planned in operations that exist, the current operation exists and is
\* to be completed when its callback ends, a step into async has no target
\* yet, and the client's list is that of the agent.
AgentGood(a) ==
  /\ a \in AgentStates
  /\ a.breakpoints \subseteq DOMAIN a.ops /\ a.pausing \subseteq DOMAIN a.ops
  /\ a.currentId # UnknownId => a.currentId \in DOMAIN a.ops /\ a.pending
  /\ a.pausingOn => a.currentId # UnknownId
  /\ a.starting => a.pausing = {} /\ a.scheduledStep = "StepInto"
  /\ a.notifications \subseteq WithChain(a)
  /\ a.open = WithChain(a) \ a.notifications

\* An operation belongs to a reported microtask that is still to run.
HasTask(i) ==
  \E j \in DOMAIN queue : /\ queue[j].instrumented
                          /\ queue[j].id \in DOMAIN tasks
                          /\ tasks[queue[j].id] = i

\* How the agent's state is tied to what V8 is doing.
CurrentRuns == agent.currentId # UnknownId => running = "callback" /\ Tracking
StartingRuns == agent.starting => ~paused

\* Tracking ends with the session, and no operation outlives it.
TrackingEnds ==
  /\ Tracking => enabled
  /\ ~Tracking => DOMAIN agent.ops = {}

\* Microtasks are numbered: the next one is new to the queue.
TasksAreNumbered == \A j \in DOMAIN queue : queue[j].id <= lastTask

\* The inductive invariant.
AsyncInv ==
  /\ TypeOK /\ AgentGood(agent) /\ CurrentRuns /\ StartingRuns
  /\ OperationsEnd /\ TrackingEnds /\ TasksAreNumbered

-----------------------------------------------------------------------------
(* The operators the handlers are made of.                                 *)

\* Min is the least element of a set of natural numbers.
LEMMA MinIsLeast ==
  ASSUME NEW T \in SUBSET Nat, T # {}
  PROVE  Min(T) \in T /\ \A y \in T : Min(T) <= y
<1>1. PICK x \in T : \A y \in T : ~(<<y, x>> \in OpToRel(<, Nat))
  BY NatLessThanWellFounded, WFMin
<1>2. \A y \in T : x <= y
  <2> SUFFICES ASSUME NEW y \in T, y < x PROVE FALSE
    OBVIOUS
  <2>1. <<y, x>> \in Nat \X Nat /\ <<y, x>>[1] < <<y, x>>[2]
    OBVIOUS
  <2> QED  BY <1>1, <2>1 DEF OpToRel
<1> QED  BY <1>2 DEF Min

\* The maps from operations to the lengths of their chains.
OpMaps == UNION {[S -> 0..MaxDepth] : S \in SUBSET OpIds}

LEMMA OpMapsDomain ==
  ASSUME NEW f \in OpMaps
  PROVE  DOMAIN f \subseteq OpIds /\ f \in [DOMAIN f -> 0..MaxDepth]
  BY DEF OpMaps

LEMMA OpMapsIntro ==
  ASSUME NEW S \in SUBSET OpIds, NEW f \in [S -> 0..MaxDepth]
  PROVE  f \in OpMaps
  BY DEF OpMaps

\* An operation without its entry.
LEMMA OpMapsRestrict ==
  ASSUME NEW f \in OpMaps, NEW id
  PROVE  LET g == Restrict(f, DOMAIN f \ {id})
         IN  /\ g \in OpMaps /\ DOMAIN g = DOMAIN f \ {id}
             /\ \A i \in DOMAIN g : g[i] = f[i]
<1>1. DOMAIN f \subseteq OpIds /\ f \in [DOMAIN f -> 0..MaxDepth]
  BY OpMapsDomain
<1> DEFINE S == DOMAIN f \ {id}
           g == Restrict(f, S)
<1>2. S \in SUBSET OpIds /\ g \in [S -> 0..MaxDepth]
  BY <1>1 DEF Restrict
<1>3. g \in OpMaps
  BY <1>2, OpMapsIntro
<1> QED  BY <1>1, <1>3 DEF Restrict

\* An operation more.
LEMMA OpMapsAdd ==
  ASSUME NEW f \in OpMaps, NEW id \in OpIds, NEW n \in 0..MaxDepth
  PROVE  LET g == [i \in DOMAIN f \cup {id} |-> IF i = id THEN n ELSE f[i]]
         IN  /\ g \in OpMaps /\ DOMAIN g = DOMAIN f \cup {id}
             /\ g[id] = n /\ \A i \in DOMAIN f : i # id => g[i] = f[i]
<1>1. DOMAIN f \subseteq OpIds /\ f \in [DOMAIN f -> 0..MaxDepth]
  BY OpMapsDomain
<1> DEFINE S == DOMAIN f \cup {id}
           g == [i \in S |-> IF i = id THEN n ELSE f[i]]
<1>2. S \in SUBSET OpIds /\ g \in [S -> 0..MaxDepth]
  BY <1>1
<1>3. g \in OpMaps
  BY <1>2, OpMapsIntro
<1> QED  BY <1>3

\* A chain never gets longer than the depth allows, and ids are unused.
LEMMA ChainLengthBound ==
  ASSUME NEW a, a.currentChain \in 0..MaxDepth, depth \in 0..MaxDepth, Tracking,
         NEW hasFrames
  PROVE  ChainLength(a, hasFrames) \in 0..depth
<1>1. a.currentChain \in Nat /\ depth \in Nat /\ depth - 1 \in Nat
  BY AsyncBoundsAssumption DEF Tracking
<1>2. /\ Min({a.currentChain, depth}) \in {a.currentChain, depth}
      /\ Min({a.currentChain, depth}) <= depth
  <2>1. {a.currentChain, depth} \in SUBSET Nat /\ {a.currentChain, depth} # {}
    BY <1>1
  <2> QED  BY <2>1, MinIsLeast
<1>3. /\ Min({a.currentChain, depth - 1}) \in {a.currentChain, depth - 1}
      /\ Min({a.currentChain, depth - 1}) <= depth - 1
  <2>1. /\ {a.currentChain, depth - 1} \in SUBSET Nat
        /\ {a.currentChain, depth - 1} # {}
    BY <1>1
  <2> QED  BY <2>1, MinIsLeast
<1>4. Min({a.currentChain, depth}) \in Nat /\ Min({a.currentChain, depth - 1}) \in Nat
  BY <1>1, <1>2, <1>3
<1>5. 1 + Min({a.currentChain, depth - 1}) \in 0..depth
  BY <1>1, <1>3, <1>4
<1>6. Min({a.currentChain, depth}) \in 0..depth
  BY <1>1, <1>2, <1>4
<1> QED  BY <1>5, <1>6 DEF ChainLength

LEMMA NextIdIsFree ==
  ASSUME NEW a, DOMAIN a.ops \subseteq OpIds, DOMAIN a.ops # OpIds
  PROVE  NextId(a) \in OpIds /\ NextId(a) \notin DOMAIN a.ops
<1> DEFINE free  == OpIds \ DOMAIN a.ops
           later == {i \in free : i > a.lastId}
           from  == IF later # {} THEN later ELSE free
<1>1. free \subseteq Nat /\ free # {}
  <2>1. OpIds \subseteq Nat
    BY AsyncBoundsAssumption DEF OpIds
  <2> QED  BY <2>1
<1>2. from \in SUBSET Nat /\ from # {} /\ from \subseteq free
  BY <1>1
<1>3. Min(from) \in from
  BY <1>2, MinIsLeast
<1> QED  BY <1>2, <1>3 DEF NextId

-----------------------------------------------------------------------------
(* The handlers.                                                           *)

LEMMA AgentOps ==
  ASSUME NEW a \in AgentStates
  PROVE  /\ a.ops \in OpMaps /\ DOMAIN a.ops \subseteq OpIds
         /\ a.ops \in [DOMAIN a.ops -> 0..MaxDepth]
         /\ UnknownId \notin DOMAIN a.ops
<1>1. a.ops \in OpMaps
  BY DEF AgentStates, OpMaps
<1>2. UnknownId \notin OpIds
  BY AsyncBoundsAssumption DEF UnknownId, OpIds
<1> QED  BY <1>1, <1>2, OpMapsDomain

LEMMA ClearStepIntoAsyncGood ==
  ASSUME NEW a, AgentGood(a)
  PROVE  LET b == ClearStepIntoAsync(a)
         IN  /\ AgentGood(b) /\ b.ops = a.ops /\ b.currentId = a.currentId
             /\ ~b.starting /\ ~b.pausingOn
<1> DEFINE b == ClearStepIntoAsync(a)
<1>1. a \in AgentStates
  BY DEF AgentGood
<1>2. /\ b \in AgentStates /\ b.ops = a.ops /\ b.currentId = a.currentId
      /\ b.breakpoints = a.breakpoints /\ b.pending = a.pending
      /\ b.notifications = a.notifications /\ b.open = a.open
      /\ b.starting = FALSE /\ b.pausingOn = FALSE /\ b.pausing = {}
  BY <1>1 DEF ClearStepIntoAsync, AgentStates
<1> HIDE DEF b
<1>3. AgentGood(b)
  BY <1>2 DEF AgentGood, WithChain
<1> QED  BY <1>2, <1>3 DEF b

LEMMA FlushGood ==
  ASSUME NEW a, AgentGood(a)
  PROVE  LET b == FlushAsyncOperationEvents(a)
         IN  /\ AgentGood(b) /\ b.ops = a.ops /\ b.currentId = a.currentId
             /\ b.starting = a.starting
<1> DEFINE b == FlushAsyncOperationEvents(a)
<1>1. a \in AgentStates
  BY DEF AgentGood
<1>2. /\ b \in AgentStates /\ b.ops = a.ops /\ b.currentId = a.currentId
      /\ b.breakpoints = a.breakpoints /\ b.pending = a.pending
      /\ b.notifications = {} /\ b.open = a.open \cup a.notifications
      /\ b.starting = a.starting /\ b.pausingOn = a.pausingOn
      /\ b.pausing = a.pausing /\ b.scheduledStep = a.scheduledStep
  BY <1>1 DEF FlushAsyncOperationEvents, AgentStates
<1> HIDE DEF b
<1>3. AgentGood(b)
  BY <1>2 DEF AgentGood, WithChain
<1> QED  BY <1>2, <1>3 DEF b

\* An operation that starts has an id of its own and no breakpoint yet.
LEMMA OperationStartingGood ==
  ASSUME NEW a, AgentGood(a), depth \in 0..MaxDepth, Tracking, NEW hasFrames,
         DOMAIN a.ops # OpIds
  PROVE  LET b == TraceAsyncOperationStarting(a, hasFrames)
         IN  /\ AgentGood(b) /\ b.lastId \in OpIds
             /\ DOMAIN b.ops = DOMAIN a.ops \cup {b.lastId}
             /\ b.currentId = a.currentId /\ ~b.starting
<1> DEFINE id == NextId(a)
           chain == ChainLength(a, hasFrames)
           ops == [i \in DOMAIN a.ops \cup {id} |-> IF i = id THEN chain ELSE a.ops[i]]
           b == [a EXCEPT !.lastId = id, !.ops = ops,
                   !.notifications = IF chain > 0 THEN @ \cup {id} ELSE @]
           c == TraceAsyncOperationStarting(a, hasFrames)
<1>1. a \in AgentStates
  BY DEF AgentGood
<1>2. a.ops \in OpMaps /\ DOMAIN a.ops \subseteq OpIds /\ a.currentChain \in 0..MaxDepth
  BY <1>1, AgentOps DEF AgentStates
<1>3. id \in OpIds /\ id \notin DOMAIN a.ops
  BY <1>2, NextIdIsFree
<1>4. chain \in 0..MaxDepth
  <2>1. chain \in 0..depth
    BY <1>2, ChainLengthBound
  <2> QED  BY <2>1, AsyncBoundsAssumption
<1>5. /\ ops \in OpMaps /\ DOMAIN ops = DOMAIN a.ops \cup {id}
      /\ ops[id] = chain /\ \A i \in DOMAIN a.ops : i # id => ops[i] = a.ops[i]
  BY <1>2, <1>3, <1>4, OpMapsAdd
<1> HIDE DEF id, chain, ops
<1>6. /\ b \in AgentStates /\ b.ops = ops /\ b.lastId = id
      /\ b.notifications = (IF chain > 0 THEN a.notifications \cup {id}
                            ELSE a.notifications)
      /\ b.breakpoints = a.breakpoints /\ b.pausing = a.pausing
      /\ b.currentId = a.currentId /\ b.pending = a.pending
      /\ b.starting = a.starting /\ b.pausingOn = a.pausingOn
      /\ b.scheduledStep = a.scheduledStep /\ b.open = a.open
  <2>1. id \in 0..MaxId
    BY <1>3, AsyncBoundsAssumption DEF OpIds
  <2>2. ops \in UNION {[S -> 0..MaxDepth] : S \in SUBSET OpIds}
    BY <1>5 DEF OpMaps
  <2> QED  BY <1>1, <1>3, <2>1, <2>2 DEF AgentStates
<1>7. c = IF b.starting
            THEN [b EXCEPT !.pausing = @ \cup {id}, !.starting = FALSE,
                           !.scheduledStep = "NoStep", !.v8Step = FALSE]
          ELSE IF b.pausingOn THEN [b EXCEPT !.pausing = @ \cup {id}] ELSE b
  BY DEF TraceAsyncOperationStarting, id, chain, ops
<1>8. /\ c \in AgentStates /\ c.ops = b.ops /\ c.lastId = b.lastId
      /\ c.notifications = b.notifications /\ c.breakpoints = b.breakpoints
      /\ c.pausing \subseteq b.pausing \cup {id} /\ c.currentId = b.currentId
      /\ c.pending = b.pending /\ c.pausingOn = b.pausingOn /\ c.open = b.open
      /\ c.starting = FALSE
  <2> HIDE DEF b, c
  <2>1. b.starting \in BOOLEAN
    BY <1>6 DEF AgentStates
  <2>2. CASE b.starting
    BY <1>3, <1>6, <1>7, <2>2 DEF AgentStates
  <2>3. CASE ~b.starting /\ b.pausingOn
    BY <1>3, <1>6, <1>7, <2>3 DEF AgentStates
  <2>4. CASE ~b.starting /\ ~b.pausingOn
    BY <1>6, <1>7, <2>1, <2>4
  <2> QED  BY <2>2, <2>3, <2>4
<1> HIDE DEF b, c
<1>9. WithChain(c) = IF chain > 0 THEN WithChain(a) \cup {id} ELSE WithChain(a)
  BY <1>3, <1>5, <1>6, <1>8 DEF WithChain
<1>10. AgentGood(c)
  BY <1>3, <1>5, <1>6, <1>8, <1>9 DEF AgentGood, WithChain
<1> QED  BY <1>3, <1>5, <1>6, <1>8, <1>10 DEF c

\* What is left of an operation that is over: nothing.
Forgotten(a, id) ==
  [a EXCEPT !.pending = @ /\ a.currentId # id,
            !.ops = Restrict(@, DOMAIN @ \ {id}),
            !.breakpoints = @ \ {id}, !.pausing = @ \ {id},
            !.open = IF id \in a.notifications THEN @ ELSE @ \ {id},
            !.notifications = @ \ {id}]

LEMMA ForgottenFields ==
  ASSUME NEW a, AgentGood(a), NEW id \in OpIds
  PROVE  LET b == Forgotten(a, id)
         IN  /\ b \in AgentStates /\ DOMAIN b.ops = DOMAIN a.ops \ {id}
             /\ b.breakpoints = a.breakpoints \ {id} /\ b.pausing = a.pausing \ {id}
             /\ b.notifications = a.notifications \ {id}
             /\ b.notifications \subseteq WithChain(b)
             /\ b.open = WithChain(b) \ b.notifications
             /\ b.pending = (a.pending /\ a.currentId # id)
             /\ b.currentId = a.currentId /\ b.pausingOn = a.pausingOn
             /\ b.starting = a.starting /\ b.scheduledStep = a.scheduledStep
<1> DEFINE b == Forgotten(a, id)
           ops == Restrict(a.ops, DOMAIN a.ops \ {id})
<1>1. a \in AgentStates
  BY DEF AgentGood
<1>2. /\ ops \in OpMaps /\ DOMAIN ops = DOMAIN a.ops \ {id}
      /\ \A i \in DOMAIN ops : ops[i] = a.ops[i]
  <2>1. a.ops \in OpMaps
    BY <1>1, AgentOps
  <2> QED  BY <2>1, OpMapsRestrict
<1> HIDE DEF ops
<1>3. b = [a EXCEPT !.pending = @ /\ a.currentId # id, !.ops = ops,
             !.breakpoints = @ \ {id}, !.pausing = @ \ {id},
             !.open = IF id \in a.notifications THEN @ ELSE @ \ {id},
             !.notifications = @ \ {id}]
  BY DEF Forgotten, ops
<1> HIDE DEF b
<1>4. /\ b \in AgentStates /\ b.ops = ops
      /\ b.breakpoints = a.breakpoints \ {id} /\ b.pausing = a.pausing \ {id}
      /\ b.notifications = a.notifications \ {id}
      /\ b.open = (IF id \in a.notifications THEN a.open ELSE a.open \ {id})
      /\ b.pending = (a.pending /\ a.currentId # id)
      /\ b.currentId = a.currentId /\ b.pausingOn = a.pausingOn
      /\ b.starting = a.starting /\ b.scheduledStep = a.scheduledStep
  <2>1. ops \in UNION {[S -> 0..MaxDepth] : S \in SUBSET OpIds}
    BY <1>2 DEF OpMaps
  <2>2. (a.pending /\ a.currentId # id) \in BOOLEAN
    OBVIOUS
  <2> QED  BY <1>1, <1>3, <2>1, <2>2 DEF AgentStates
<1>5. WithChain(b) = WithChain(a) \ {id}
  BY <1>2, <1>4 DEF WithChain
<1>6. b.notifications \subseteq WithChain(b) /\ b.open = WithChain(b) \ b.notifications
  BY <1>4, <1>5 DEF AgentGood
<1> QED  BY <1>2, <1>4, <1>6 DEF b

\* traceAsyncOperationCompleted for an operation that is not current.
LEMMA OperationCompletedGood ==
  ASSUME NEW a, AgentGood(a), NEW id \in OpIds, a.currentId # id
  PROVE  LET c == TraceAsyncOperationCompleted(a, id)
         IN  /\ AgentGood(c) /\ DOMAIN c.ops = DOMAIN a.ops \ {id}
             /\ c.currentId = a.currentId /\ (c.starting => a.starting)
<1> DEFINE b == Forgotten(a, id)
           c == TraceAsyncOperationCompleted(a, id)
<1>1. /\ b \in AgentStates /\ DOMAIN b.ops = DOMAIN a.ops \ {id}
      /\ b.breakpoints = a.breakpoints \ {id} /\ b.pausing = a.pausing \ {id}
      /\ b.notifications \subseteq WithChain(b)
      /\ b.open = WithChain(b) \ b.notifications
      /\ b.pending = (a.pending /\ a.currentId # id)
      /\ b.currentId = a.currentId /\ b.pausingOn = a.pausingOn
      /\ b.starting = a.starting /\ b.scheduledStep = a.scheduledStep
  BY ForgottenFields
<1>2. c = IF b.starting /\ ~b.pausingOn /\ b.pausing = {}
            THEN ClearStepIntoAsync(b) ELSE b
  BY DEF TraceAsyncOperationCompleted, Forgotten
<1> HIDE DEF b, c
<1>3. AgentGood(b)
  BY <1>1 DEF AgentGood
<1>4. CASE c = b
  BY <1>1, <1>3, <1>4 DEF c
<1>5. CASE c = ClearStepIntoAsync(b)
  BY <1>1, <1>3, <1>5, ClearStepIntoAsyncGood DEF c
<1> QED  BY <1>2, <1>4, <1>5

\* willHandleV8AsyncTask: an operation with a call stack becomes current and is
\* completed when the callback ends, any other is over at once.
LEMMA WillHandleGood ==
  ASSUME NEW a, AgentGood(a), a.currentId = UnknownId, NEW op \in OpIds
  PROVE  LET c == TraceAsyncOperationCompleted(TraceAsyncCallbackStarting(a, op), op)
         IN  /\ AgentGood(c) /\ (c.starting => a.starting)
             /\ \/ c.currentId = op /\ DOMAIN c.ops = DOMAIN a.ops
                \/ c.currentId = UnknownId /\ DOMAIN c.ops = DOMAIN a.ops \ {op}
<1> DEFINE b == TraceAsyncCallbackStarting(a, op)
           c == TraceAsyncOperationCompleted(b, op)
<1>1. a \in AgentStates /\ UnknownId \notin OpIds
  BY AsyncBoundsAssumption DEF AgentGood, UnknownId, OpIds
<1>2. CASE op \notin DOMAIN a.ops \/ a.ops[op] = 0
  <2>1. b = a /\ a.currentId # op
    BY <1>1, <1>2 DEF TraceAsyncCallbackStarting
  <2> QED  BY <2>1, OperationCompletedGood
<1>3. CASE op \in DOMAIN a.ops /\ a.ops[op] # 0
  <2> DEFINE d == [a EXCEPT !.currentId = op, !.currentChain = a.ops[op],
                            !.pending = FALSE]
  <2>1. a.ops[op] \in 0..MaxDepth /\ op \in 0..MaxId
    BY <1>1, <1>3, AgentOps, AsyncBoundsAssumption DEF OpIds
  <2>2. /\ d \in AgentStates /\ d.currentId = op /\ d.pending = FALSE
        /\ d.ops = a.ops /\ d.breakpoints = a.breakpoints
        /\ d.pausing = a.pausing /\ d.notifications = a.notifications
        /\ d.open = a.open /\ d.starting = a.starting
        /\ d.scheduledStep = a.scheduledStep
    BY <1>1, <2>1 DEF AgentStates
  <2>3. b = IF op \in a.pausing \cup a.breakpoints
              THEN [d EXCEPT !.pausingOn = TRUE, !.scheduledStep = "StepInto",
                             !.debugBreak = TRUE]
              ELSE d
    BY <1>3 DEF TraceAsyncCallbackStarting
  <2> HIDE DEF d
  <2>4. /\ b \in AgentStates /\ b.currentId = op /\ b.pending = FALSE
        /\ b.ops = a.ops /\ b.breakpoints = a.breakpoints
        /\ b.pausing = a.pausing /\ b.notifications = a.notifications
        /\ b.open = a.open /\ b.starting = a.starting
        /\ b.scheduledStep \in {"StepInto", a.scheduledStep}
    <3> HIDE DEF b
    <3>1. CASE op \in a.pausing \cup a.breakpoints
      BY <2>2, <2>3, <3>1 DEF AgentStates
    <3>2. CASE op \notin a.pausing \cup a.breakpoints
      BY <2>2, <2>3, <3>2
    <3> QED  BY <3>1, <3>2
  <2>5. c = [b EXCEPT !.pending = TRUE]
    <3> HIDE DEF b
    <3> QED  BY <2>4 DEF TraceAsyncOperationCompleted
  <2> HIDE DEF b, c
  <2>6. /\ c \in AgentStates /\ c.currentId = op /\ c.pending = TRUE
        /\ c.ops = a.ops /\ c.breakpoints = a.breakpoints
        /\ c.pausing = a.pausing /\ c.notifications = a.notifications
        /\ c.open = a.open /\ c.starting = a.starting
        /\ c.scheduledStep \in {"StepInto", a.scheduledStep}
    BY <2>4, <2>5 DEF AgentStates
  <2>7. AgentGood(c)
    BY <1>1, <1>3, <2>6 DEF AgentGood, WithChain
  <2> QED  BY <2>6, <2>7 DEF b, c
<1> QED  BY <1>2, <1>3

\* The current operation, if there is one, is forgotten with all that belongs
\* to it; only pausingOn is left for the caller to clear.
LEMMA ClearCurrentFields ==
  ASSUME NEW a, AgentGood(a)
  PROVE  LET b == ClearCurrentAsyncOperation(a)
         IN  /\ b \in AgentStates /\ DOMAIN b.ops = DOMAIN a.ops \ {a.currentId}
             /\ b.breakpoints \subseteq DOMAIN b.ops /\ b.pausing \subseteq DOMAIN b.ops
             /\ b.notifications \subseteq WithChain(b)
             /\ b.open = WithChain(b) \ b.notifications
             /\ b.currentId = UnknownId
             /\ b.starting => /\ a.starting /\ b.pausing = {}
                              /\ b.scheduledStep = "StepInto"
<1> DEFINE id == a.currentId
           g == Forgotten(a, id)
           d == IF g.starting /\ ~g.pausingOn /\ g.pausing = {}
                  THEN ClearStepIntoAsync(g) ELSE g
           e == IF a.pending /\ id # UnknownId THEN d ELSE a
           b == ClearCurrentAsyncOperation(a)
<1>1. a \in AgentStates /\ UnknownId \notin DOMAIN a.ops /\ DOMAIN a.ops \subseteq OpIds
  BY AgentOps DEF AgentGood
<1>2. b = [e EXCEPT !.currentId = UnknownId, !.currentChain = 0, !.pending = FALSE]
  BY DEF ClearCurrentAsyncOperation, TraceAsyncOperationCompleted, Forgotten
<1>3. /\ e \in AgentStates /\ DOMAIN e.ops = DOMAIN a.ops \ {id}
      /\ e.breakpoints \subseteq DOMAIN e.ops /\ e.pausing \subseteq DOMAIN e.ops
      /\ e.notifications \subseteq WithChain(e)
      /\ e.open = WithChain(e) \ e.notifications
      /\ e.starting => a.starting /\ e.pausing = {} /\ e.scheduledStep = "StepInto"
  <2>1. CASE id = UnknownId
    BY <1>1, <2>1 DEF AgentGood
  <2>2. CASE id # UnknownId
    <3>1. id \in OpIds /\ e = d
      BY <1>1, <2>2 DEF AgentGood
    <3>2. /\ g \in AgentStates /\ DOMAIN g.ops = DOMAIN a.ops \ {id}
          /\ g.breakpoints = a.breakpoints \ {id} /\ g.pausing = a.pausing \ {id}
          /\ g.notifications \subseteq WithChain(g)
          /\ g.open = WithChain(g) \ g.notifications
          /\ g.starting = a.starting /\ g.scheduledStep = a.scheduledStep
      BY <3>1, ForgottenFields
    <3> HIDE DEF g, id
    <3>3. /\ g.breakpoints \subseteq DOMAIN g.ops /\ g.pausing \subseteq DOMAIN g.ops
          /\ g.starting => a.starting /\ g.pausing = {} /\ g.scheduledStep = "StepInto"
      BY <3>2 DEF AgentGood
    <3>4. CASE d = g
      BY <3>1, <3>2, <3>3, <3>4
    <3>5. CASE d = ClearStepIntoAsync(g)
      <4> HIDE DEF d, e
      <4>1. /\ d \in AgentStates /\ d.ops = g.ops /\ d.breakpoints = g.breakpoints
            /\ d.pausing = {} /\ d.notifications = g.notifications
            /\ d.open = g.open /\ d.starting = FALSE
        BY <3>2, <3>5 DEF ClearStepIntoAsync, AgentStates
      <4>2. WithChain(d) = WithChain(g)
        BY <4>1 DEF WithChain
      <4> QED  BY <3>1, <3>2, <3>3, <4>1, <4>2
    <3> QED  BY <3>4, <3>5
  <2> QED  BY <2>1, <2>2
<1> HIDE DEF e, b
<1>4. /\ b \in AgentStates /\ b.ops = e.ops /\ b.breakpoints = e.breakpoints
      /\ b.pausing = e.pausing /\ b.notifications = e.notifications
      /\ b.open = e.open /\ b.currentId = UnknownId /\ b.starting = e.starting
      /\ b.scheduledStep = e.scheduledStep
  <2>1. UnknownId \in 0..MaxId /\ 0 \in 0..MaxDepth
    BY AsyncBoundsAssumption DEF UnknownId
  <2> QED  BY <1>2, <1>3, <2>1 DEF AgentStates
<1>5. WithChain(b) = WithChain(e)
  BY <1>4 DEF WithChain
<1> QED  BY <1>3, <1>4, <1>5 DEF b

LEMMA CallbackCompletedGood ==
  ASSUME NEW a, AgentGood(a)
  PROVE  LET c == TraceAsyncCallbackCompleted(a)
         IN  /\ AgentGood(c) /\ DOMAIN c.ops = DOMAIN a.ops \ {a.currentId}
             /\ c.currentId = UnknownId /\ (c.starting => a.starting)
<1> DEFINE b == ClearCurrentAsyncOperation(a)
           d == [b EXCEPT !.pausingOn = FALSE, !.scheduledStep = "NoStep",
                          !.debugBreak = FALSE]
           c == TraceAsyncCallbackCompleted(a)
<1>1. CASE a.currentId = UnknownId
  <2>1. c = a
    BY <1>1 DEF TraceAsyncCallbackCompleted
  <2>2. UnknownId \notin DOMAIN a.ops
    BY AgentOps DEF AgentGood
  <2> QED  BY <1>1, <2>1, <2>2
<1>2. CASE a.currentId # UnknownId
  <2>1. /\ b \in AgentStates /\ DOMAIN b.ops = DOMAIN a.ops \ {a.currentId}
        /\ b.breakpoints \subseteq DOMAIN b.ops /\ b.pausing \subseteq DOMAIN b.ops
        /\ b.notifications \subseteq WithChain(b)
        /\ b.open = WithChain(b) \ b.notifications
        /\ b.currentId = UnknownId
        /\ b.starting => /\ a.starting /\ b.pausing = {}
                         /\ b.scheduledStep = "StepInto"
    BY ClearCurrentFields
  <2>2. c = IF ~b.pausingOn THEN b
            ELSE IF d.starting /\ d.pausing = {} THEN ClearStepIntoAsync(d) ELSE d
    BY <1>2 DEF TraceAsyncCallbackCompleted
  <2> HIDE DEF b, c
  <2>3. CASE ~b.pausingOn
    <3>1. c = b
      BY <2>2, <2>3
    <3>2. AgentGood(b)
      BY <2>1, <2>3 DEF AgentGood
    <3> QED  BY <2>1, <3>1, <3>2 DEF c
  <2>4. CASE b.pausingOn
    <3>1. /\ d \in AgentStates /\ d.ops = b.ops /\ d.breakpoints = b.breakpoints
          /\ d.pausing = b.pausing /\ d.notifications = b.notifications
          /\ d.open = b.open /\ d.currentId = UnknownId /\ d.starting = b.starting
          /\ d.pausingOn = FALSE
      BY <2>1 DEF AgentStates
    <3>2. WithChain(d) = WithChain(b)
      BY <3>1 DEF WithChain
    <3> HIDE DEF d
    <3>3. CASE d.starting
      <4>1. c = ClearStepIntoAsync(d)
        BY <2>1, <2>2, <2>4, <3>1, <3>3
      <4>2. /\ c \in AgentStates /\ c.ops = d.ops /\ c.breakpoints = d.breakpoints
            /\ c.pausing = {} /\ c.notifications = d.notifications
            /\ c.open = d.open /\ c.currentId = UnknownId /\ c.starting = FALSE
            /\ c.pausingOn = FALSE
        BY <3>1, <4>1 DEF ClearStepIntoAsync, AgentStates
      <4>3. WithChain(c) = WithChain(d)
        BY <4>2 DEF WithChain
      <4>4. AgentGood(c)
        BY <2>1, <3>1, <3>2, <4>2, <4>3 DEF AgentGood
      <4> QED  BY <2>1, <3>1, <4>2, <4>4 DEF c
    <3>4. CASE ~d.starting
      <4>1. c = d
        BY <2>2, <2>4, <3>4
      <4>2. AgentGood(d)
        BY <2>1, <3>1, <3>2, <3>4 DEF AgentGood
      <4> QED  BY <2>1, <3>1, <3>4, <4>1, <4>2 DEF c
    <3> QED  BY <3>3, <3>4
  <2> QED  BY <2>3, <2>4
<1> QED  BY <1>1, <1>2

LEMMA ResetGood ==
  ASSUME NEW a, AgentGood(a)
  PROVE  LET c == ResetAsyncCallTracker(a)
         IN  /\ AgentGood(c) /\ DOMAIN c.ops = {} /\ c.currentId = UnknownId
             /\ ~c.starting /\ ~c.pausingOn
<1> DEFINE b == ClearCurrentAsyncOperation(a)
           d == ClearStepIntoAsync(b)
           c == ResetAsyncCallTracker(a)
<1>1. b \in AgentStates /\ b.currentId = UnknownId
  BY ClearCurrentFields
<1>2. c = [d EXCEPT !.ops = << >>, !.notifications = {}, !.breakpoints = {},
                    !.open = {}]
  BY DEF ResetAsyncCallTracker
<1> HIDE DEF b
<1>3. /\ d \in AgentStates /\ d.currentId = UnknownId /\ d.starting = FALSE
      /\ d.pausingOn = FALSE /\ d.pausing = {}
  BY <1>1 DEF ClearStepIntoAsync, AgentStates
<1> HIDE DEF c, d
<1>4. << >> \in UNION {[S -> 0..MaxDepth] : S \in SUBSET OpIds} /\ DOMAIN << >> = {}
  <2>1. {} \in SUBSET OpIds /\ << >> \in [{} -> 0..MaxDepth]
    OBVIOUS
  <2> QED  BY <2>1
<1>5. /\ c \in AgentStates /\ c.ops = << >> /\ c.notifications = {}
      /\ c.breakpoints = {} /\ c.open = {} /\ c.pausing = {}
      /\ c.currentId = UnknownId /\ c.starting = FALSE /\ c.pausingOn = FALSE
  BY <1>2, <1>3, <1>4 DEF AgentStates
<1>6. AgentGood(c)
  BY <1>4, <1>5 DEF AgentGood, WithChain
<1> QED  BY <1>4, <1>5, <1>6 DEF c

-----------------------------------------------------------------------------
(* The steps.                                                              *)

LEMMA AsyncInit == Init => AsyncInv
<1> SUFFICES ASSUME Init PROVE AsyncInv
  OBVIOUS
<1>1. /\ << >> \in UNION {[S -> 0..MaxDepth] : S \in SUBSET OpIds}
      /\ << >> \in UNION {[S -> OpIds] : S \in SUBSET TaskIds}
      /\ DOMAIN << >> = {}
  <2>1. {} \in SUBSET OpIds /\ << >> \in [{} -> 0..MaxDepth]
    OBVIOUS
  <2>2. {} \in SUBSET TaskIds /\ << >> \in [{} -> OpIds]
    OBVIOUS
  <2> QED  BY <2>1, <2>2
<1>2. 0 \in 0..MaxDepth /\ 0 \in 0..MaxId /\ 0 \in 0..MaxTasks
  BY AsyncBoundsAssumption
<1>3. /\ agent \in AgentStates /\ agent.ops = << >> /\ agent.notifications = {}
      /\ agent.breakpoints = {} /\ agent.open = {} /\ agent.pausing = {}
      /\ agent.currentId = UnknownId /\ agent.starting = FALSE
      /\ agent.pausingOn = FALSE
  BY <1>1, <1>2 DEF Init, AgentStates, UnknownId
<1>4. AgentGood(agent)
  BY <1>1, <1>3 DEF AgentGood, WithChain
<1>5. /\ enabled = FALSE /\ depth = 0 /\ tasks = << >> /\ queue = << >>
      /\ lastTask = 0 /\ running = "loop" /\ paused = FALSE
  BY DEF Init
<1>6. queue \in Seq(Microtasks)
  BY <1>5
<1>7. TypeOK
  BY <1>1, <1>2, <1>3, <1>5, <1>6 DEF TypeOK, Activities
<1>8. CurrentRuns /\ StartingRuns /\ TasksAreNumbered
  BY <1>1, <1>3, <1>5 DEF CurrentRuns, StartingRuns, TasksAreNumbered
<1>9. OperationsEnd /\ TrackingEnds
  BY <1>1, <1>3, <1>5 DEF OperationsEnd, TrackingEnds, Tracking
<1> QED  BY <1>4, <1>7, <1>8, <1>9 DEF AsyncInv

\* Steps that leave the program and the microtasks where they are: the
\* operations stay, or tracking is reset.
LEMMA AgentStep ==
  ASSUME AsyncInv, UNCHANGED <<tasks, queue, lastTask, running>>,
         AgentGood(agent'), enabled' \in BOOLEAN, depth' \in 0..MaxDepth,
         paused' \in BOOLEAN,
         \/ /\ DOMAIN agent'.ops = DOMAIN agent.ops
            /\ agent'.currentId = agent.currentId
            /\ depth' = depth \/ depth' > 0
         \/ DOMAIN agent'.ops = {} /\ agent'.currentId = UnknownId,
         depth' > 0 => enabled', agent'.starting => ~paused'
  PROVE  AsyncInv'
<1>1. TypeOK'
  BY DEF AsyncInv, TypeOK, AgentGood
<1>2. AgentGood(agent)'
  BY DEF AgentGood, WithChain, UnknownId, AgentStates, OpIds
<1>3. CurrentRuns'
  BY DEF AsyncInv, CurrentRuns, Tracking, UnknownId
<1>4. StartingRuns' /\ TasksAreNumbered'
  BY DEF AsyncInv, StartingRuns, TasksAreNumbered
<1>5. OperationsEnd'
  BY DEF AsyncInv, OperationsEnd
<1>6. TrackingEnds'
  BY DEF AsyncInv, TrackingEnds, Tracking
<1> QED  BY <1>1, <1>2, <1>3, <1>4, <1>5, <1>6 DEF AsyncInv

\* The program runs on, outside of reported callbacks.
LEMMA ProgramStep ==
  ASSUME AsyncInv, running \in {"loop", "script"}, running' \in Activities,
         UNCHANGED <<enabled, depth, agent, tasks, queue, lastTask, paused>>
  PROVE  AsyncInv'
<1>1. TypeOK'
  BY DEF AsyncInv, TypeOK
<1>2. AgentGood(agent)'
  BY DEF AsyncInv, AgentGood, WithChain, UnknownId, AgentStates, OpIds
<1>3. CurrentRuns'
  BY DEF AsyncInv, CurrentRuns, UnknownId
<1>4. StartingRuns' /\ TasksAreNumbered' /\ OperationsEnd' /\ TrackingEnds'
  BY DEF AsyncInv, StartingRuns, TasksAreNumbered, OperationsEnd, TrackingEnds,
     Tracking
<1> QED  BY <1>1, <1>2, <1>3, <1>4 DEF AsyncInv

\* The commands of the client, and what V8 does at a break.
LEMMA CommandStep ==
  ASSUME AsyncInv,
         \/ Enable \/ Disable \/ Pause \/ StepIntoAsync \/ FlushCommand
         \/ \E d \in 0..MaxDepth : SetAsyncCallStackDepth(d)
         \/ \E step \in {"NoStep", "StepInto", "other"} : Resume(step)
         \/ \E id \in OpIds : \/ SetAsyncOperationBreakpoint(id)
                              \/ RemoveAsyncOperationBreakpoint(id)
  PROVE  AsyncInv'
<1>0. /\ TypeOK /\ AgentGood(agent) /\ StartingRuns /\ TrackingEnds
      /\ agent \in AgentStates
  BY DEF AsyncInv, AgentGood
<1>1. CASE Enable
  BY <1>0, <1>1, AgentStep DEF Enable, TypeOK, StartingRuns, TrackingEnds, Tracking
<1>2. CASE Disable
  <2> DEFINE b == ResetAsyncCallTracker(agent)
             c == [b EXCEPT !.scheduledStep = "NoStep", !.pauseScheduled = FALSE,
                            !.v8Step = FALSE]
  <2>1. /\ AgentGood(b) /\ DOMAIN b.ops = {} /\ b.currentId = UnknownId
        /\ ~b.starting /\ ~b.pausingOn
    BY <1>0, ResetGood
  <2> HIDE DEF b
  <2>2. /\ c \in AgentStates /\ c.ops = b.ops /\ c.currentId = b.currentId
        /\ c.pending = b.pending /\ c.breakpoints = b.breakpoints
        /\ c.pausing = b.pausing /\ c.notifications = b.notifications
        /\ c.open = b.open /\ c.starting = b.starting /\ c.pausingOn = b.pausingOn
    <3>1. b \in AgentStates
      BY <2>1 DEF AgentGood
    <3> QED  BY <3>1 DEF AgentStates
  <2> HIDE DEF c
  <2>3. AgentGood(c)
    BY <2>1, <2>2 DEF AgentGood, WithChain
  <2>4. /\ agent' = c /\ enabled' = FALSE /\ depth' = 0 /\ paused' = FALSE
        /\ UNCHANGED <<tasks, queue, lastTask, running>> /\ 0 \in 0..MaxDepth
    BY <1>2, AsyncBoundsAssumption DEF Disable, c, b
  <2>5. /\ AgentGood(agent') /\ DOMAIN agent'.ops = {}
        /\ agent'.currentId = UnknownId /\ ~agent'.starting
    BY <2>1, <2>2, <2>3, <2>4
  <2>6. ~(depth' > 0) /\ depth' \in 0..MaxDepth
    BY <2>4
  <2> QED  BY <2>4, <2>5, <2>6, AgentStep
<1>3. CASE Pause
  <2> DEFINE b == ClearStepIntoAsync(agent)
             c == [b EXCEPT !.pauseScheduled = TRUE, !.scheduledStep = "NoStep",
                            !.debugBreak = TRUE]
  <2>1. /\ AgentGood(b) /\ b.ops = agent.ops /\ b.currentId = agent.currentId
        /\ ~b.starting
    BY <1>0, ClearStepIntoAsyncGood
  <2> HIDE DEF b
  <2>2. /\ c \in AgentStates /\ c.ops = b.ops /\ c.currentId = b.currentId
        /\ c.pending = b.pending /\ c.breakpoints = b.breakpoints
        /\ c.pausing = b.pausing /\ c.notifications = b.notifications
        /\ c.open = b.open /\ c.starting = b.starting /\ c.pausingOn = b.pausingOn
    <3>1. b \in AgentStates
      BY <2>1 DEF AgentGood
    <3> QED  BY <3>1 DEF AgentStates
  <2> HIDE DEF c
  <2>3. AgentGood(c)
    BY <2>1, <2>2 DEF AgentGood, WithChain
  <2>4. agent' = c /\ UNCHANGED <<enabled, depth, tasks, queue, lastTask, running, paused>>
    BY <1>3 DEF Pause, c, b
  <2> QED  BY <1>0, <2>1, <2>2, <2>3, <2>4, AgentStep DEF TypeOK, TrackingEnds, Tracking
<1>4. CASE StepIntoAsync
  <2> DEFINE b == ClearStepIntoAsync(agent)
             c == [b EXCEPT !.starting = TRUE, !.scheduledStep = "StepInto",
                            !.v8Step = TRUE]
  <2>1. /\ AgentGood(b) /\ b.ops = agent.ops /\ b.currentId = agent.currentId
        /\ b.pausing = {}
    <3>1. AgentGood(b) /\ b.ops = agent.ops /\ b.currentId = agent.currentId
      BY <1>0, ClearStepIntoAsyncGood
    <3>2. b.pausing = {}
      BY <1>0 DEF ClearStepIntoAsync, AgentStates
    <3> QED  BY <3>1, <3>2
  <2> HIDE DEF b
  <2>2. /\ c \in AgentStates /\ c.ops = b.ops /\ c.currentId = b.currentId
        /\ c.pending = b.pending /\ c.breakpoints = b.breakpoints
        /\ c.pausing = b.pausing /\ c.notifications = b.notifications
        /\ c.open = b.open /\ c.scheduledStep = "StepInto" /\ c.pausingOn = b.pausingOn
    <3>1. b \in AgentStates
      BY <2>1 DEF AgentGood
    <3> QED  BY <3>1 DEF AgentStates
  <2> HIDE DEF c
  <2>3. AgentGood(c)
    BY <2>1, <2>2 DEF AgentGood, WithChain
  <2>4. /\ agent' = c /\ paused' = FALSE
        /\ UNCHANGED <<enabled, depth, tasks, queue, lastTask, running>>
    BY <1>4 DEF StepIntoAsync, c, b
  <2> QED  BY <1>0, <2>1, <2>2, <2>3, <2>4, AgentStep DEF TypeOK, TrackingEnds, Tracking
<1>5. CASE FlushCommand
  <2> DEFINE b == FlushAsyncOperationEvents(agent)
  <2>1. /\ AgentGood(b) /\ b.ops = agent.ops /\ b.currentId = agent.currentId
        /\ b.starting = agent.starting
    BY <1>0, FlushGood
  <2>2. agent' = b /\ UNCHANGED <<enabled, depth, tasks, queue, lastTask, running, paused>>
    BY <1>5 DEF FlushCommand
  <2> HIDE DEF b
  <2> QED  BY <1>0, <2>1, <2>2, AgentStep DEF TypeOK, StartingRuns, TrackingEnds, Tracking
<1>6. ASSUME NEW d \in 0..MaxDepth, SetAsyncCallStackDepth(d) PROVE AsyncInv'
  <2>1. /\ enabled /\ depth' = d /\ agent' = (IF d = 0 THEN ResetAsyncCallTracker(agent) ELSE agent)
        /\ UNCHANGED <<enabled, tasks, queue, lastTask, running, paused>>
    BY <1>6 DEF SetAsyncCallStackDepth
  <2>2. CASE d = 0
    <3> DEFINE b == ResetAsyncCallTracker(agent)
    <3>1. /\ AgentGood(b) /\ DOMAIN b.ops = {} /\ b.currentId = UnknownId /\ ~b.starting
      BY <1>0, ResetGood
    <3>2. agent' = b
      BY <2>1, <2>2
    <3> HIDE DEF b
    <3> QED  BY <1>0, <2>1, <2>2, <3>1, <3>2, AgentStep DEF TypeOK
  <2>3. CASE d # 0
    <3>1. agent' = agent /\ d > 0
      BY <2>1, <2>3, AsyncBoundsAssumption
    <3> QED  BY <1>0, <2>1, <3>1, AgentStep DEF TypeOK, StartingRuns
  <2> QED  BY <2>2, <2>3
<1>7. ASSUME NEW step \in {"NoStep", "StepInto", "other"}, Resume(step) PROVE AsyncInv'
  <2> DEFINE c == [agent EXCEPT !.scheduledStep = step, !.v8Step = @ \/ step # "NoStep"]
  <2>1. /\ agent' = c /\ paused /\ paused' = FALSE
        /\ UNCHANGED <<enabled, depth, tasks, queue, lastTask, running>>
    BY <1>7 DEF Resume
  <2>2. ~agent.starting
    BY <1>0, <2>1 DEF StartingRuns
  <2>3. /\ c \in AgentStates /\ c.ops = agent.ops /\ c.currentId = agent.currentId
        /\ c.pending = agent.pending /\ c.breakpoints = agent.breakpoints
        /\ c.pausing = agent.pausing /\ c.notifications = agent.notifications
        /\ c.open = agent.open /\ c.starting = agent.starting
        /\ c.pausingOn = agent.pausingOn
    <3>1. (agent.v8Step \/ step # "NoStep") \in BOOLEAN
      OBVIOUS
    <3> QED  BY <1>0, <3>1 DEF AgentStates
  <2> HIDE DEF c
  <2>4. AgentGood(c)
    BY <1>0, <2>2, <2>3 DEF AgentGood, WithChain
  <2> QED  BY <1>0, <2>1, <2>2, <2>3, <2>4, AgentStep DEF TypeOK, TrackingEnds, Tracking
<1>8. ASSUME NEW id \in OpIds, \/ SetAsyncOperationBreakpoint(id)
                               \/ RemoveAsyncOperationBreakpoint(id)
      PROVE  AsyncInv'
  <2>1. PICK B \in SUBSET DOMAIN agent.ops : agent' = [agent EXCEPT !.breakpoints = B]
    BY <1>0, <1>8 DEF SetAsyncOperationBreakpoint, RemoveAsyncOperationBreakpoint,
       AgentGood
  <2>2. UNCHANGED <<enabled, depth, tasks, queue, lastTask, running, paused>>
    BY <1>8 DEF SetAsyncOperationBreakpoint, RemoveAsyncOperationBreakpoint
  <2> DEFINE c == [agent EXCEPT !.breakpoints = B]
  <2>3. /\ c \in AgentStates /\ c.ops = agent.ops /\ c.currentId = agent.currentId
        /\ c.pending = agent.pending /\ c.breakpoints = B
        /\ c.pausing = agent.pausing /\ c.notifications = agent.notifications
        /\ c.open = agent.open /\ c.starting = agent.starting
        /\ c.pausingOn = agent.pausingOn /\ c.scheduledStep = agent.scheduledStep
    <3>1. B \in SUBSET OpIds
      BY <1>0, AgentOps
    <3> QED  BY <1>0, <3>1 DEF AgentStates
  <2>4. agent' = c
    BY <2>1
  <2> HIDE DEF c
  <2>5. AgentGood(c)
    BY <1>0, <2>3 DEF AgentGood, WithChain
  <2> QED  BY <1>0, <2>2, <2>3, <2>4, <2>5, AgentStep DEF TypeOK, StartingRuns, TrackingEnds, Tracking
<1> QED  BY <1>1, <1>2, <1>3, <1>4, <1>5, <1>6, <1>7, <1>8

\* A break changes what V8 is asked for, nothing of the operations.
LEMMA BrokenGood ==
  ASSUME NEW a, AgentGood(a), NEW kind
  PROVE  LET b == Broken(a, kind)
         IN  /\ AgentGood(b) /\ b.ops = a.ops /\ b.currentId = a.currentId
             /\ b.starting = a.starting
<1> DEFINE b == Broken(a, kind)
<1>1. a \in AgentStates
  BY DEF AgentGood
<1>2. /\ b \in AgentStates /\ b.ops = a.ops /\ b.currentId = a.currentId
      /\ b.pending = a.pending /\ b.breakpoints = a.breakpoints
      /\ b.pausing = a.pausing /\ b.notifications = a.notifications
      /\ b.open = a.open /\ b.starting = a.starting /\ b.pausingOn = a.pausingOn
      /\ b.scheduledStep = a.scheduledStep
  <2>1. /\ (a.debugBreak /\ kind \notin {"interrupt", "debugger"}) \in BOOLEAN
        /\ (a.v8Step /\ kind \notin {"step", "breakpoint"}) \in BOOLEAN
    OBVIOUS
  <2> QED  BY <1>1, <2>1 DEF Broken, AgentStates
<1> HIDE DEF b
<1>3. AgentGood(b)
  BY <1>2 DEF AgentGood, WithChain
<1> QED  BY <1>2, <1>3 DEF b

LEMMA BreakStep ==
  ASSUME AsyncInv, NEW kind, Stop(kind) \/ \E stepOn \in BOOLEAN : Skip(kind, stepOn)
  PROVE  AsyncInv'
<1>0. /\ TypeOK /\ AgentGood(agent) /\ StartingRuns /\ TrackingEnds
  BY DEF AsyncInv
<1> DEFINE a == Broken(agent, kind)
<1>1. /\ AgentGood(a) /\ a.ops = agent.ops /\ a.currentId = agent.currentId
      /\ a.starting = agent.starting
  BY <1>0, BrokenGood
<1>2. CASE Stop(kind)
  <2> DEFINE f == FlushAsyncOperationEvents(a)
             b == ClearStepIntoAsync(f)
             c == [b EXCEPT !.scheduledStep = "NoStep", !.pauseScheduled = FALSE]
  <2>1. /\ agent' = c /\ paused' = TRUE
        /\ UNCHANGED <<enabled, depth, tasks, queue, lastTask, running>>
    BY <1>2 DEF Stop
  <2> HIDE DEF a
  <2>2. AgentGood(f) /\ f.ops = a.ops /\ f.currentId = a.currentId
    BY <1>1, FlushGood
  <2> HIDE DEF f
  <2>3. AgentGood(b) /\ b.ops = f.ops /\ b.currentId = f.currentId /\ ~b.starting
    BY <2>2, ClearStepIntoAsyncGood
  <2> HIDE DEF b
  <2>4. /\ c \in AgentStates /\ c.ops = b.ops /\ c.currentId = b.currentId
        /\ c.pending = b.pending /\ c.breakpoints = b.breakpoints
        /\ c.pausing = b.pausing /\ c.notifications = b.notifications
        /\ c.open = b.open /\ c.starting = b.starting /\ c.pausingOn = b.pausingOn
    <3>1. b \in AgentStates
      BY <2>3 DEF AgentGood
    <3> QED  BY <3>1 DEF AgentStates
  <2> HIDE DEF c
  <2>5. AgentGood(c)
    BY <2>3, <2>4 DEF AgentGood, WithChain
  <2>6. /\ AgentGood(agent') /\ DOMAIN agent'.ops = DOMAIN agent.ops
        /\ agent'.currentId = agent.currentId /\ ~agent'.starting
    BY <1>1, <2>1, <2>2, <2>3, <2>4, <2>5
  <2> QED  BY <1>0, <2>1, <2>6, AgentStep DEF TypeOK, TrackingEnds, Tracking
<1>3. ASSUME NEW stepOn \in BOOLEAN, Skip(kind, stepOn) PROVE AsyncInv'
  <2> DEFINE c == [a EXCEPT !.v8Step = @ \/ stepOn]
  <2>1. agent' = c /\ UNCHANGED <<enabled, depth, tasks, queue, lastTask, running, paused>>
    BY <1>3 DEF Skip
  <2> HIDE DEF a
  <2>2. /\ c \in AgentStates /\ c.ops = a.ops /\ c.currentId = a.currentId
        /\ c.pending = a.pending /\ c.breakpoints = a.breakpoints
        /\ c.pausing = a.pausing /\ c.notifications = a.notifications
        /\ c.open = a.open /\ c.starting = a.starting /\ c.pausingOn = a.pausingOn
        /\ c.scheduledStep = a.scheduledStep
    <3>1. a \in AgentStates /\ (a.v8Step \/ stepOn) \in BOOLEAN
      BY <1>1 DEF AgentGood
    <3> QED  BY <3>1 DEF AgentStates
  <2> HIDE DEF c
  <2>3. AgentGood(c)
    BY <1>1, <2>2 DEF AgentGood, WithChain
  <2>4. /\ AgentGood(agent') /\ DOMAIN agent'.ops = DOMAIN agent.ops
        /\ agent'.currentId = agent.currentId /\ agent'.starting = agent.starting
    BY <1>1, <2>1, <2>2, <2>3
  <2> QED  BY <1>0, <2>1, <2>4, AgentStep DEF TypeOK, StartingRuns, TrackingEnds, Tracking
<1> QED  BY <1>2, <1>3

\* Operations that had a microtask to run still do if the queue and the
\* registered tasks keep it.
LEMMA TaskKept ==
  ASSUME NEW i, NEW j \in DOMAIN queue, queue[j].instrumented,
         queue[j].id \in DOMAIN tasks, tasks[queue[j].id] = i,
         NEW k \in DOMAIN queue', queue'[k] = queue[j],
         queue[j].id \in DOMAIN tasks', tasks'[queue[j].id] = tasks[queue[j].id]
  PROVE  HasTask(i)'
  BY DEF HasTask

\* OperationsEnd in terms of HasTask, now and after a step.
LEMMA OperationsEndByTask ==
  /\ OperationsEnd <=> \A i \in DOMAIN agent.ops : i = agent.currentId \/ HasTask(i)
  /\ OperationsEnd' <=>
       \A i \in DOMAIN agent'.ops : i = agent'.currentId \/ HasTask(i)'
  BY DEF OperationsEnd, HasTask

LEMMA EnqueueStep ==
  ASSUME AsyncInv, NEW hasFrames \in BOOLEAN, Enqueue(hasFrames)
  PROVE  AsyncInv'
<1> DEFINE id == lastTask + 1
           n == Len(queue) + 1
           new == [id |-> id, instrumented |-> enabled]
<1>0. /\ TypeOK /\ AgentGood(agent) /\ CurrentRuns /\ StartingRuns /\ TrackingEnds
      /\ OperationsEnd /\ TasksAreNumbered
  BY DEF AsyncInv
<1>1. /\ id \in TaskIds /\ lastTask' = id /\ queue' = Append(queue, new)
      /\ UNCHANGED <<enabled, depth, running, paused>>
  BY DEF Enqueue
<1>2. lastTask \in Nat /\ lastTask' \in 0..MaxTasks /\ new \in Microtasks
  BY <1>0, <1>1, AsyncBoundsAssumption DEF TypeOK, TaskIds, Microtasks
<1>3. /\ queue' \in Seq(Microtasks) /\ DOMAIN queue = 1..(n - 1)
      /\ DOMAIN queue' = 1..n /\ n \in Nat /\ n >= 1 /\ queue'[n] = new
      /\ \A j \in 1..(n - 1) : queue'[j] = queue[j] /\ queue[j] \in Microtasks
      /\ DOMAIN queue \subseteq DOMAIN queue'
  <2>1. queue \in Seq(Microtasks) /\ Len(queue) \in Nat /\ DOMAIN queue = 1..Len(queue)
    BY <1>0 DEF TypeOK
  <2>2. n - 1 = Len(queue) /\ n \in Nat /\ n >= 1
    BY <2>1
  <2>3. /\ queue' \in Seq(Microtasks) /\ Len(queue') = n /\ queue'[n] = new
        /\ \A j \in 1..Len(queue) : queue'[j] = queue[j] /\ queue[j] \in Microtasks
    BY <1>1, <1>2, <2>1
  <2> QED  BY <2>1, <2>2, <2>3
<1>4. \A j \in DOMAIN queue : queue[j].id \in Nat /\ queue[j].id <= lastTask
                              /\ queue[j].id # id
  BY <1>0, <1>2, <1>3 DEF TasksAreNumbered, Microtasks, TaskIds
<1>5. TasksAreNumbered'
  <2>1. ASSUME NEW j \in DOMAIN queue' PROVE queue'[j].id <= lastTask'
    <3>1. CASE j \in DOMAIN queue
      BY <1>1, <1>2, <1>3, <1>4, <3>1
    <3>2. CASE j = n
      BY <1>1, <1>2, <1>3, <3>2
    <3> QED  BY <1>3, <3>1, <3>2
  <2> QED  BY <2>1 DEF TasksAreNumbered
<1>6. CASE ~paused /\ Tracking
  <2> DEFINE b == TraceAsyncOperationStarting(agent, hasFrames)
  <2>1. /\ DOMAIN agent.ops # OpIds /\ agent' = b
        /\ tasks' = [t \in DOMAIN tasks \cup {id} |->
                       IF t = id THEN agent'.lastId ELSE tasks[t]]
    BY <1>6 DEF Enqueue
  <2>2. /\ AgentGood(b) /\ b.lastId \in OpIds
        /\ DOMAIN b.ops = DOMAIN agent.ops \cup {b.lastId}
        /\ b.currentId = agent.currentId /\ ~b.starting
    BY <1>0, <1>6, <2>1, OperationStartingGood DEF TypeOK
  <2> HIDE DEF b
  <2>3. tasks' \in UNION {[S -> OpIds] : S \in SUBSET TaskIds}
    <3>1. PICK S \in SUBSET TaskIds : tasks \in [S -> OpIds]
      BY <1>0 DEF TypeOK
    <3>2. S \cup {id} \in SUBSET TaskIds /\ tasks' \in [S \cup {id} -> OpIds]
      BY <1>1, <2>1, <2>2, <3>1
    <3> QED  BY <3>2
  <2>4. TypeOK'
    BY <1>0, <1>1, <1>2, <1>3, <2>1, <2>2, <2>3 DEF TypeOK, AgentGood
  <2>5. AgentGood(agent)'
    BY <2>1, <2>2 DEF AgentGood, WithChain, UnknownId, AgentStates, OpIds
  <2>6. CurrentRuns' /\ StartingRuns' /\ TrackingEnds'
    BY <1>0, <1>1, <1>6, <2>1, <2>2
    DEF CurrentRuns, StartingRuns, TrackingEnds, Tracking, UnknownId
  <2>7. ASSUME NEW i \in DOMAIN agent'.ops, i # agent'.currentId PROVE HasTask(i)'
    <3>1. CASE i = b.lastId
      <4>1. /\ queue'[n].instrumented /\ queue'[n].id = id /\ n \in DOMAIN queue'
        BY <1>0, <1>3, <1>6 DEF TrackingEnds
      <4>2. id \in DOMAIN tasks' /\ tasks'[id] = i
        BY <2>1, <3>1
      <4> QED  BY <4>1, <4>2 DEF HasTask
    <3>2. CASE i \in DOMAIN agent.ops
      <4>1. PICK j \in DOMAIN queue : /\ queue[j].instrumented
                                      /\ queue[j].id \in DOMAIN tasks
                                      /\ tasks[queue[j].id] = i
        BY <1>0, <2>1, <2>2, <2>7, <3>2 DEF OperationsEnd
      <4>2. /\ queue[j].id \in DOMAIN tasks'
            /\ tasks'[queue[j].id] = tasks[queue[j].id]
        BY <1>4, <2>1, <4>1
      <4>3. j \in DOMAIN queue' /\ queue'[j] = queue[j]
        BY <1>3
      <4> QED  BY <4>1, <4>2, <4>3, TaskKept
    <3> QED  BY <2>1, <2>2, <3>1, <3>2
  <2>8. OperationsEnd'
    BY <2>7, OperationsEndByTask
  <2> QED  BY <1>5, <2>4, <2>5, <2>6, <2>8 DEF AsyncInv
<1>7. CASE ~(~paused /\ Tracking)
  <2>1. UNCHANGED <<agent, tasks>>
    BY <1>7 DEF Enqueue
  <2>2. TypeOK'
    BY <1>0, <1>1, <1>2, <1>3, <2>1 DEF TypeOK
  <2>3. AgentGood(agent)'
    BY <1>0, <2>1 DEF AgentGood, WithChain, UnknownId, AgentStates, OpIds
  <2>4. CurrentRuns' /\ StartingRuns' /\ TrackingEnds'
    BY <1>0, <1>1, <2>1 DEF CurrentRuns, StartingRuns, TrackingEnds, Tracking, UnknownId
  <2>5. ASSUME NEW i \in DOMAIN agent.ops, i # agent.currentId PROVE HasTask(i)'
    <3>1. PICK j \in DOMAIN queue : /\ queue[j].instrumented
                                    /\ queue[j].id \in DOMAIN tasks
                                    /\ tasks[queue[j].id] = i
      BY <1>0, <2>5 DEF OperationsEnd
    <3> QED  BY <1>3, <2>1, <3>1, TaskKept
  <2>6. OperationsEnd'
    BY <2>1, <2>5, OperationsEndByTask
  <2> QED  BY <1>5, <2>2, <2>3, <2>4, <2>6 DEF AsyncInv
<1> QED  BY <1>6, <1>7

LEMMA WillHandleStep ==
  ASSUME AsyncInv, WillHandle
  PROVE  AsyncInv'
<1> DEFINE task == Head(queue)
           op == IF task.id \in DOMAIN tasks THEN tasks[task.id] ELSE UnknownId
           a == TraceAsyncCallbackStarting(agent, op)
           n == Len(queue)
<1>0. /\ TypeOK /\ AgentGood(agent) /\ CurrentRuns /\ StartingRuns /\ TrackingEnds
      /\ OperationsEnd /\ TasksAreNumbered
  BY DEF AsyncInv
<1>1. /\ running = "checkpoint" /\ queue # << >> /\ queue' = Tail(queue)
      /\ running' = (IF task.instrumented THEN "callback" ELSE "plainCallback")
      /\ UNCHANGED <<enabled, depth, lastTask, paused>>
  BY DEF WillHandle
<1>2. agent.currentId = UnknownId
  BY <1>0, <1>1 DEF CurrentRuns
<1>3. /\ task = queue[1] /\ queue' \in Seq(Microtasks) /\ n \in Nat /\ n >= 1
      /\ DOMAIN queue = 1..n /\ DOMAIN queue' = 1..(n - 1)
      /\ \A j \in 1..(n - 1) : queue'[j] = queue[j + 1]
  BY <1>0, <1>1 DEF TypeOK
<1>4. ASSUME NEW j \in DOMAIN queue, j # 1
      PROVE  (j - 1) \in DOMAIN queue' /\ queue'[j - 1] = queue[j]
  BY <1>3, <1>4
<1>5. TasksAreNumbered'
  <2>1. ASSUME NEW j \in DOMAIN queue' PROVE queue'[j].id <= lastTask
    <3>1. (j + 1) \in DOMAIN queue /\ queue'[j] = queue[j + 1]
      BY <1>3
    <3> QED  BY <1>0, <3>1 DEF TasksAreNumbered
  <2> QED  BY <1>1, <2>1 DEF TasksAreNumbered
<1>6. running' \in Activities
  BY <1>1 DEF Activities, Callbacks
<1> HIDE DEF task, n
<1>7. CASE task.instrumented /\ Tracking
  <2>1. /\ agent' = (IF op # UnknownId THEN TraceAsyncOperationCompleted(a, op) ELSE a)
        /\ tasks' = Restrict(tasks, DOMAIN tasks \ {task.id})
    BY <1>7 DEF WillHandle, task
  <2>2. PICK S \in SUBSET TaskIds : tasks \in [S -> OpIds]
    BY <1>0 DEF TypeOK
  <2>3. op \in OpIds \cup {UnknownId} /\ UnknownId \notin OpIds
    <3>1. UnknownId \notin OpIds
      BY AsyncBoundsAssumption DEF UnknownId, OpIds
    <3> QED  BY <2>2, <3>1
  <2>4. /\ AgentGood(agent') /\ (agent'.starting => agent.starting)
        /\ \/ agent'.currentId = op /\ DOMAIN agent'.ops = DOMAIN agent.ops
           \/ /\ agent'.currentId = UnknownId
              /\ DOMAIN agent'.ops = DOMAIN agent.ops \ {op}
    <3> HIDE DEF op
    <3>1. CASE op = UnknownId
      <4>1. UnknownId \notin DOMAIN agent.ops
        BY <1>0, AgentOps DEF AgentGood
      <4>2. agent' = agent
        BY <2>1, <3>1, <4>1 DEF TraceAsyncCallbackStarting
      <4> QED  BY <1>0, <1>2, <3>1, <4>1, <4>2
    <3>2. CASE op # UnknownId
      BY <1>0, <1>2, <2>1, <2>3, <3>2, WillHandleGood
    <3> QED  BY <3>1, <3>2
  <2>5. tasks' \in UNION {[T -> OpIds] : T \in SUBSET TaskIds}
    <3>1. S \ {task.id} \in SUBSET TaskIds /\ tasks' \in [S \ {task.id} -> OpIds]
      BY <2>1, <2>2 DEF Restrict
    <3> QED  BY <3>1
  <2>6. TypeOK'
    BY <1>0, <1>1, <1>3, <1>6, <2>4, <2>5 DEF TypeOK, AgentGood
  <2>7. AgentGood(agent)'
    BY <2>4 DEF AgentGood, WithChain, UnknownId, AgentStates, OpIds
  <2>8. CurrentRuns' /\ StartingRuns' /\ TrackingEnds'
    BY <1>0, <1>1, <1>7, <2>4
    DEF CurrentRuns, StartingRuns, TrackingEnds, Tracking, UnknownId
  <2>9. ASSUME NEW i \in DOMAIN agent'.ops, i # agent'.currentId PROVE HasTask(i)'
    <3>1. i \in DOMAIN agent.ops /\ i # op
      BY <2>4, <2>9
    <3>2. i # UnknownId
      BY <1>0, <3>1, AgentOps DEF AgentGood
    <3>3. PICK j \in DOMAIN queue : /\ queue[j].instrumented
                                    /\ queue[j].id \in DOMAIN tasks
                                    /\ tasks[queue[j].id] = i
      BY <1>0, <1>2, <3>1, <3>2 DEF OperationsEnd
    <3>4. queue[j].id # task.id
      BY <3>1, <3>3
    <3>5. j # 1
      BY <1>3, <3>4
    <3>6. /\ queue[j].id \in DOMAIN tasks'
          /\ tasks'[queue[j].id] = tasks[queue[j].id]
      BY <2>1, <3>3, <3>4 DEF Restrict
    <3> QED  BY <1>4, <3>3, <3>5, <3>6, TaskKept
  <2>10. OperationsEnd'
    BY <2>9, OperationsEndByTask
  <2> QED  BY <1>5, <2>6, <2>7, <2>8, <2>10 DEF AsyncInv
<1>8. CASE ~(task.instrumented /\ Tracking)
  <2>1. UNCHANGED <<agent, tasks>>
    BY <1>8 DEF WillHandle, task
  <2>2. TypeOK'
    BY <1>0, <1>1, <1>3, <1>6, <2>1 DEF TypeOK
  <2>3. AgentGood(agent)'
    BY <1>0, <2>1 DEF AgentGood, WithChain, UnknownId, AgentStates, OpIds
  <2>4. CurrentRuns' /\ StartingRuns' /\ TrackingEnds'
    BY <1>0, <1>1, <1>2, <2>1
    DEF CurrentRuns, StartingRuns, TrackingEnds, Tracking, UnknownId
  <2>5. ASSUME NEW i \in DOMAIN agent.ops, i # agent.currentId PROVE HasTask(i)'
    <3>1. Tracking /\ ~task.instrumented
      BY <1>0, <1>8, <2>5 DEF TrackingEnds
    <3>2. PICK j \in DOMAIN queue : /\ queue[j].instrumented
                                    /\ queue[j].id \in DOMAIN tasks
                                    /\ tasks[queue[j].id] = i
      BY <1>0, <2>5 DEF OperationsEnd
    <3>3. j # 1
      BY <1>3, <3>1, <3>2
    <3> QED  BY <1>4, <2>1, <3>2, <3>3, TaskKept
  <2>6. OperationsEnd'
    BY <2>1, <2>5, OperationsEndByTask
  <2> QED  BY <1>5, <2>2, <2>3, <2>4, <2>6 DEF AsyncInv
<1> QED  BY <1>7, <1>8

LEMMA DidHandleStep ==
  ASSUME AsyncInv, DidHandle
  PROVE  AsyncInv'
<1>0. /\ TypeOK /\ AgentGood(agent) /\ CurrentRuns /\ StartingRuns /\ TrackingEnds
      /\ OperationsEnd /\ TasksAreNumbered
  BY DEF AsyncInv
<1>1. /\ running' \in Activities
      /\ UNCHANGED <<enabled, depth, tasks, queue, lastTask, paused>>
  BY DEF DidHandle, AfterCall, Activities
<1>2. /\ AgentGood(agent') /\ DOMAIN agent'.ops = DOMAIN agent.ops \ {agent.currentId}
      /\ agent'.currentId = UnknownId /\ (agent'.starting => agent.starting)
  <2>1. CASE running = "callback" /\ Tracking
    <3>1. agent' = TraceAsyncCallbackCompleted(agent)
      BY <2>1 DEF DidHandle
    <3> QED  BY <1>0, <3>1, CallbackCompletedGood
  <2>2. CASE ~(running = "callback" /\ Tracking)
    <3>1. agent' = agent /\ agent.currentId = UnknownId
      BY <1>0, <2>2 DEF DidHandle, CurrentRuns
    <3>2. UnknownId \notin DOMAIN agent.ops
      BY <1>0, AgentOps DEF AgentGood
    <3> QED  BY <1>0, <3>1, <3>2
  <2> QED  BY <2>1, <2>2
<1>3. TypeOK'
  BY <1>0, <1>1, <1>2 DEF TypeOK, AgentGood
<1>4. AgentGood(agent)'
  BY <1>2 DEF AgentGood, WithChain, UnknownId, AgentStates, OpIds
<1>5. CurrentRuns' /\ StartingRuns' /\ TrackingEnds' /\ TasksAreNumbered'
  BY <1>0, <1>1, <1>2
  DEF CurrentRuns, StartingRuns, TrackingEnds, TasksAreNumbered, Tracking, UnknownId
<1>6. OperationsEnd'
  BY <1>0, <1>1, <1>2 DEF OperationsEnd
<1> QED  BY <1>3, <1>4, <1>5, <1>6 DEF AsyncInv

\* The invariant is inductive.
LEMMA AsyncNext == AsyncInv /\ [Next]_vars => AsyncInv'
<1> SUFFICES ASSUME AsyncInv, [Next]_vars PROVE AsyncInv'
  OBVIOUS
<1>1. CASE \/ Enable \/ Disable \/ Pause \/ StepIntoAsync \/ FlushCommand
           \/ \E d \in 0..MaxDepth : SetAsyncCallStackDepth(d)
           \/ \E step \in {"NoStep", "StepInto", "other"} : Resume(step)
           \/ \E id \in OpIds : \/ SetAsyncOperationBreakpoint(id)
                                \/ RemoveAsyncOperationBreakpoint(id)
  BY <1>1, CommandStep
<1>2. CASE RunScript
  BY <1>2, ProgramStep DEF RunScript, Activities
<1>3. CASE FinishScript
  BY <1>3, ProgramStep DEF FinishScript, Activities, AfterCall
<1>4. CASE WillHandle
  BY <1>4, WillHandleStep
<1>5. CASE DidHandle
  BY <1>5, DidHandleStep
<1>6. CASE \E hasFrames \in BOOLEAN : Enqueue(hasFrames)
  BY <1>6, EnqueueStep
<1>7. CASE \E kind \in {"interrupt", "debugger", "step", "breakpoint"} :
             Stop(kind) \/ \E stepOn \in BOOLEAN : Skip(kind, stepOn)
  BY <1>7, BreakStep
<1>8. CASE UNCHANGED vars
  BY <1>8, AgentStep DEF vars, AsyncInv, TypeOK, StartingRuns, TrackingEnds, Tracking
<1> QED  BY <1>1, <1>2, <1>3, <1>4, <1>5, <1>6, <1>7, <1>8 DEF Next

-----------------------------------------------------------------------------
(* The theorems.                                                           *)

\* The conjunction is an invariant of the agent, the tracker and the program.
THEOREM AsyncInvariance == Spec => []AsyncInv
  BY AsyncInit, AsyncNext, PTL DEF Spec

\* The state has its type: depths, ids, the tracker's map and the microtask
\* queue stay within their bounds.
THEOREM AsyncTypeCorrect == Spec => []TypeOK
<1>1. AsyncInv => TypeOK
  BY DEF AsyncInv
<1> QED  BY <1>1, AsyncInvariance, PTL

\* m_asyncOperationBreakpoints and m_pausingAsyncOperations name operations
\* that exist, so that traceAsyncOperationCompleted leaves no stop behind for
\* the next operation that is given the same id.
THEOREM BreakpointsAreOperationsAlways == Spec => []BreakpointsAreOperations
<1>1. AsyncInv => BreakpointsAreOperations
  BY DEF AsyncInv, AgentGood, BreakpointsAreOperations
<1> QED  BY <1>1, AsyncInvariance, PTL

\* traceAsyncCallbackStarting never finds an operation left over from an
\* earlier callback, whatever was disabled, enabled or cleared in between.
THEOREM CurrentIsRunningAlways == Spec => []CurrentIsRunning
<1>1. AsyncInv => CurrentIsRunning
  BY DEF AsyncInv, AgentGood, CurrentRuns, CurrentIsRunning
<1> QED  BY <1>1, AsyncInvariance, PTL

\* V8AsyncCallTracker completes every operation it started: each one is that
\* of the callback that runs or of a microtask still in the queue.
THEOREM OperationsEndAlways == Spec => []OperationsEnd
<1>1. AsyncInv => OperationsEnd
  BY DEF AsyncInv
<1> QED  BY <1>1, AsyncInvariance, PTL

\* traceAsyncOperationStarting's assertion: a step into async that looks for
\* its operation has no target yet and is still a step.
THEOREM StepIntoAsyncIsSingleAlways == Spec => []StepIntoAsyncIsSingle
<1>1. AsyncInv => StepIntoAsyncIsSingle
  BY DEF AsyncInv, AgentGood, StartingRuns, StepIntoAsyncIsSingle
<1> QED  BY <1>1, AsyncInvariance, PTL

\* flushAsyncOperationEvents never announces an operation that is gone or has
\* no call stack, and the client's list is that of the agent.
THEOREM ClientListsOperationsAlways == Spec => []ClientListsOperations
<1>1. AsyncInv => ClientListsOperations
  BY DEF AsyncInv, AgentGood, WithChain, ClientListsOperations
<1> QED  BY <1>1, AsyncInvariance, PTL

=============================================================================
