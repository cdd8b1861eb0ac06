------------------------------ MODULE Breakpoints ------------------------------
(***************************************************************************)
(* The breakpoint registries of InspectorDebuggerAgent.  A breakpoint set  *)
(* by URL is a cookie that applies to every script the agent knows now or  *)
(* learns of later; each place where it applies is a break point of V8     *)
(* with a number of its own.  Two maps relate the client's ids and V8's    *)
(* numbers, one in each direction, and V8 has a third idea of what is set. *)
(* debug() and monitor() of the command line API put entries of their own  *)
(* into the same maps.  The one-shot breakpoint of continueToLocation is   *)
(* in V8 only.                                                             *)
(*                                                                         *)
(* Scripts, patterns and lines are data: what a pattern matches, which     *)
(* lines a script has and where V8 puts a break point on a line are        *)
(* constants.                                                              *)
(***************************************************************************)
EXTENDS Naturals, FiniteSets

CONSTANTS
  ScriptIds, Patterns, Lines,
  Failed,        \* the scripts that do not compile
  Anonymous,     \* the scripts without a URL
  Matches,       \* <<pattern, script>>: the script's URL matches the pattern
  InRange,       \* <<script, line>>: startLine <= line <= endLine
  Actual,        \* where V8 puts a break point on <<script, line>>
  MaxNumber      \* bound: break point numbers V8 hands out in one session

ASSUME ConstantsAssumption ==
  /\ Failed \subseteq ScriptIds /\ Anonymous \subseteq ScriptIds
  /\ Matches \subseteq Patterns \X ScriptIds
  /\ InRange \subseteq ScriptIds \X Lines
  /\ DOMAIN Actual \subseteq (ScriptIds \ Failed) \X Lines
  /\ \A at \in DOMAIN Actual : Actual[at] \in Lines
  /\ MaxNumber \in Nat

VARIABLES
  enabled,      \* the agent listens to V8Debugger
  loaded,       \* the scripts compiled by V8
  scripts,      \* m_scripts
  cookies,      \* m_state's javaScriptBreakpoints
  debuggerIds,  \* m_breakpointIdToDebuggerBreakpointIds, as pairs
  serverIds,    \* m_serverBreakpoints, as pairs of a number and an id
  points,       \* V8's script break points that have an actual location
  nextNumber,   \* V8's next_break_point_number
  oneShot       \* m_continueToLocationBreakpointId, 0 for the empty string

vars == <<enabled, loaded, scripts, cookies, debuggerIds, serverIds, points,
          nextNumber, oneShot>>

Numbers == 1..MaxNumber
\* BreakpointSource: the client, or the command line API's debug and monitor.
Sources == {"user", "debug", "monitor"}
\* Breakpoint ids: of the breakpoints set by URL, and, with generateBreakpointId,
\* of those set in a script.
UrlId(cookie) == <<"url", cookie[1], cookie[2]>>
GenerateBreakpointId(source, s, line) == <<source, s, line>>
Cookies == Patterns \X Lines
Ids     == {UrlId(c) : c \in Cookies} \cup
           {GenerateBreakpointId(source, s, line) :
              source \in Sources, s \in ScriptIds, line \in Lines}
\* stops: the condition is not the one of monitor(), which logs and is false.
Points  == [number : Numbers, script : ScriptIds, line : Lines, stops : BOOLEAN]

Init ==
  /\ enabled = FALSE /\ loaded = {} /\ scripts = {} /\ cookies = {}
  /\ debuggerIds = {} /\ serverIds = {} /\ points = {}
  /\ nextNumber = 1 /\ oneShot = 0

-----------------------------------------------------------------------------
\* A breakpoint to be set in a script.
Requests == [id : Ids, script : ScriptIds, line : Lines]

\* DebuggerScript.setBreakpoint: the requests V8 finds an actual location for.
Placed(requests) == {r \in requests : <<r.script, r.line>> \in DOMAIN Actual}

\* V8Debugger::removeBreakpoint
WithoutPoints(numbers) == {p \in points : p.number \notin numbers}

\* Mutant: an entry left by an earlier session is not overwritten.
ResolveKeepsOldEntries(requests, first) ==
  LET asked == {r \in requests : <<r.script, r.line>> \in InRange}
      found == Placed(asked)
      last  == first + Cardinality(asked) - 1
  IN  /\ last <= MaxNumber
      /\ \E number \in [asked -> first..last] :
           /\ \A r, q \in asked : number[r] = number[q] => r = q
           /\ points' = points \cup
                {[number |-> number[r], script |-> r.script,
                  line |-> Actual[<<r.script, r.line>>],
                  stops |-> r.id[1] # "monitor"] : r \in found}
           /\ serverIds' = serverIds \cup
                {<<number[r], r.id>> :
                   r \in {q \in found : \A e \in serverIds : e[1] # number[q]}}
           /\ debuggerIds' = debuggerIds \cup {<<r.id, number[r]>> : r \in found}
      /\ nextNumber' = last + 1

\* resolveBreakpoint for a set of requests, in the order of a hash table: V8
\* gives each a number, from first on, and is asked only about lines the script
\* has.  Only a request that V8 finds a place for is registered.
ResolveBreakpoints(requests, first) ==
  LET asked == {r \in requests : <<r.script, r.line>> \in InRange}
      found == Placed(asked)
      last  == first + Cardinality(asked) - 1
  IN  /\ last <= MaxNumber
      /\ \E number \in [asked -> first..last] :
           /\ \A r, q \in asked : number[r] = number[q] => r = q
           /\ points' = points \cup
                {[number |-> number[r], script |-> r.script,
                  line |-> Actual[<<r.script, r.line>>],
                  stops |-> r.id[1] # "monitor"] : r \in found}
           /\ serverIds' =
                {e \in serverIds : \A r \in found : e[1] # number[r]} \cup
                {<<number[r], r.id>> : r \in found}
           /\ debuggerIds' = debuggerIds \cup {<<r.id, number[r]>> : r \in found}
      /\ nextNumber' = last + 1

\* didParseSource applies the cookies to scripts that have a URL and compiled.
CookieRequests(parsed) ==
  {r \in Requests :
     \E c \in cookies : /\ r.id = UrlId(c) /\ r.line = c[2]
                        /\ r.script \in parsed \ (Failed \cup Anonymous)
                        /\ <<c[1], r.script>> \in Matches}

\* dispatchDidParseSource, with didParseSource for each of the scripts.
DidParseSource(parsed, first) ==
  /\ scripts' = scripts \cup parsed
  /\ ResolveBreakpoints(CookieRequests(parsed), first)

\* Debugger.enable: V8's debugger is loaded afresh, with the first number 1,
\* and reports the scripts it has, before the agent's state says enabled.
Enable ==
  /\ ~enabled
  /\ enabled' = TRUE
  /\ DidParseSource(loaded, 1)
  /\ UNCHANGED <<loaded, cookies, oneShot>>

\* Debugger.disable or a disconnect: clear() and V8Debugger::disable.  Nothing
\* removes the entries of m_serverBreakpoints.
Disable ==
  /\ enabled
  /\ enabled' = FALSE
  /\ scripts' = {} /\ cookies' = {} /\ debuggerIds' = {} /\ points' = {}
  /\ oneShot' = 0
  /\ UNCHANGED <<loaded, serverIds, nextNumber>>

\* Mutant: a breakpoint applies only to the scripts known when it is set.
CompileIgnoresCookies(s) ==
  /\ s \notin loaded \cup scripts
  /\ loaded' = loaded \cup ({s} \ Failed)
  /\ scripts' = IF enabled THEN scripts \cup {s} ELSE scripts
  /\ UNCHANGED <<enabled, cookies, debuggerIds, serverIds, points, nextNumber,
                 oneShot>>

\* V8 compiles a script; the agent is told if it listens.
Compile(s) ==
  /\ s \notin loaded \cup scripts
  /\ loaded' = loaded \cup ({s} \ Failed)
  /\ IF enabled
       THEN DidParseSource({s}, nextNumber)
       ELSE UNCHANGED <<scripts, debuggerIds, serverIds, points, nextNumber>>
  /\ UNCHANGED <<enabled, cookies, oneShot>>

\* Mutant: the id is kept in place of the pattern and the line.
SetKeepsId(c) ==
  /\ UrlId(c) \notin cookies
  /\ cookies' = cookies \cup {UrlId(c)}
  /\ UNCHANGED <<enabled, loaded, scripts, debuggerIds, serverIds, points,
                 nextNumber, oneShot>>

\* setBreakpointByUrl, also while disabled: every known script whose URL
\* matches, the empty URL and that of a script with a syntax error included.
SetBreakpointByUrl(c) ==
  /\ c \notin cookies
  /\ cookies' = cookies \cup {c}
  /\ ResolveBreakpoints({r \in Requests : /\ r.id = UrlId(c) /\ r.line = c[2]
                                          /\ r.script \in scripts
                                          /\ <<c[1], r.script>> \in Matches},
                        nextNumber)
  /\ UNCHANGED <<enabled, loaded, scripts, oneShot>>

\* resolveBreakpoint of one breakpoint set in a script that the agent knows; while
\* it is disabled it knows none.
ResolveIn(s, line, source) ==
  /\ s \in scripts
  /\ ResolveBreakpoints({[id |-> GenerateBreakpointId(source, s, line),
                          script |-> s, line |-> line]}, nextNumber)

\* setBreakpoint by script id
SetBreakpoint(s, line) ==
  /\ \A d \in debuggerIds : d[1] # GenerateBreakpointId("user", s, line)
  /\ ResolveIn(s, line, "user")
  /\ UNCHANGED <<enabled, loaded, scripts, cookies, oneShot>>

\* debug(f) or monitor(f) of the command line API, for a function f at this line
\* of a compiled script: not even a second breakpoint of the kind is refused.
DebugFunction(s, line, source) ==
  /\ s \in loaded /\ <<s, line>> \in InRange
  /\ ResolveIn(s, line, source)
  /\ UNCHANGED <<enabled, loaded, scripts, cookies, oneShot>>

\* Mutant: V8 keeps its break points.
RemoveFromAgentOnly(id) ==
  LET numbers == {d[2] : d \in {e \in debuggerIds : e[1] = id}} IN
  /\ enabled
  /\ cookies' = {c \in cookies : UrlId(c) # id}
  /\ serverIds' = {e \in serverIds : e[1] \notin numbers}
  /\ debuggerIds' = {d \in debuggerIds : d[1] # id}
  /\ UNCHANGED <<enabled, loaded, scripts, points, nextNumber, oneShot>>

\* removeBreakpoint(breakpointId): V8's break points and both maps' entries.
RemoveResolved(id) ==
  LET numbers == {d[2] : d \in {e \in debuggerIds : e[1] = id}} IN
  /\ points' = WithoutPoints(numbers)
  /\ serverIds' = {e \in serverIds : e[1] \notin numbers}
  /\ debuggerIds' = {d \in debuggerIds : d[1] # id}

\* removeBreakpoint: the cookie, if there is one, and what was resolved.
RemoveBreakpoint(id) ==
  /\ enabled
  /\ cookies' = {c \in cookies : UrlId(c) # id}
  /\ RemoveResolved(id)
  /\ UNCHANGED <<enabled, loaded, scripts, nextNumber, oneShot>>

\* undebug(f) or unmonitor(f), which find nothing to remove while disabled.
UndebugFunction(s, line, source) ==
  /\ s \in loaded /\ <<s, line>> \in InRange
  /\ RemoveResolved(GenerateBreakpointId(source, s, line))
  /\ UNCHANGED <<enabled, loaded, scripts, cookies, nextNumber, oneShot>>

\* continueToLocation: the previous one-shot breakpoint goes, the new one is
\* set wherever V8 finds a place for it.
ContinueToLocation(s, line) ==
  LET others == WithoutPoints({oneShot})
      found  == s \in loaded /\ <<s, line>> \in DOMAIN Actual
  IN
  /\ enabled /\ nextNumber <= MaxNumber
  /\ points' = IF found
                 THEN others \cup {[number |-> nextNumber, script |-> s,
                                    line |-> Actual[<<s, line>>], stops |-> TRUE]}
                 ELSE others
  /\ oneShot' = IF found THEN nextNumber ELSE 0
  /\ nextNumber' = nextNumber + 1
  /\ UNCHANGED <<enabled, loaded, scripts, cookies, debuggerIds, serverIds>>

\* The numbers of the break points that can stop the program at a place, and the
\* ids that didPause sends for some of them.
NumbersAt(s, line) ==
  {p.number : p \in {q \in points : q.script = s /\ q.line = line /\ q.stops}}
HitBreakpointIds(numbers) == {e[2] : e \in {f \in serverIds : f[1] \in numbers}}

\* The program reaches a place with break points and pauses; the one-shot
\* breakpoint is over, whichever break point it was.
Hit(s, line) ==
  /\ NumbersAt(s, line) # {}
  /\ points' = WithoutPoints({oneShot})
  /\ oneShot' = 0
  /\ UNCHANGED <<enabled, loaded, scripts, cookies, debuggerIds, serverIds,
                 nextNumber>>

Next ==
  \/ Enable \/ Disable
  \/ \E s \in ScriptIds : Compile(s)
  \/ \E c \in Cookies : SetBreakpointByUrl(c)
  \/ \E s \in ScriptIds, line \in Lines : \/ SetBreakpoint(s, line)
                                          \/ ContinueToLocation(s, line)
                                          \/ Hit(s, line)
  \/ \E s \in ScriptIds, line \in Lines, source \in {"debug", "monitor"} :
       DebugFunction(s, line, source) \/ UndebugFunction(s, line, source)
  \/ \E id \in Ids : RemoveBreakpoint(id)

Spec == Init /\ [][Next]_vars

-----------------------------------------------------------------------------
(* Properties.                                                             *)

\* The type of the state.
TypeOK ==
  /\ enabled \in BOOLEAN
  /\ loaded \subseteq ScriptIds /\ scripts \subseteq ScriptIds
  /\ cookies \subseteq Cookies
  /\ debuggerIds \subseteq Ids \X Numbers
  /\ serverIds \subseteq Numbers \X Ids
  /\ points \subseteq Points
  /\ nextNumber \in 1..(MaxNumber + 1) /\ oneShot \in 0..MaxNumber

\* The agent and V8 agree: what the client can remove is exactly what V8
\* has set besides the one-shot breakpoint.
SameBreakpoints ==
  /\ \A d \in debuggerIds : d[2] # oneShot /\ \E p \in points : p.number = d[2]
  /\ \A p \in points :
       p.number = oneShot \/ \E d \in debuggerIds : d[2] = p.number

\* V8's numbers identify break points, and the next one is new.
NumbersAreFresh ==
  /\ \A p \in points : p.number < nextNumber
  /\ oneShot < nextNumber
  /\ \A p, q \in points : p.number = q.number => p = q

\* After disable nothing of the session is left that could stop the program or
\* turn up in the next session: removeBreakpoint and continueToLocation never
\* meet a number of an earlier one.
DisableForgets ==
  ~enabled => points = {} /\ debuggerIds = {} /\ scripts = {} /\ oneShot = 0

\* The registries of the agent and of V8 agree, by numbers that identify break
\* points, and are empty together while the debugger is disabled.
RegistriesAgree == SameBreakpoints /\ NumbersAreFresh /\ DisableForgets

\* A breakpoint set by URL stops the program in every script it applies to,
\* once, no matter which came first, the script, the breakpoint or enable.
UrlBreakpointsApply ==
  \A c \in cookies, s \in scripts \ (Failed \cup Anonymous) :
    LET there == {p \in points : p.script = s /\ <<UrlId(c), p.number>> \in debuggerIds}
    IN  <<c[1], s>> \in Matches /\ <<s, c[2]>> \in InRange \cap DOMAIN Actual
          => Cardinality(there) = 1 /\ \A p \in there : p.line = Actual[<<s, c[2]>>]

\* A pause names exactly the breakpoints that stop the program there, whichever
\* of those set at the place that is (the rest have a condition that does not
\* hold).  The one-shot breakpoint is left out: its number may still name a
\* breakpoint of an earlier session.
HitsAreSet ==
  \A s \in ScriptIds, line \in Lines :
    \A hit \in SUBSET (NumbersAt(s, line) \ {oneShot}) :
      HitBreakpointIds(hit) =
        {d[1] : d \in {e \in debuggerIds : e[2] \in hit}}

=============================================================================
