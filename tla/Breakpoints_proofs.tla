-------------------------- MODULE Breakpoints_proofs --------------------------
(***************************************************************************)
(* Proofs about the breakpoint registries, for any scripts, patterns and   *)
(* lines, whatever matches what and wherever V8 puts its break points.     *)
(***************************************************************************)
EXTENDS Breakpoints, FiniteSetTheorems, TLAPS

\* The two maps of the agent invert each other on the numbers in use.  Entries
\* of m_serverBreakpoints left by an earlier session may have other numbers.
ServerIdsInvert ==
  /\ \A d \in debuggerIds : <<d[2], d[1]>> \in serverIds
  /\ \A d \in debuggerIds, e \in serverIds : e[1] = d[2] => e[2] = d[1]

\* A number registered for a breakpoint set by URL has its cookie: it goes
\* with the cookie in removeBreakpoint.
IdsHaveCookies ==
  \A d \in debuggerIds, c \in Cookies : d[1] = UrlId(c) => c \in cookies

\* Break points other than the one-shot one are in scripts the agent knows.
PointsInScripts == \A p \in points : p.number # oneShot => p.script \in scripts

\* Scripts and cookies come one by one, so that V8 is asked for finitely many
\* break points at a time.
KnownIsFinite == IsFiniteSet(loaded) /\ IsFiniteSet(scripts) /\ IsFiniteSet(cookies)

\* p is there for the cookie c in the script s.
PlacedFor(c, s, p) == p.script = s /\ <<UrlId(c), p.number>> \in debuggerIds

\* The cookie c asks for a break point in the script s that V8 can place.
AppliesTo(c, s) ==
  <<c[1], s>> \in Matches /\ <<s, c[2]>> \in InRange \cap DOMAIN Actual

\* There is one break point for c in s, where V8 puts it.
AppliedOnce(c, s) ==
  \E p \in points : /\ PlacedFor(c, s, p) /\ p.line = Actual[<<s, c[2]>>]
                    /\ \A q \in points : PlacedFor(c, s, q) => q = p

\* UrlBreakpointsApply without counting.
CookiesApply ==
  \A c \in cookies, s \in scripts \ (Failed \cup Anonymous) :
    AppliesTo(c, s) => AppliedOnce(c, s)

\* What relates the registries to each other.
Registries ==
  TypeOK /\ SameBreakpoints /\ NumbersAreFresh /\ ServerIdsInvert

\* The inductive invariant.
BreakpointsInv ==
  /\ Registries /\ DisableForgets /\ IdsHaveCookies /\ PointsInScripts
  /\ KnownIsFinite /\ CookiesApply

-----------------------------------------------------------------------------
(* Ids, requests and points.                                               *)

\* An id set by URL determines its cookie and is no id set by script.
LEMMA UrlIdIsOne ==
  ASSUME NEW c \in Cookies
  PROVE  /\ UrlId(c) \in Ids /\ c[1] \in Patterns /\ c[2] \in Lines
         /\ \A e \in Cookies : UrlId(e) = UrlId(c) => e = c
         /\ \A source \in Sources : \A s, line :
              GenerateBreakpointId(source, s, line) # UrlId(c)
  BY DEF UrlId, GenerateBreakpointId, Ids, Cookies, Sources

LEMMA GeneratedIsId ==
  ASSUME NEW s \in ScriptIds, NEW line \in Lines, NEW source \in Sources
  PROVE  GenerateBreakpointId(source, s, line) \in Ids
  BY DEF GenerateBreakpointId, Ids

\* The break point V8 sets for a request that it numbers n.
PointOf(r, n) == [number |-> n, script |-> r.script,
                  line |-> Actual[<<r.script, r.line>>],
                  stops |-> r.id[1] # "monitor"]

LEMMA PointOfFields ==
  ASSUME NEW r \in Requests, <<r.script, r.line>> \in DOMAIN Actual,
         NEW n \in Numbers
  PROVE  /\ PointOf(r, n) \in Points
         /\ PointOf(r, n).number = n /\ PointOf(r, n).script = r.script
         /\ PointOf(r, n).line = Actual[<<r.script, r.line>>]
<1>1. Actual[<<r.script, r.line>>] \in Lines /\ r.script \in ScriptIds
  BY ConstantsAssumption DEF Requests
<1> QED  BY <1>1 DEF PointOf, Points

\* What resolveBreakpoint does for the requests V8 finds a place for: each is
\* registered under a number of its own, from first on.
Registers(found, number, first) ==
  /\ found \subseteq Placed(Requests)
  /\ \A r \in found : number[r] \in Numbers /\ first <= number[r]
                                            /\ number[r] < nextNumber'
  /\ \A r, q \in found : number[r] = number[q] => r = q
  /\ nextNumber' \in 1..(MaxNumber + 1) /\ first <= nextNumber'
  /\ points' = points \cup {PointOf(r, number[r]) : r \in found}
  /\ serverIds' =
       {e \in serverIds : \A r \in found : e[1] # number[r]} \cup
       {<<number[r], r.id>> : r \in found}
  /\ debuggerIds' = debuggerIds \cup {<<r.id, number[r]>> : r \in found}

\* The requests of a set that resolveBreakpoint registers.
Found(requests) == Placed({r \in requests : <<r.script, r.line>> \in InRange})

LEMMA ResolveRegisters ==
  ASSUME NEW requests \in SUBSET Requests, IsFiniteSet(requests),
         NEW first \in 1..(MaxNumber + 1), ResolveBreakpoints(requests, first)
  PROVE  \E number : Registers(Found(requests), number, first)
<1> DEFINE asked == {r \in requests : <<r.script, r.line>> \in InRange}
           last  == first + Cardinality(asked) - 1
<1>1. Cardinality(asked) \in Nat /\ MaxNumber \in Nat /\ first \in Nat
  <2>1. asked \in SUBSET requests
    OBVIOUS
  <2>2. IsFiniteSet(asked)
    BY <2>1, FS_Subset
  <2> QED  BY <2>2, FS_CardinalityType, ConstantsAssumption
<1>2. PICK number \in [asked -> first..last] :
        /\ \A r, q \in asked : number[r] = number[q] => r = q
        /\ points' = points \cup
             {[number |-> number[r], script |-> r.script,
               line |-> Actual[<<r.script, r.line>>],
               stops |-> r.id[1] # "monitor"] : r \in Placed(asked)}
        /\ serverIds' =
             {e \in serverIds : \A r \in Placed(asked) : e[1] # number[r]} \cup
             {<<number[r], r.id>> : r \in Placed(asked)}
        /\ debuggerIds' =
             debuggerIds \cup {<<r.id, number[r]>> : r \in Placed(asked)}
  BY DEF ResolveBreakpoints
<1>3. last <= MaxNumber /\ nextNumber' = last + 1
  BY DEF ResolveBreakpoints
<1>4. Found(requests) = Placed(asked) /\ Placed(asked) \subseteq asked
      /\ Placed(asked) \subseteq Placed(Requests)
  BY DEF Found, Placed
<1>5. \A r \in Placed(asked) : /\ number[r] \in Numbers /\ first <= number[r]
                               /\ number[r] < nextNumber'
  <2> SUFFICES ASSUME NEW r \in Placed(asked)
               PROVE  /\ number[r] \in Numbers /\ first <= number[r]
                      /\ number[r] < nextNumber'
    OBVIOUS
  <2>1. number[r] \in first..last
    BY <1>2, <1>4
  <2> HIDE DEF last
  <2>2. last \in Int
    BY <1>1 DEF last
  <2> QED  BY <1>1, <1>3, <2>1, <2>2 DEF Numbers
<1>6. nextNumber' \in 1..(MaxNumber + 1) /\ first <= nextNumber'
  BY <1>1, <1>3
<1>7. Registers(Placed(asked), number, first)
  <2> HIDE DEF asked
  <2>1. points' = points \cup {PointOf(r, number[r]) : r \in Placed(asked)}
    BY <1>2 DEF PointOf
  <2>2. \A r, q \in Placed(asked) : number[r] = number[q] => r = q
    BY <1>2, <1>4
  <2> QED  BY <1>2, <1>4, <1>5, <1>6, <2>1, <2>2 DEF Registers
<1> QED  BY <1>4, <1>7

-----------------------------------------------------------------------------
(* Registering keeps the registries together.                              *)

\* Registering, element by element: the requests and their numbers,
Numbered(found, number, first) ==
  \A r \in found :
    /\ r \in Requests /\ r.id \in Ids
    /\ number[r] \in Numbers /\ number[r] \in Nat
    /\ first <= number[r] /\ number[r] < nextNumber'
    /\ PointOf(r, number[r]) \in Points
    /\ PointOf(r, number[r]).number = number[r]
    /\ PointOf(r, number[r]).script = r.script
    /\ PointOf(r, number[r]).line = Actual[<<r.script, r.line>>]

\* V8's break points, and the two maps.
PointsGrow(found, number) ==
  /\ points \subseteq points'
  /\ \A r \in found : PointOf(r, number[r]) \in points'
  /\ \A p \in points' : p \in points \/ \E r \in found : p = PointOf(r, number[r])

DebuggerIdsGrow(found, number) ==
  /\ debuggerIds \subseteq debuggerIds'
  /\ \A r \in found : <<r.id, number[r]>> \in debuggerIds'
  /\ \A d \in debuggerIds' :
       d \in debuggerIds \/ \E r \in found : d[1] = r.id /\ d[2] = number[r]

ServerIdsGrow(found, number) ==
  /\ \A r \in found : <<number[r], r.id>> \in serverIds'
  /\ \A e \in serverIds : (\A r \in found : e[1] # number[r]) => e \in serverIds'
  /\ \A e \in serverIds' :
       \/ e \in serverIds /\ \A r \in found : e[1] # number[r]
       \/ \E r \in found : e[1] = number[r] /\ e[2] = r.id

LEMMA RegistersEach ==
  ASSUME NEW found, NEW number, NEW first, Registers(found, number, first)
  PROVE  /\ Numbered(found, number, first) /\ PointsGrow(found, number)
         /\ DebuggerIdsGrow(found, number) /\ ServerIdsGrow(found, number)
<1>1. Numbered(found, number, first)
  <2> SUFFICES ASSUME NEW r \in found
        PROVE  /\ r \in Requests /\ r.id \in Ids
               /\ number[r] \in Numbers /\ number[r] \in Nat
               /\ first <= number[r] /\ number[r] < nextNumber'
               /\ PointOf(r, number[r]) \in Points
               /\ PointOf(r, number[r]).number = number[r]
               /\ PointOf(r, number[r]).script = r.script
               /\ PointOf(r, number[r]).line = Actual[<<r.script, r.line>>]
    BY DEF Numbered
  <2>1. r \in Requests /\ <<r.script, r.line>> \in DOMAIN Actual
    BY DEF Registers, Placed
  <2>2. number[r] \in Numbers /\ first <= number[r] /\ number[r] < nextNumber'
    BY DEF Registers
  <2>3. r.id \in Ids /\ number[r] \in Nat
    BY <2>1, <2>2 DEF Requests, Numbers
  <2> QED  BY <2>1, <2>2, <2>3, PointOfFields
<1>2. PointsGrow(found, number)
  BY DEF Registers, PointsGrow
<1>3. DebuggerIdsGrow(found, number)
  BY DEF Registers, DebuggerIdsGrow
<1>4. ServerIdsGrow(found, number)
  BY DEF Registers, ServerIdsGrow
<1> QED  BY <1>1, <1>2, <1>3, <1>4

\* Types, numbers and the two maps survive if the numbers are new.
LEMMA RegistersKeeps ==
  ASSUME Registries, NEW found, NEW number, NEW first \in Nat,
         Registers(found, number, first),
         \A p \in points : p.number < first, oneShot < first, oneShot' = oneShot
  PROVE  /\ points' \subseteq Points /\ nextNumber' \in 1..(MaxNumber + 1)
         /\ debuggerIds' \subseteq Ids \X Numbers
         /\ serverIds' \subseteq Numbers \X Ids
         /\ SameBreakpoints' /\ NumbersAreFresh' /\ ServerIdsInvert'
<1>1. /\ Numbered(found, number, first) /\ PointsGrow(found, number)
      /\ DebuggerIdsGrow(found, number) /\ ServerIdsGrow(found, number)
  BY RegistersEach
<1>2. /\ points \subseteq Points /\ debuggerIds \subseteq Ids \X Numbers
      /\ serverIds \subseteq Numbers \X Ids /\ oneShot \in Nat
  BY ConstantsAssumption DEF Registries, TypeOK
<1>3. /\ nextNumber' \in 1..(MaxNumber + 1) /\ nextNumber' \in Nat
      /\ first <= nextNumber'
      /\ \A r, q \in found : number[r] = number[q] => r = q
  BY ConstantsAssumption DEF Registers
<1>4. \A p \in points : p.number \in Nat /\ p.number < first
  BY <1>2 DEF Points, Numbers
<1>5. \A r \in found : number[r] \in Nat /\ first <= number[r]
  BY <1>1 DEF Numbered
<1>6. points' \subseteq Points
  BY <1>1, <1>2 DEF PointsGrow, Numbered
<1>7. debuggerIds' \subseteq Ids \X Numbers /\ serverIds' \subseteq Numbers \X Ids
  <2>1. \A r \in found : r.id \in Ids /\ number[r] \in Numbers
    BY <1>1 DEF Numbered
  <2> QED  BY <1>2, <2>1 DEF Registers
<1>8. \A d \in debuggerIds : d[2] \in Nat /\ d[2] < first /\ d[2] # oneShot
  <2> SUFFICES ASSUME NEW d \in debuggerIds
               PROVE  d[2] \in Nat /\ d[2] < first /\ d[2] # oneShot
    OBVIOUS
  <2>1. d[2] # oneShot /\ \E p \in points : p.number = d[2]
    BY DEF Registries, SameBreakpoints
  <2> QED  BY <1>4, <2>1
<1>9. \A d \in debuggerIds, r \in found : d[2] # number[r]
  BY <1>5, <1>8
<1>10. SameBreakpoints'
  <2>1. ASSUME NEW d \in debuggerIds'
        PROVE  d[2] # oneShot' /\ \E p \in points' : p.number = d[2]
    <3>1. CASE d \in debuggerIds
      BY <1>1, <1>8, <3>1 DEF Registries, SameBreakpoints, PointsGrow
    <3>2. ASSUME NEW r \in found, d[2] = number[r]
          PROVE  d[2] # oneShot' /\ \E p \in points' : p.number = d[2]
      <4>1. oneShot < number[r] /\ oneShot # number[r]
        BY <1>2, <1>5
      <4> QED  BY <1>1, <3>2, <4>1 DEF PointsGrow, Numbered
    <3> QED  BY <1>1, <3>1, <3>2 DEF DebuggerIdsGrow
  <2>2. ASSUME NEW p \in points'
        PROVE  p.number = oneShot' \/ \E d \in debuggerIds' : d[2] = p.number
    <3>1. CASE p \in points
      BY <1>1, <3>1 DEF Registries, SameBreakpoints, DebuggerIdsGrow
    <3>2. ASSUME NEW r \in found, p = PointOf(r, number[r])
          PROVE  \E d \in debuggerIds' : d[2] = p.number
      <4>1. <<r.id, number[r]>> \in debuggerIds' /\ number[r] = p.number
        BY <1>1, <3>2 DEF DebuggerIdsGrow, Numbered
      <4>2. <<r.id, number[r]>>[2] = p.number
        BY <4>1
      <4> QED  BY <4>1, <4>2
    <3> QED  BY <1>1, <3>1, <3>2 DEF PointsGrow
  <2> QED  BY <2>1, <2>2 DEF SameBreakpoints
<1>11. NumbersAreFresh'
  <2>1. ASSUME NEW p \in points' PROVE p.number < nextNumber'
    <3>1. CASE p \in points
      BY <1>3, <1>4, <3>1
    <3>2. CASE \E r \in found : p = PointOf(r, number[r])
      BY <1>1, <3>2 DEF Numbered
    <3> QED  BY <1>1, <3>1, <3>2 DEF PointsGrow
  <2>2. oneShot' < nextNumber'
    BY <1>2, <1>3
  <2>3. ASSUME NEW p \in points', NEW q \in points', p.number = q.number
        PROVE  p = q
    <3>1. CASE p \in points /\ q \in points
      BY <2>3, <3>1 DEF Registries, NumbersAreFresh
    <3>2. ASSUME NEW a \in points, NEW r \in found
          PROVE  a.number # PointOf(r, number[r]).number
      <4>1. PointOf(r, number[r]).number = number[r]
        BY <1>1 DEF Numbered
      <4> QED  BY <1>4, <1>5, <4>1
    <3>3. ASSUME NEW r \in found, NEW t \in found,
                 PointOf(r, number[r]).number = PointOf(t, number[t]).number
          PROVE  r = t
      BY <1>1, <1>3, <3>3 DEF Numbered
    <3> QED  BY <1>1, <2>3, <3>1, <3>2, <3>3 DEF PointsGrow
  <2> QED  BY <2>1, <2>2, <2>3 DEF NumbersAreFresh
<1>12. ServerIdsInvert'
  <2>1. ASSUME NEW d \in debuggerIds' PROVE <<d[2], d[1]>> \in serverIds'
    <3>1. CASE d \in debuggerIds
      <4>1. <<d[2], d[1]>> \in serverIds /\ \A r \in found : d[2] # number[r]
        BY <1>9, <3>1 DEF Registries, ServerIdsInvert
      <4>2. <<d[2], d[1]>>[1] = d[2]
        OBVIOUS
      <4> QED  BY <1>1, <4>1, <4>2 DEF ServerIdsGrow
    <3>2. CASE \E r \in found : d[1] = r.id /\ d[2] = number[r]
      BY <1>1, <3>2 DEF ServerIdsGrow
    <3> QED  BY <1>1, <3>1, <3>2 DEF DebuggerIdsGrow
  <2>2. ASSUME NEW d \in debuggerIds', NEW e \in serverIds', e[1] = d[2]
        PROVE  e[2] = d[1]
    <3>1. CASE d \in debuggerIds
      <4>1. e \in serverIds
        BY <1>1, <1>9, <2>2, <3>1 DEF ServerIdsGrow
      <4> QED  BY <2>2, <3>1, <4>1 DEF Registries, ServerIdsInvert
    <3>2. ASSUME NEW r \in found, d[1] = r.id, d[2] = number[r]
          PROVE  e[2] = d[1]
      <4>1. PICK t \in found : e[1] = number[t] /\ e[2] = t.id
        BY <1>1, <2>2, <3>2 DEF ServerIdsGrow
      <4>2. t = r
        BY <1>3, <2>2, <3>2, <4>1
      <4> QED  BY <3>2, <4>1, <4>2
    <3> QED  BY <1>1, <3>1, <3>2 DEF DebuggerIdsGrow
  <2> QED  BY <2>1, <2>2 DEF ServerIdsInvert
<1> QED  BY <1>3, <1>6, <1>7, <1>10, <1>11, <1>12

-----------------------------------------------------------------------------
(* Registering keeps the breakpoints set by URL where they belong.         *)

\* The numbers in debuggerIds are those of break points.
LEMMA RegisteredNumbers ==
  ASSUME Registries, NEW d \in debuggerIds
  PROVE  /\ d[1] \in Ids /\ d[2] \in Nat /\ d[2] < nextNumber /\ d[2] # oneShot
         /\ d = <<d[1], d[2]>>
         /\ \E p \in points : p.number = d[2]
<1>1. d[1] \in Ids /\ d[2] \in Numbers /\ d = <<d[1], d[2]>>
  BY DEF Registries, TypeOK
<1>2. d[2] # oneShot /\ \E p \in points : p.number = d[2]
  BY DEF Registries, SameBreakpoints
<1> QED  BY <1>1, <1>2 DEF Registries, NumbersAreFresh, Numbers

\* A break point that is there for c in s now was so before, or is that of a
\* request of c for s.
LEMMA PlacedForAfter ==
  ASSUME Registries, NEW found, NEW number, NEW first \in Nat,
         Registers(found, number, first), \A p \in points : p.number < first,
         NEW c, NEW s, NEW q \in points', PlacedFor(c, s, q)'
  PROVE  \/ q \in points /\ PlacedFor(c, s, q)
         \/ \E r \in found : /\ q = PointOf(r, number[r])
                             /\ r.id = UrlId(c) /\ r.script = s
<1> DEFINE d == <<UrlId(c), q.number>>
<1>1. q.script = s /\ d \in debuggerIds'
  BY DEF PlacedFor, UrlId
<1>2. /\ Numbered(found, number, first) /\ PointsGrow(found, number)
      /\ DebuggerIdsGrow(found, number)
  BY RegistersEach
<1>3. d[1] = UrlId(c) /\ d[2] = q.number
  OBVIOUS
<1> HIDE DEF d
<1>4. CASE q \in points
  <2>1. ASSUME NEW r \in found PROVE d[2] # number[r]
    <3>1. q.number \in Nat
      BY <1>4 DEF Registries, TypeOK, Points, Numbers
    <3>2. number[r] \in Nat /\ first <= number[r]
      BY <1>2 DEF Numbered
    <3> QED  BY <1>3, <1>4, <3>1, <3>2
  <2>2. d \in debuggerIds
    BY <1>1, <1>2, <2>1 DEF DebuggerIdsGrow
  <2> QED  BY <1>1, <1>4, <2>2 DEF PlacedFor, d
<1>5. ASSUME NEW r \in found, q = PointOf(r, number[r])
      PROVE  r.id = UrlId(c) /\ r.script = s
  <2>1. /\ q.number = number[r] /\ q.script = r.script
        /\ number[r] \in Nat /\ first <= number[r]
    BY <1>2, <1>5 DEF Numbered
  <2>2. d \notin debuggerIds
    <3>1. ASSUME d \in debuggerIds PROVE FALSE
      <4>1. \E p \in points : p.number = d[2]
        BY <3>1, RegisteredNumbers
      <4> QED  BY <1>3, <2>1, <4>1
    <3> QED  BY <3>1
  <2>3. PICK t \in found : d[1] = t.id /\ d[2] = number[t]
    BY <1>1, <1>2, <2>2 DEF DebuggerIdsGrow
  <2>4. t = r
    BY <1>3, <2>1, <2>3 DEF Registers
  <2> QED  BY <1>1, <1>3, <2>1, <2>3, <2>4
<1> QED  BY <1>2, <1>4, <1>5 DEF PointsGrow

\* Requests of other breakpoints and for other scripts do not disturb c in s.
LEMMA OldApplication ==
  ASSUME Registries, NEW found, NEW number, NEW first \in Nat,
         Registers(found, number, first), \A p \in points : p.number < first,
         NEW c, NEW s, AppliedOnce(c, s),
         \A r \in found : ~(r.id = UrlId(c) /\ r.script = s)
  PROVE  AppliedOnce(c, s)'
<1>1. PICK p \in points : /\ PlacedFor(c, s, p) /\ p.line = Actual[<<s, c[2]>>]
                          /\ \A q \in points : PlacedFor(c, s, q) => q = p
  BY DEF AppliedOnce
<1>2. PointsGrow(found, number) /\ DebuggerIdsGrow(found, number)
  BY RegistersEach
<1>3. p \in points' /\ PlacedFor(c, s, p)'
  BY <1>1, <1>2 DEF PointsGrow, DebuggerIdsGrow, PlacedFor, UrlId
<1>4. ASSUME NEW q \in points', PlacedFor(c, s, q)' PROVE q = p
  BY <1>1, <1>4, PlacedForAfter
<1> QED  BY <1>1, <1>3, <1>4 DEF AppliedOnce

\* The request of c for s puts a break point there, the only one.
LEMMA NewApplication ==
  ASSUME Registries, NEW found, NEW number, NEW first \in Nat,
         Registers(found, number, first), \A p \in points : p.number < first,
         NEW c, NEW s, \A p \in points : ~PlacedFor(c, s, p),
         NEW r \in found, r.id = UrlId(c), r.script = s, r.line = c[2],
         \A t \in found : t.id = UrlId(c) /\ t.script = s => t = r
  PROVE  AppliedOnce(c, s)'
<1> DEFINE p == PointOf(r, number[r])
<1>1. /\ Numbered(found, number, first) /\ PointsGrow(found, number)
      /\ DebuggerIdsGrow(found, number)
  BY RegistersEach
<1>2. /\ p.number = number[r] /\ p.script = s /\ p.line = Actual[<<s, c[2]>>]
      /\ p \in points'
  BY <1>1 DEF Numbered, PointsGrow
<1>3. <<UrlId(c), number[r]>> \in debuggerIds'
  BY <1>1 DEF DebuggerIdsGrow
<1>4. PlacedFor(c, s, p)'
  BY <1>2, <1>3 DEF PlacedFor, UrlId, PointOf
<1>5. ASSUME NEW q \in points', PlacedFor(c, s, q)' PROVE q = p
  BY <1>5, PlacedForAfter
<1> QED  BY <1>2, <1>4, <1>5 DEF AppliedOnce

\* What the callers of resolveBreakpoint have in common: they register what
\* belongs to scripts and cookies that are known from now on, and for each
\* cookie and script that meet for the first time exactly the one request.
RegistersWhatMeets(found) ==
  /\ scripts \subseteq scripts' /\ cookies \subseteq cookies'
  /\ cookies' \subseteq Cookies
  /\ \A r \in found : r.script \in scripts'
  /\ \A r \in found, c \in Cookies : r.id = UrlId(c) =>
       r.line = c[2] /\ c \in cookies' /\ (c \in cookies => r.script \notin scripts)
  /\ \A c \in cookies', s \in scripts' \ (Failed \cup Anonymous) :
       AppliesTo(c, s) =>
         \/ c \in cookies /\ s \in scripts
         \/ \E r \in found : r.id = UrlId(c) /\ r.script = s

LEMMA RegisterStep ==
  ASSUME BreakpointsInv, NEW found, NEW number, NEW first \in Nat,
         Registers(found, number, first), RegistersWhatMeets(found),
         \A p \in points : p.number < first, oneShot' = oneShot
  PROVE  IdsHaveCookies' /\ PointsInScripts' /\ CookiesApply'
<1>0. Registries
  BY DEF BreakpointsInv
<1>1. /\ Numbered(found, number, first) /\ PointsGrow(found, number)
      /\ DebuggerIdsGrow(found, number)
  BY RegistersEach
<1>2. IdsHaveCookies'
  <2> SUFFICES ASSUME NEW d \in debuggerIds', NEW c \in Cookies, d[1] = UrlId(c)
               PROVE  c \in cookies'
    BY DEF IdsHaveCookies, Cookies, UrlId
  <2>1. CASE d \in debuggerIds
    BY <2>1 DEF BreakpointsInv, IdsHaveCookies, RegistersWhatMeets
  <2>2. CASE \E r \in found : d[1] = r.id /\ d[2] = number[r]
    BY <2>2 DEF RegistersWhatMeets
  <2> QED  BY <1>1, <2>1, <2>2 DEF DebuggerIdsGrow
<1>3. PointsInScripts'
  <2> SUFFICES ASSUME NEW p \in points', p.number # oneShot' PROVE p.script \in scripts'
    BY DEF PointsInScripts
  <2>1. CASE p \in points
    BY <2>1 DEF BreakpointsInv, PointsInScripts, RegistersWhatMeets
  <2>2. CASE \E r \in found : p = PointOf(r, number[r])
    BY <1>1, <2>2 DEF RegistersWhatMeets, Numbered
  <2> QED  BY <1>1, <2>1, <2>2 DEF PointsGrow
<1>4. ASSUME NEW c \in cookies', NEW s \in scripts' \ (Failed \cup Anonymous),
             AppliesTo(c, s)
      PROVE  AppliedOnce(c, s)'
  <2>0. c \in Cookies
    BY DEF RegistersWhatMeets
  <2>1. CASE c \in cookies /\ s \in scripts
    <3>1. AppliedOnce(c, s)
      BY <1>4, <2>1 DEF BreakpointsInv, CookiesApply
    <3>2. \A r \in found : ~(r.id = UrlId(c) /\ r.script = s)
      BY <2>0, <2>1 DEF RegistersWhatMeets
    <3> QED  BY <1>0, <3>1, <3>2, OldApplication
  <2>2. CASE ~(c \in cookies /\ s \in scripts)
    <3>1. ASSUME NEW p \in points, PlacedFor(c, s, p) PROVE FALSE
      <4> DEFINE d == <<UrlId(c), p.number>>
      <4>1. d \in debuggerIds /\ d[1] = UrlId(c) /\ d[2] = p.number /\ p.script = s
        BY <3>1 DEF PlacedFor
      <4>2. c \in cookies
        BY <2>0, <4>1 DEF BreakpointsInv, IdsHaveCookies
      <4>3. p.number # oneShot
        BY <1>0, <4>1, RegisteredNumbers
      <4>4. s \in scripts
        BY <4>1, <4>3 DEF BreakpointsInv, PointsInScripts
      <4> QED  BY <2>2, <4>2, <4>4
    <3>2. PICK r \in found : r.id = UrlId(c) /\ r.script = s
      BY <1>4, <2>2 DEF RegistersWhatMeets
    <3>3. ASSUME NEW t \in found, t.id = UrlId(c), t.script = s
          PROVE  t.line = c[2] /\ t \in Requests
      BY <1>1, <2>0, <3>3 DEF RegistersWhatMeets, Numbered
    <3>4. ASSUME NEW t \in found, t.id = UrlId(c), t.script = s PROVE t = r
      BY <3>2, <3>3, <3>4 DEF Requests
    <3>5. r.line = c[2]
      BY <3>2, <3>3
    <3> QED  BY <1>0, <3>1, <3>2, <3>4, <3>5, NewApplication
  <2> QED  BY <2>1, <2>2
<1>5. CookiesApply'
  BY <1>4 DEF CookiesApply, AppliesTo
<1> QED  BY <1>2, <1>3, <1>5

-----------------------------------------------------------------------------
(* The requests the actions make.                                          *)

\* The requests of finitely many cookies for finitely many scripts.
LEMMA RequestsAreFinite ==
  ASSUME NEW C \in SUBSET Cookies, IsFiniteSet(C), NEW D, IsFiniteSet(D),
         NEW R \in SUBSET Requests,
         \A r \in R : \E c \in C : /\ r.id = UrlId(c) /\ r.line = c[2]
                                   /\ r.script \in D
  PROVE  IsFiniteSet(R)
<1> DEFINE f == [x \in C \X D |->
                   [id |-> UrlId(x[1]), script |-> x[2], line |-> x[1][2]]]
           T == {f[x] : x \in C \X D}
<1>1. IsFiniteSet(C \X D)
  BY FS_Product
<1>2. f \in Surjection(C \X D, T)
  BY DEF Surjection
<1>3. IsFiniteSet(T)
  BY ONLY <1>1, <1>2, FS_Surjection
<1>4. ASSUME NEW r \in R PROVE r \in T
  <2>1. PICK c \in C : r.id = UrlId(c) /\ r.line = c[2] /\ r.script \in D
    OBVIOUS
  <2>2. r = [id |-> UrlId(c), script |-> r.script, line |-> c[2]]
    BY <2>1 DEF Requests
  <2>3. <<c, r.script>> \in C \X D /\ f[<<c, r.script>>] = r
    BY <2>1, <2>2
  <2> QED  BY <2>3
<1>5. R \in SUBSET T
  BY <1>4
<1> QED  BY ONLY <1>3, <1>5, FS_Subset

\* The request of a cookie for a script.
RequestOf(c, s) == [id |-> UrlId(c), script |-> s, line |-> c[2]]

LEMMA RequestOfFields ==
  ASSUME NEW c \in Cookies, NEW s \in ScriptIds
  PROVE  /\ RequestOf(c, s) \in Requests /\ RequestOf(c, s).id = UrlId(c)
         /\ RequestOf(c, s).script = s /\ RequestOf(c, s).line = c[2]
  BY UrlIdIsOne DEF RequestOf, Requests

\* What a step of a registering action leaves to be shown.
RegistersWell ==
  /\ points' \subseteq Points /\ nextNumber' \in 1..(MaxNumber + 1)
  /\ debuggerIds' \subseteq Ids \X Numbers /\ serverIds' \subseteq Numbers \X Ids
  /\ SameBreakpoints' /\ NumbersAreFresh' /\ ServerIdsInvert'
  /\ IdsHaveCookies' /\ PointsInScripts' /\ CookiesApply'

LEMMA ResolveStep ==
  ASSUME BreakpointsInv, NEW requests \in SUBSET Requests, IsFiniteSet(requests),
         NEW first \in 1..(MaxNumber + 1), ResolveBreakpoints(requests, first),
         RegistersWhatMeets(Found(requests)),
         \A p \in points : p.number < first, oneShot < first, oneShot' = oneShot
  PROVE  RegistersWell
<1>1. first \in Nat /\ Registries
  BY ConstantsAssumption DEF BreakpointsInv
<1>2. PICK number : Registers(Found(requests), number, first)
  BY ResolveRegisters
<1>3. /\ points' \subseteq Points /\ nextNumber' \in 1..(MaxNumber + 1)
      /\ debuggerIds' \subseteq Ids \X Numbers /\ serverIds' \subseteq Numbers \X Ids
      /\ SameBreakpoints' /\ NumbersAreFresh' /\ ServerIdsInvert'
  BY <1>1, <1>2, RegistersKeeps
<1>4. IdsHaveCookies' /\ PointsInScripts' /\ CookiesApply'
  BY <1>1, <1>2, RegisterStep
<1> QED  BY <1>3, <1>4 DEF RegistersWell

\* didParseSource for scripts the agent does not know yet.
LEMMA DidParseSourceStep ==
  ASSUME BreakpointsInv, NEW parsed \in SUBSET ScriptIds, IsFiniteSet(parsed),
         parsed \cap scripts = {},
         NEW first \in 1..(MaxNumber + 1), DidParseSource(parsed, first),
         \A p \in points : p.number < first, oneShot < first,
         UNCHANGED <<cookies, oneShot>>
  PROVE  RegistersWell
<1> DEFINE requests == CookieRequests(parsed)
<1>0. /\ cookies \subseteq Cookies /\ scripts \subseteq ScriptIds
      /\ scripts' = scripts \cup parsed
  BY DEF BreakpointsInv, Registries, TypeOK, DidParseSource
<1>1. requests \in SUBSET Requests /\ IsFiniteSet(requests)
  <2>1. requests \in SUBSET Requests
    BY DEF CookieRequests
  <2>2. \A r \in requests : \E c \in cookies : /\ r.id = UrlId(c) /\ r.line = c[2]
                                               /\ r.script \in parsed
    BY DEF CookieRequests
  <2>3. IsFiniteSet(cookies)
    BY DEF BreakpointsInv, KnownIsFinite
  <2> HIDE DEF requests
  <2> QED  BY <1>0, <2>1, <2>2, <2>3, RequestsAreFinite
<1>2. RegistersWhatMeets(Found(requests))
  <2>1. ASSUME NEW r \in Found(requests)
        PROVE  /\ r.script \in parsed
               /\ \E c \in cookies : r.id = UrlId(c) /\ r.line = c[2]
    BY DEF Found, Placed, CookieRequests
  <2>2. ASSUME NEW r \in Found(requests), NEW c \in Cookies, r.id = UrlId(c)
        PROVE  r.line = c[2] /\ c \in cookies' /\ (c \in cookies => r.script \notin scripts)
    <3>1. PICK e \in cookies : r.id = UrlId(e) /\ r.line = e[2]
      BY <2>1
    <3>2. e = c
      BY <1>0, <2>2, <3>1, UrlIdIsOne
    <3> QED  BY <2>1, <3>1, <3>2
  <2>3. ASSUME NEW c \in cookies', NEW s \in scripts' \ (Failed \cup Anonymous),
               AppliesTo(c, s), s \notin scripts
        PROVE  \E r \in Found(requests) : r.id = UrlId(c) /\ r.script = s
    <3>1. c \in cookies /\ c \in Cookies /\ s \in parsed
      BY <1>0, <2>3
    <3>2. /\ RequestOf(c, s) \in Requests /\ RequestOf(c, s).id = UrlId(c)
          /\ RequestOf(c, s).script = s /\ RequestOf(c, s).line = c[2]
      BY <3>1, RequestOfFields
    <3>3. RequestOf(c, s) \in requests
      BY <2>3, <3>1, <3>2 DEF CookieRequests, AppliesTo
    <3>4. RequestOf(c, s) \in Found(requests)
      BY <2>3, <3>2, <3>3 DEF Found, Placed, AppliesTo
    <3> QED  BY <3>2, <3>4
  <2> HIDE DEF requests
  <2> QED  BY <1>0, <2>1, <2>2, <2>3 DEF RegistersWhatMeets
<1> QED  BY <1>1, <1>2, ResolveStep DEF DidParseSource

\* V8's next number is new.
LEMMA NextNumberIsNew ==
  ASSUME Registries
  PROVE  /\ nextNumber \in 1..(MaxNumber + 1) /\ nextNumber \in Nat
         /\ \A p \in points : p.number < nextNumber
         /\ oneShot < nextNumber
  BY ConstantsAssumption DEF Registries, TypeOK, NumbersAreFresh

-----------------------------------------------------------------------------
(* The actions.                                                            *)

LEMMA BreakpointsInit == Init => BreakpointsInv
<1> SUFFICES ASSUME Init PROVE BreakpointsInv
  OBVIOUS
<1>1. TypeOK
  <2>1. 1 \in 1..(MaxNumber + 1) /\ 0 \in 0..MaxNumber
    BY ConstantsAssumption
  <2> QED  BY <2>1 DEF Init, TypeOK
<1>2. SameBreakpoints /\ NumbersAreFresh /\ ServerIdsInvert /\ DisableForgets
  BY DEF Init, SameBreakpoints, NumbersAreFresh, ServerIdsInvert, DisableForgets
<1>3. IdsHaveCookies /\ PointsInScripts /\ CookiesApply
  BY DEF Init, IdsHaveCookies, PointsInScripts, CookiesApply
<1>4. KnownIsFinite
  BY FS_EmptySet DEF Init, KnownIsFinite
<1> QED  BY <1>1, <1>2, <1>3, <1>4 DEF BreakpointsInv, Registries

\* What a step that leaves the registries alone keeps.
LEMMA RestUnchanged ==
  ASSUME BreakpointsInv, TypeOK', KnownIsFinite',
         UNCHANGED <<enabled, scripts, cookies, debuggerIds, serverIds, points,
                     nextNumber, oneShot>>
  PROVE  BreakpointsInv'
<1>1. SameBreakpoints' /\ NumbersAreFresh' /\ ServerIdsInvert' /\ DisableForgets'
  BY DEF BreakpointsInv, Registries, SameBreakpoints, NumbersAreFresh,
     ServerIdsInvert, DisableForgets
<1>2. IdsHaveCookies'
  BY DEF BreakpointsInv, IdsHaveCookies, UrlId, Cookies
<1>3. PointsInScripts'
  BY DEF BreakpointsInv, PointsInScripts
<1>4. ASSUME NEW c \in cookies, NEW s \in scripts \ (Failed \cup Anonymous),
             AppliesTo(c, s)
      PROVE  AppliedOnce(c, s)'
  <2>1. AppliedOnce(c, s)
    BY <1>4 DEF BreakpointsInv, CookiesApply
  <2> QED  BY <2>1 DEF AppliedOnce, PlacedFor, UrlId
<1>5. CookiesApply'
  BY <1>4 DEF CookiesApply, AppliesTo
<1> QED  BY <1>1, <1>2, <1>3, <1>5 DEF BreakpointsInv, Registries

LEMMA EnableStep ==
  ASSUME BreakpointsInv, Enable
  PROVE  BreakpointsInv'
<1>1. TypeOK /\ KnownIsFinite /\ DisableForgets
  BY DEF BreakpointsInv, Registries
<1>2. points = {} /\ scripts = {} /\ oneShot = 0 /\ enabled' = TRUE
  BY <1>1 DEF Enable, DisableForgets
<1>3. loaded \in SUBSET ScriptIds /\ IsFiniteSet(loaded) /\ 1 \in 1..(MaxNumber + 1)
  BY <1>1, ConstantsAssumption DEF TypeOK, KnownIsFinite
<1>4. RegistersWell
  BY <1>2, <1>3, DidParseSourceStep DEF Enable
<1>5. UNCHANGED <<loaded, cookies, oneShot>> /\ scripts' = loaded
  BY <1>2 DEF Enable, DidParseSource
<1>6. TypeOK'
  BY <1>1, <1>2, <1>3, <1>4, <1>5 DEF TypeOK, RegistersWell
<1>7. KnownIsFinite' /\ DisableForgets'
  BY <1>1, <1>2, <1>5 DEF KnownIsFinite, DisableForgets
<1> QED  BY <1>4, <1>6, <1>7 DEF BreakpointsInv, Registries, RegistersWell

LEMMA CompileStep ==
  ASSUME BreakpointsInv, NEW s \in ScriptIds, Compile(s)
  PROVE  BreakpointsInv'
<1>1. TypeOK /\ KnownIsFinite /\ DisableForgets /\ Registries
  BY DEF BreakpointsInv, Registries
<1>2. loaded' \subseteq ScriptIds /\ IsFiniteSet(loaded')
  <2>1. loaded' = loaded \cup {s} \/ loaded' = loaded
    BY DEF Compile
  <2> QED  BY <1>1, <2>1, FS_AddElement DEF TypeOK, KnownIsFinite
<1>3. CASE enabled
  <2>1. {s} \in SUBSET ScriptIds /\ IsFiniteSet({s}) /\ {s} \cap scripts = {}
    BY FS_Singleton DEF Compile
  <2>2. /\ DidParseSource({s}, nextNumber) /\ UNCHANGED <<cookies, oneShot>>
        /\ enabled' = enabled /\ scripts' = scripts \cup {s}
    BY <1>3 DEF Compile, DidParseSource
  <2>3. RegistersWell
    BY <1>1, <2>1, <2>2, NextNumberIsNew, DidParseSourceStep
  <2>4. TypeOK'
    BY <1>1, <1>2, <2>2, <2>3 DEF TypeOK, RegistersWell
  <2>5. KnownIsFinite' /\ DisableForgets'
    <3>1. IsFiniteSet(scripts')
      BY <1>1, <2>2, FS_AddElement DEF KnownIsFinite
    <3> QED  BY <1>1, <1>2, <1>3, <2>2, <3>1 DEF KnownIsFinite, DisableForgets
  <2> QED  BY <2>3, <2>4, <2>5 DEF BreakpointsInv, Registries, RegistersWell
<1>4. CASE ~enabled
  <2>1. UNCHANGED <<enabled, scripts, cookies, debuggerIds, serverIds, points,
                    nextNumber, oneShot>>
    BY <1>4 DEF Compile
  <2>2. TypeOK' /\ KnownIsFinite'
    BY <1>1, <1>2, <2>1 DEF TypeOK, KnownIsFinite
  <2> QED  BY <2>1, <2>2, RestUnchanged
<1> QED  BY <1>3, <1>4

LEMMA SetBreakpointByUrlStep ==
  ASSUME BreakpointsInv, NEW c \in Cookies, SetBreakpointByUrl(c)
  PROVE  BreakpointsInv'
<1> DEFINE requests == {r \in Requests : /\ r.id = UrlId(c) /\ r.line = c[2]
                                         /\ r.script \in scripts
                                         /\ <<c[1], r.script>> \in Matches}
<1>1. TypeOK /\ KnownIsFinite /\ DisableForgets /\ Registries
  BY DEF BreakpointsInv, Registries
<1>2. /\ c \notin cookies /\ cookies' = cookies \cup {c}
      /\ UNCHANGED <<enabled, loaded, scripts, oneShot>>
      /\ ResolveBreakpoints(requests, nextNumber)
  BY DEF SetBreakpointByUrl
<1>3. requests \in SUBSET Requests /\ IsFiniteSet(requests)
  <2>1. {c} \in SUBSET Cookies /\ IsFiniteSet({c}) /\ IsFiniteSet(scripts)
    BY <1>1, FS_Singleton DEF KnownIsFinite
  <2>2. requests \in SUBSET Requests
    OBVIOUS
  <2>3. \A r \in requests : \E e \in {c} : /\ r.id = UrlId(e) /\ r.line = e[2]
                                           /\ r.script \in scripts
    OBVIOUS
  <2> HIDE DEF requests
  <2> QED  BY <2>1, <2>2, <2>3, RequestsAreFinite
<1>4. RegistersWhatMeets(Found(requests))
  <2>1. \A r \in Found(requests) : /\ r.script \in scripts /\ r.id = UrlId(c)
                                   /\ r.line = c[2]
    BY DEF Found, Placed
  <2>2. ASSUME NEW r \in Found(requests), NEW e \in Cookies, r.id = UrlId(e)
        PROVE  r.line = e[2] /\ e \in cookies' /\ (e \in cookies => r.script \notin scripts)
    <3>1. e = c
      BY <2>1, <2>2, UrlIdIsOne
    <3> QED  BY <1>2, <2>1, <3>1
  <2>3. ASSUME NEW e \in cookies', NEW s \in scripts' \ (Failed \cup Anonymous),
               AppliesTo(e, s), ~(e \in cookies /\ s \in scripts)
        PROVE  \E r \in Found(requests) : r.id = UrlId(e) /\ r.script = s
    <3>1. e = c /\ s \in scripts /\ s \in ScriptIds
      BY <1>1, <1>2, <2>3 DEF TypeOK
    <3>2. /\ RequestOf(c, s) \in Requests /\ RequestOf(c, s).id = UrlId(c)
          /\ RequestOf(c, s).script = s /\ RequestOf(c, s).line = c[2]
      BY <3>1, RequestOfFields
    <3>3. RequestOf(c, s) \in Found(requests)
      BY <2>3, <3>1, <3>2 DEF Found, Placed, AppliesTo
    <3> QED  BY <3>1, <3>2, <3>3
  <2>4. cookies' \subseteq Cookies
    BY <1>1, <1>2 DEF TypeOK
  <2> HIDE DEF requests
  <2> QED  BY <1>2, <2>1, <2>2, <2>3, <2>4 DEF RegistersWhatMeets
<1> HIDE DEF requests
<1>5. RegistersWell
  BY <1>1, <1>2, <1>3, <1>4, NextNumberIsNew, ResolveStep
<1>6. TypeOK'
  BY <1>1, <1>2, <1>5 DEF TypeOK, RegistersWell
<1>7. KnownIsFinite'
  BY <1>1, <1>2, FS_AddElement DEF KnownIsFinite
<1>8. DisableForgets'
  <2>1. ASSUME ~enabled PROVE points' = {} /\ debuggerIds' = {}
    <3>1. scripts = {} /\ oneShot = 0
      BY <1>1, <2>1 DEF DisableForgets
    <3>2. points' = {}
      <4> SUFFICES ASSUME NEW p \in points' PROVE FALSE
        OBVIOUS
      <4>1. p.number \in Numbers /\ p.number # oneShot'
        BY <1>2, <1>5, <3>1 DEF RegistersWell, Points, Numbers
      <4> QED  BY <1>2, <1>5, <3>1, <4>1 DEF RegistersWell, PointsInScripts
    <3> QED  BY <1>5, <3>2 DEF RegistersWell, SameBreakpoints
  <2> QED  BY <1>1, <1>2, <2>1 DEF DisableForgets
<1> QED  BY <1>5, <1>6, <1>7, <1>8 DEF BreakpointsInv, Registries, RegistersWell

\* setBreakpoint and the command line API's debug and monitor.
LEMMA ResolveInStep ==
  ASSUME BreakpointsInv, NEW s \in ScriptIds, NEW line \in Lines,
         NEW source \in Sources, ResolveIn(s, line, source),
         UNCHANGED <<enabled, loaded, scripts, cookies, oneShot>>
  PROVE  BreakpointsInv'
<1> DEFINE r == [id |-> GenerateBreakpointId(source, s, line), script |-> s,
                 line |-> line]
<1>1. TypeOK /\ KnownIsFinite /\ DisableForgets /\ Registries
  BY DEF BreakpointsInv, Registries
<1>2. /\ s \in scripts /\ ResolveBreakpoints({r}, nextNumber)
      /\ UNCHANGED <<enabled, loaded, scripts, cookies, oneShot>>
  BY DEF ResolveIn
<1>3. {r} \in SUBSET Requests /\ IsFiniteSet({r})
  <2>1. r \in Requests
    BY GeneratedIsId DEF Requests
  <2> HIDE DEF r
  <2> QED  BY <2>1, FS_Singleton
<1>4. RegistersWhatMeets(Found({r}))
  <2>1. \A q \in Found({r}) : /\ q.script \in scripts
                               /\ q.id = GenerateBreakpointId(source, s, line)
    BY <1>2 DEF Found, Placed
  <2>2. \A q \in Found({r}), c \in Cookies : q.id # UrlId(c)
    BY <2>1, UrlIdIsOne
  <2> HIDE DEF r
  <2> QED  BY <1>1, <1>2, <2>1, <2>2 DEF RegistersWhatMeets, TypeOK
<1> HIDE DEF r
<1>5. RegistersWell
  BY <1>1, <1>2, <1>3, <1>4, NextNumberIsNew, ResolveStep
<1>6. TypeOK' /\ KnownIsFinite'
  BY <1>1, <1>2, <1>5 DEF TypeOK, KnownIsFinite, RegistersWell
<1>7. DisableForgets'
  <2>1. enabled /\ enabled' = enabled
    BY <1>1, <1>2 DEF DisableForgets
  <2> QED  BY <2>1 DEF DisableForgets
<1> QED  BY <1>5, <1>6, <1>7 DEF BreakpointsInv, Registries, RegistersWell

LEMMA DisableStep ==
  ASSUME BreakpointsInv, Disable
  PROVE  BreakpointsInv'
<1>1. TypeOK /\ KnownIsFinite
  BY DEF BreakpointsInv, Registries
<1>2. /\ enabled' = FALSE /\ scripts' = {} /\ cookies' = {} /\ debuggerIds' = {}
      /\ points' = {} /\ oneShot' = 0 /\ UNCHANGED <<loaded, serverIds, nextNumber>>
  BY DEF Disable
<1>3. TypeOK'
  <2>1. 0 \in 0..MaxNumber
    BY ConstantsAssumption
  <2> QED  BY <1>1, <1>2, <2>1 DEF TypeOK
<1>4. SameBreakpoints' /\ ServerIdsInvert' /\ DisableForgets'
  BY <1>2 DEF SameBreakpoints, ServerIdsInvert, DisableForgets
<1>5. NumbersAreFresh'
  BY <1>1, <1>2, ConstantsAssumption DEF NumbersAreFresh, TypeOK
<1>6. IdsHaveCookies' /\ PointsInScripts' /\ CookiesApply'
  BY <1>2 DEF IdsHaveCookies, PointsInScripts, CookiesApply
<1>7. KnownIsFinite'
  BY <1>1, <1>2, FS_EmptySet DEF KnownIsFinite
<1> QED  BY <1>3, <1>4, <1>5, <1>6, <1>7 DEF BreakpointsInv, Registries

\* Break points and numbers can go together, with or without their cookies:
\* what is kept stays as it was.
LEMMA RemoveStep ==
  ASSUME BreakpointsInv, NEW numbers,
         points' = WithoutPoints(numbers),
         debuggerIds' = {d \in debuggerIds : d[2] \notin numbers},
         serverIds' \subseteq serverIds,
         \A e \in serverIds : e[1] \notin numbers => e \in serverIds',
         UNCHANGED <<enabled, loaded, scripts, nextNumber>>,
         cookies' \subseteq cookies, IsFiniteSet(cookies'),
         \A c \in cookies, d \in debuggerIds :
           d[1] = UrlId(c) => (c \in cookies' <=> d[2] \notin numbers),
         oneShot' = oneShot \/ oneShot' = 0, oneShot' # oneShot => oneShot \in numbers
  PROVE  BreakpointsInv'
<1>1. TypeOK /\ KnownIsFinite /\ DisableForgets /\ Registries
  BY DEF BreakpointsInv, Registries
<1>2. points' = {p \in points : p.number \notin numbers} /\ points' \subseteq points
  BY DEF WithoutPoints
<1>3. debuggerIds' \subseteq debuggerIds
  OBVIOUS
<1>4. TypeOK' /\ KnownIsFinite'
  <2>1. oneShot' \in 0..MaxNumber
    BY <1>1, ConstantsAssumption DEF TypeOK
  <2> QED  BY <1>1, <1>2, <1>3, <2>1 DEF TypeOK, KnownIsFinite
<1>5. \A d \in debuggerIds : d[2] # oneShot /\ d[2] # 0 /\ \E p \in points : p.number = d[2]
  BY <1>1 DEF Registries, SameBreakpoints, TypeOK, Numbers
<1>6. SameBreakpoints'
  <2>1. \A d \in debuggerIds' : d[2] # oneShot' /\ \E p \in points' : p.number = d[2]
    BY <1>2, <1>5
  <2>2. \A p \in points' : p.number = oneShot' \/ \E d \in debuggerIds' : d[2] = p.number
    BY <1>1, <1>2 DEF Registries, SameBreakpoints
  <2> QED  BY <2>1, <2>2 DEF SameBreakpoints
<1>7. NumbersAreFresh'
  <2>1. 0 < nextNumber
    BY <1>1, ConstantsAssumption DEF TypeOK
  <2> QED  BY <1>1, <1>2, <2>1 DEF Registries, NumbersAreFresh
<1>8. ServerIdsInvert'
  <2>1. ASSUME NEW d \in debuggerIds' PROVE <<d[2], d[1]>> \in serverIds'
    <3>1. <<d[2], d[1]>> \in serverIds /\ d[2] \notin numbers
      BY <1>1 DEF Registries, ServerIdsInvert
    <3>2. <<d[2], d[1]>>[1] = d[2]
      OBVIOUS
    <3> QED  BY <3>1, <3>2
  <2> QED  BY <1>1, <1>3, <2>1 DEF Registries, ServerIdsInvert
<1>9. DisableForgets'
  BY <1>1, <1>2, <1>3 DEF DisableForgets
<1>10. IdsHaveCookies'
  BY <1>3 DEF BreakpointsInv, IdsHaveCookies, UrlId, Cookies
<1>11. PointsInScripts'
  BY <1>2 DEF BreakpointsInv, PointsInScripts
<1>12. ASSUME NEW c \in cookies', NEW s \in scripts \ (Failed \cup Anonymous),
              AppliesTo(c, s)
       PROVE  AppliedOnce(c, s)'
  <2>1. PICK p \in points : /\ PlacedFor(c, s, p) /\ p.line = Actual[<<s, c[2]>>]
                            /\ \A q \in points : PlacedFor(c, s, q) => q = p
    BY <1>12 DEF BreakpointsInv, CookiesApply, AppliedOnce
  <2> DEFINE d == <<UrlId(c), p.number>>
  <2>2. d \in debuggerIds /\ d[1] = UrlId(c) /\ d[2] = p.number /\ p.script = s
    BY <2>1 DEF PlacedFor
  <2>3. p.number \notin numbers
    BY <2>2
  <2>4. p \in points' /\ d \in debuggerIds'
    BY <1>2, <2>2, <2>3
  <2>5. PlacedFor(c, s, p)'
    BY <2>2, <2>4 DEF PlacedFor, UrlId
  <2>6. \A q \in points' : PlacedFor(c, s, q)' => PlacedFor(c, s, q)
    BY <1>3 DEF PlacedFor, UrlId
  <2> QED  BY <1>2, <2>1, <2>4, <2>5, <2>6 DEF AppliedOnce
<1>13. CookiesApply'
  BY <1>12 DEF CookiesApply, AppliesTo
<1> QED  BY <1>4, <1>6, <1>7, <1>8, <1>9, <1>10, <1>11, <1>13
         DEF BreakpointsInv, Registries

\* removeBreakpoint, and the command line API's undebug and unmonitor.
LEMMA RemoveResolvedStep ==
  ASSUME BreakpointsInv, NEW id \in Ids, RemoveResolved(id),
         cookies' = {c \in cookies : UrlId(c) # id},
         UNCHANGED <<enabled, loaded, scripts, nextNumber, oneShot>>
  PROVE  BreakpointsInv'
<1> DEFINE numbers == {d[2] : d \in {e \in debuggerIds : e[1] = id}}
<1>1. TypeOK /\ KnownIsFinite /\ Registries
  BY DEF BreakpointsInv, Registries
<1>2. /\ cookies' = {c \in cookies : UrlId(c) # id}
      /\ points' = WithoutPoints(numbers)
      /\ serverIds' = {e \in serverIds : e[1] \notin numbers}
      /\ debuggerIds' = {d \in debuggerIds : d[1] # id}
      /\ UNCHANGED <<enabled, loaded, scripts, nextNumber, oneShot>>
  BY DEF RemoveResolved
<1>3. ASSUME NEW d \in debuggerIds PROVE d[2] \in numbers <=> d[1] = id
  <2>1. ASSUME NEW e \in debuggerIds, e[1] = id, e[2] = d[2] PROVE d[1] = id
    <3>1. <<e[2], e[1]>> \in serverIds
      BY <1>1 DEF Registries, ServerIdsInvert
    <3>2. <<e[2], e[1]>>[1] = d[2] /\ <<e[2], e[1]>>[2] = id
      BY <2>1
    <3> QED  BY <1>1, <3>1, <3>2 DEF Registries, ServerIdsInvert
  <2> QED  BY <2>1
<1>4. debuggerIds' = {d \in debuggerIds : d[2] \notin numbers}
  BY <1>2, <1>3
<1>5. cookies' \subseteq cookies /\ IsFiniteSet(cookies')
  <2>1. cookies' \in SUBSET cookies
    BY <1>2
  <2> QED  BY <1>1, <2>1, FS_Subset DEF KnownIsFinite
<1>6. \A c \in cookies, d \in debuggerIds :
        d[1] = UrlId(c) => (c \in cookies' <=> d[2] \notin numbers)
  BY <1>2, <1>3
<1> HIDE DEF numbers
<1> QED  BY <1>2, <1>4, <1>5, <1>6, RemoveStep

LEMMA DebugFunctionStep ==
  ASSUME BreakpointsInv, NEW s \in ScriptIds, NEW line \in Lines,
         NEW source \in {"debug", "monitor"},
         DebugFunction(s, line, source) \/ UndebugFunction(s, line, source)
  PROVE  BreakpointsInv'
<1>1. source \in Sources
  BY DEF Sources
<1>2. CASE DebugFunction(s, line, source)
  BY <1>1, <1>2, ResolveInStep DEF DebugFunction
<1>3. CASE UndebugFunction(s, line, source)
  <2> DEFINE id == GenerateBreakpointId(source, s, line)
  <2>1. id \in Ids
    BY <1>1, GeneratedIsId
  <2>2. \A c \in cookies : UrlId(c) # id
    BY <1>1, UrlIdIsOne DEF BreakpointsInv, Registries, TypeOK
  <2>3. /\ RemoveResolved(id)
        /\ UNCHANGED <<enabled, loaded, scripts, cookies, nextNumber, oneShot>>
    BY <1>3 DEF UndebugFunction
  <2> HIDE DEF id
  <2>4. cookies' = {c \in cookies : UrlId(c) # id}
    BY <2>2, <2>3
  <2> QED  BY <2>1, <2>3, <2>4, RemoveResolvedStep
<1> QED  BY <1>2, <1>3

\* The one-shot break point goes; no registered breakpoint has its number.
LEMMA OneShotGoes ==
  ASSUME BreakpointsInv, points' = WithoutPoints({oneShot}), oneShot' = 0,
         UNCHANGED <<enabled, loaded, scripts, cookies, debuggerIds, serverIds,
                     nextNumber>>
  PROVE  BreakpointsInv'
<1>1. KnownIsFinite /\ Registries
  BY DEF BreakpointsInv
<1>2. \A d \in debuggerIds : d[2] \notin {oneShot}
  BY <1>1 DEF Registries, SameBreakpoints
<1>3. debuggerIds' = {d \in debuggerIds : d[2] \notin {oneShot}}
  BY <1>2
<1>4. IsFiniteSet(cookies')
  BY <1>1 DEF KnownIsFinite
<1>5. \A c \in cookies, d \in debuggerIds :
        d[1] = UrlId(c) => (c \in cookies' <=> d[2] \notin {oneShot})
  BY <1>2
<1> QED  BY <1>3, <1>4, <1>5, RemoveStep

LEMMA ContinueToLocationStep ==
  ASSUME BreakpointsInv, NEW s \in ScriptIds, NEW line \in Lines,
         ContinueToLocation(s, line)
  PROVE  BreakpointsInv'
<1> DEFINE others == WithoutPoints({oneShot})
           found  == s \in loaded /\ <<s, line>> \in DOMAIN Actual
           n == nextNumber
           new == [number |-> n, script |-> s, line |-> Actual[<<s, line>>],
                   stops |-> TRUE]
<1>1. TypeOK /\ KnownIsFinite /\ DisableForgets /\ Registries
  BY DEF BreakpointsInv, Registries
<1>2. /\ enabled /\ n \in Numbers /\ n \in Nat /\ nextNumber' = n + 1
      /\ nextNumber' \in 1..(MaxNumber + 1)
      /\ UNCHANGED <<enabled, loaded, scripts, cookies, debuggerIds, serverIds>>
  BY <1>1, ConstantsAssumption DEF ContinueToLocation, TypeOK, Numbers
<1>3. /\ points' = (IF found THEN others \cup {new} ELSE others)
      /\ oneShot' = IF found THEN n ELSE 0
  BY DEF ContinueToLocation
<1>4. \A p \in points : p.number \in Nat /\ p.number < n
  BY <1>1 DEF Registries, TypeOK, NumbersAreFresh, Points, Numbers
<1>5. \A d \in debuggerIds : /\ d[2] \in Nat /\ d[2] < n /\ d[2] # oneShot /\ d[2] # 0
                             /\ \E p \in points : p.number = d[2]
  BY <1>1, RegisteredNumbers DEF Registries, TypeOK, Numbers
<1>6. others = {p \in points : p.number # oneShot}
  BY DEF WithoutPoints
<1>7. found => new \in Points /\ new.number = n /\ new.script = s
  BY <1>2, ConstantsAssumption DEF Points
<1>8. \A p \in points' : \/ p \in points /\ p.number # oneShot /\ p.number # oneShot'
                         \/ found /\ p = new
  <2>1. \A p \in points : p.number \in Numbers
    BY <1>1 DEF TypeOK, Points
  <2>2. \A p \in points : p.number # oneShot'
    BY <1>2, <1>3, <1>4, <2>1 DEF Numbers
  <2> HIDE DEF found, new
  <2> QED  BY <1>3, <1>6, <2>2
<1>9. others \subseteq points' /\ \A p \in points : p.number # oneShot => p \in points'
  BY <1>3, <1>6
<1> HIDE DEF others, found, new
<1>10. TypeOK' /\ KnownIsFinite' /\ DisableForgets'
  <2>1. oneShot' \in 0..MaxNumber
    BY <1>2, <1>3, ConstantsAssumption DEF Numbers
  <2>2. points' \subseteq Points
    BY <1>1, <1>7, <1>8 DEF TypeOK
  <2>3. TypeOK'
    BY <1>1, <1>2, <2>1, <2>2 DEF TypeOK
  <2> QED  BY <1>1, <1>2, <2>3 DEF KnownIsFinite, DisableForgets
<1>11. SameBreakpoints'
  <2>1. ASSUME NEW d \in debuggerIds'
        PROVE  d[2] # oneShot' /\ \E p \in points' : p.number = d[2]
    BY <1>2, <1>3, <1>5, <1>9
  <2>2. ASSUME NEW p \in points'
        PROVE  p.number = oneShot' \/ \E d \in debuggerIds' : d[2] = p.number
    <3>1. CASE p \in points /\ p.number # oneShot
      BY <1>1, <1>2, <3>1 DEF Registries, SameBreakpoints
    <3>2. CASE found /\ p = new
      BY <1>3, <1>7, <3>2
    <3> QED  BY <1>8, <3>1, <3>2
  <2> QED  BY <2>1, <2>2 DEF SameBreakpoints
<1>12. NumbersAreFresh'
  <2>1. \A p \in points' : p.number < nextNumber'
    BY <1>2, <1>4, <1>7, <1>8
  <2>2. oneShot' < nextNumber'
    BY <1>2, <1>3
  <2>3. \A p, q \in points' : p.number = q.number => p = q
    BY <1>1, <1>4, <1>7, <1>8 DEF Registries, NumbersAreFresh
  <2> QED  BY <2>1, <2>2, <2>3 DEF NumbersAreFresh
<1>13. ServerIdsInvert' /\ IdsHaveCookies'
  <2>1. ServerIdsInvert'
    BY <1>1, <1>2 DEF Registries, ServerIdsInvert
  <2>2. IdsHaveCookies'
    BY <1>2 DEF BreakpointsInv, IdsHaveCookies, UrlId, Cookies
  <2> QED  BY <2>1, <2>2
<1>14. PointsInScripts'
  BY <1>2, <1>3, <1>7, <1>8 DEF BreakpointsInv, PointsInScripts
<1>15. ASSUME NEW c \in cookies, NEW t \in scripts \ (Failed \cup Anonymous),
              AppliesTo(c, t)
       PROVE  AppliedOnce(c, t)'
  <2>1. PICK p \in points : /\ PlacedFor(c, t, p) /\ p.line = Actual[<<t, c[2]>>]
                            /\ \A q \in points : PlacedFor(c, t, q) => q = p
    BY <1>15 DEF BreakpointsInv, CookiesApply, AppliedOnce
  <2>2. \A q : PlacedFor(c, t, q)' <=> PlacedFor(c, t, q)
    BY <1>2 DEF PlacedFor, UrlId
  <2>3. \A q : PlacedFor(c, t, q) => q.number # oneShot /\ q.number # n
    <3> SUFFICES ASSUME NEW q, PlacedFor(c, t, q)
                 PROVE  q.number # oneShot /\ q.number # n
      OBVIOUS
    <3> DEFINE d == <<UrlId(c), q.number>>
    <3>1. d \in debuggerIds /\ d[2] = q.number
      BY DEF PlacedFor
    <3> QED  BY <1>2, <1>5, <3>1
  <2>4. p \in points' /\ PlacedFor(c, t, p)'
    BY <1>9, <2>1, <2>2, <2>3
  <2>5. \A q \in points' : PlacedFor(c, t, q)' => q = p
    BY <1>7, <1>8, <2>1, <2>2, <2>3
  <2> QED  BY <2>1, <2>4, <2>5 DEF AppliedOnce
<1>16. CookiesApply'
  BY <1>2, <1>15 DEF CookiesApply, AppliesTo
<1> QED  BY <1>10, <1>11, <1>12, <1>13, <1>14, <1>16 DEF BreakpointsInv, Registries

\* The invariant is inductive.
LEMMA BreakpointsNext == BreakpointsInv /\ [Next]_vars => BreakpointsInv'
<1> SUFFICES ASSUME BreakpointsInv, [Next]_vars PROVE BreakpointsInv'
  OBVIOUS
<1>1. CASE Enable
  BY <1>1, EnableStep
<1>2. CASE Disable
  BY <1>2, DisableStep
<1>3. CASE \E s \in ScriptIds : Compile(s)
  BY <1>3, CompileStep
<1>4. CASE \E c \in Cookies : SetBreakpointByUrl(c)
  BY <1>4, SetBreakpointByUrlStep
<1>5. CASE \E s \in ScriptIds, line \in Lines : SetBreakpoint(s, line)
  BY <1>5, ResolveInStep DEF SetBreakpoint, Sources
<1>6. CASE \E s \in ScriptIds, line \in Lines : ContinueToLocation(s, line)
  BY <1>6, ContinueToLocationStep
<1>7. CASE \E s \in ScriptIds, line \in Lines : Hit(s, line)
  BY <1>7, OneShotGoes DEF Hit
<1>8. CASE \E id \in Ids : RemoveBreakpoint(id)
  BY <1>8, RemoveResolvedStep DEF RemoveBreakpoint
<1>9. CASE UNCHANGED vars
  <2>1. TypeOK' /\ KnownIsFinite'
    BY <1>9 DEF BreakpointsInv, Registries, TypeOK, KnownIsFinite, vars
  <2> QED  BY <1>9, <2>1, RestUnchanged DEF vars
<1>10. CASE \E s \in ScriptIds, line \in Lines, source \in {"debug", "monitor"} :
              DebugFunction(s, line, source) \/ UndebugFunction(s, line, source)
  BY <1>10, DebugFunctionStep
<1> QED  BY <1>1, <1>2, <1>3, <1>4, <1>5, <1>6, <1>7, <1>8, <1>9, <1>10 DEF Next

-----------------------------------------------------------------------------
(* What the invariant gives.                                               *)

\* The registries of the agent and of V8 stay together under every command,
\* compilation and pause.
THEOREM BreakpointsInvariance == Spec => []BreakpointsInv
  BY BreakpointsInit, BreakpointsNext, PTL DEF Spec

\* The state has its type: V8's numbers stay within the bound, the registries
\* hold ids of breakpoints.
THEOREM BreakpointsTypeCorrect == Spec => []TypeOK
<1>1. BreakpointsInv => TypeOK
  BY DEF BreakpointsInv, Registries
<1> QED  BY <1>1, BreakpointsInvariance, PTL

\* What the client can remove is what V8 has set, under numbers that name one
\* break point each, and disable leaves none of it: for every sequence of
\* enable, disable, setBreakpoint, removeBreakpoint and continueToLocation, and of
\* debug, undebug, monitor and unmonitor in the console.
THEOREM RegistriesAgreeAlways == Spec => []RegistriesAgree
<1>1. BreakpointsInv => RegistriesAgree
  BY DEF BreakpointsInv, Registries, RegistriesAgree
<1> QED  BY <1>1, BreakpointsInvariance, PTL

\* didPause looks the numbers V8 reports up in m_serverBreakpoints, which no
\* one ever empties; still a pause names exactly the breakpoints set there.
THEOREM HitsAreSetAlways == Spec => []HitsAreSet
<1>1. BreakpointsInv => HitsAreSet
  <2> SUFFICES ASSUME BreakpointsInv, NEW s \in ScriptIds, NEW line \in Lines,
                      NEW numbers \in SUBSET (NumbersAt(s, line) \ {oneShot})
               PROVE  HitBreakpointIds(numbers) =
                        {d[1] : d \in {e \in debuggerIds : e[2] \in numbers}}
    BY DEF HitsAreSet
  <2>1. \A n \in numbers : \E d \in debuggerIds : d[2] = n
    BY DEF NumbersAt, BreakpointsInv, Registries, SameBreakpoints
  <2>2. ServerIdsInvert
    BY DEF BreakpointsInv, Registries
  <2>3. ASSUME NEW e \in serverIds, e[1] \in numbers
        PROVE  \E d \in debuggerIds : d[2] \in numbers /\ d[1] = e[2]
    BY <2>1, <2>2, <2>3 DEF ServerIdsInvert
  <2>4. ASSUME NEW d \in debuggerIds, d[2] \in numbers
        PROVE  \E e \in serverIds : e[1] \in numbers /\ e[2] = d[1]
    <3>1. <<d[2], d[1]>> \in serverIds
      BY <2>2 DEF ServerIdsInvert
    <3>2. <<d[2], d[1]>>[1] = d[2] /\ <<d[2], d[1]>>[2] = d[1]
      OBVIOUS
    <3> QED  BY <2>4, <3>1, <3>2
  <2> QED  BY <2>3, <2>4 DEF HitBreakpointIds
<1> QED  BY <1>1, BreakpointsInvariance, PTL

\* setBreakpointByUrl, didParseSource and enable together: in every script the
\* agent knows, compiled and with a URL, a breakpoint set by URL that V8 can
\* place is set once and where V8 puts it, whichever came first.
THEOREM UrlBreakpointsApplyAlways == Spec => []UrlBreakpointsApply
<1>1. BreakpointsInv => UrlBreakpointsApply
  <2> SUFFICES ASSUME BreakpointsInv, NEW c \in cookies,
                      NEW s \in scripts \ (Failed \cup Anonymous),
                      <<c[1], s>> \in Matches,
                      <<s, c[2]>> \in InRange \cap DOMAIN Actual
               PROVE  LET there == {p \in points :
                            p.script = s /\ <<UrlId(c), p.number>> \in debuggerIds}
                      IN  /\ Cardinality(there) = 1
                          /\ \A p \in there : p.line = Actual[<<s, c[2]>>]
    BY DEF UrlBreakpointsApply
  <2> DEFINE there == {p \in points :
                        p.script = s /\ <<UrlId(c), p.number>> \in debuggerIds}
  <2>1. PICK p \in points : /\ PlacedFor(c, s, p) /\ p.line = Actual[<<s, c[2]>>]
                            /\ \A q \in points : PlacedFor(c, s, q) => q = p
    BY DEF BreakpointsInv, CookiesApply, AppliesTo, AppliedOnce
  <2>2. there = {p}
    BY <2>1 DEF PlacedFor
  <2>3. Cardinality({p}) = 1
    BY FS_Singleton
  <2> QED  BY <2>1, <2>2, <2>3
<1> QED  BY <1>1, BreakpointsInvariance, PTL

=============================================================================
