------------------------ MODULE RemoteObjects_proofs ------------------------
(***************************************************************************)
(* Proofs about remote objects, for any set of objects and any largest id. *)
(* First what bind, unbind and releaseObjectGroup do to the three maps,    *)
(* then that IndInv is inductive, then that every step is a step of        *)
(* HandleTable or leaves it alone.                                         *)
(***************************************************************************)
EXTENDS RemoteObjects, TLAPS

-----------------------------------------------------------------------------
(* The maps of InjectedScriptNative.                                       *)

LEMMA InMaps ==
  ASSUME NEW S, NEW T, NEW D \in SUBSET S, NEW f \in [D -> T]
  PROVE  f \in Maps(S, T)
  BY DEF Maps

LEMMA OfMaps ==
  ASSUME NEW S, NEW T, NEW f \in Maps(S, T)
  PROVE  DOMAIN f \subseteq S /\ f \in [DOMAIN f -> T]
  BY DEF Maps

LEMMA OfNatives ==
  ASSUME NEW n \in Natives
  PROVE  /\ n.next \in 0..MaxId /\ n.again \in BOOLEAN
         /\ n.members \in [Groups -> SUBSET Ids]
         /\ DOMAIN n.wrapped \subseteq Ids /\ n.wrapped \in [DOMAIN n.wrapped -> Objects]
         /\ DOMAIN n.groupOf \subseteq Ids /\ n.groupOf \in [DOMAIN n.groupOf -> Groups]
<1>1. n.wrapped \in Maps(Ids, Objects) /\ n.groupOf \in Maps(Ids, Groups)
  BY DEF Natives
<1>2. n.next \in 0..MaxId /\ n.again \in BOOLEAN /\ n.members \in [Groups -> SUBSET Ids]
  BY DEF Natives
<1> QED  BY <1>1, <1>2, OfMaps

\* The name of an object's group is a group name.
LEMMA GroupNameType ==
  ASSUME NEW n \in Natives, NEW i
  PROVE  GroupName(n, i) \in GroupNames
  BY OfNatives DEF GroupName, GroupNames

\* What bind does with a value that is not sent as such.
LEMMA BindFields ==
  ASSUME NEW n, NEW v \in Objects, NEW g
  PROVE  LET id == IF n.next = 0 THEN 1 ELSE n.next
             m  == Bind(n, v, g)
         IN  /\ m.next = IF id = MaxId THEN 0 ELSE id + 1
             /\ m.wrapped = [i \in DOMAIN n.wrapped \cup {id} |->
                               IF i = id THEN v ELSE n.wrapped[i]]
             /\ m.groupOf = IF g = NoGroup THEN n.groupOf
                            ELSE [i \in DOMAIN n.groupOf \cup {id} |->
                                    IF i = id THEN g ELSE n.groupOf[i]]
             /\ m.members = [h \in Groups |-> IF h = g THEN n.members[h] \cup {id}
                                                       ELSE n.members[h]]
             /\ m.again = (n.again \/ n.next = 0)
  BY ValuesAssumption DEF Bind

LEMMA BindType ==
  ASSUME NEW n \in Natives, NEW v \in Values, NEW g \in GroupNames
  PROVE  Bind(n, v, g) \in Natives
<1> DEFINE id == IF n.next = 0 THEN 1 ELSE n.next
<1>1. CASE v = Primitive
  BY <1>1 DEF Bind
<1>2. CASE v \in Objects
  <2>1. id \in Ids /\ (IF id = MaxId THEN 0 ELSE id + 1) \in 0..MaxId
    BY OfNatives, IdsAssumption DEF Ids
  <2> HIDE DEF id
  <2>2. [i \in DOMAIN n.wrapped \cup {id} |-> IF i = id THEN v ELSE n.wrapped[i]]
          \in Maps(Ids, Objects)
    <3>1. [i \in DOMAIN n.wrapped \cup {id} |-> IF i = id THEN v ELSE n.wrapped[i]]
            \in [DOMAIN n.wrapped \cup {id} -> Objects]
      BY <1>2, OfNatives
    <3> QED  BY <3>1, <2>1, OfNatives, InMaps
  <2>3. (IF g = NoGroup THEN n.groupOf
         ELSE [i \in DOMAIN n.groupOf \cup {id} |->
                 IF i = id THEN g ELSE n.groupOf[i]]) \in Maps(Ids, Groups)
    <3>1. CASE g = NoGroup
      BY <3>1 DEF Natives
    <3>2. CASE g # NoGroup
      <4>1. [i \in DOMAIN n.groupOf \cup {id} |-> IF i = id THEN g ELSE n.groupOf[i]]
              \in [DOMAIN n.groupOf \cup {id} -> Groups]
        BY <3>2, OfNatives DEF GroupNames
      <4> QED  BY <3>2, <4>1, <2>1, OfNatives, InMaps
    <3> QED  BY <3>1, <3>2
  <2>4. [h \in Groups |-> IF h = g THEN n.members[h] \cup {id} ELSE n.members[h]]
          \in [Groups -> SUBSET Ids]
    BY <2>1, OfNatives
  <2>5. (n.again \/ n.next = 0) \in BOOLEAN
    OBVIOUS
  <2>6. v # Primitive
    BY <1>2, ValuesAssumption
  <2> QED  BY <2>1, <2>2, <2>3, <2>4, <2>5, <2>6 DEF Bind, Natives, id
<1> QED  BY <1>1, <1>2 DEF Values

\* bind keeps the maps together.
LEMMA BindFinds ==
  ASSUME NEW n \in Natives, NEW v \in Values, NEW g \in GroupNames, FindsMembers(n)
  PROVE  FindsMembers(Bind(n, v, g))
<1> DEFINE id == IF n.next = 0 THEN 1 ELSE n.next
           m  == Bind(n, v, g)
<1>1. CASE v = Primitive
  BY <1>1 DEF Bind
<1>2. CASE v \in Objects
  <2> SUFFICES ASSUME NEW i \in DOMAIN m.groupOf
               PROVE  i \in DOMAIN m.wrapped /\ i \in m.members[m.groupOf[i]]
    BY DEF FindsMembers
  <2>1. /\ m.wrapped = [j \in DOMAIN n.wrapped \cup {id} |->
                          IF j = id THEN v ELSE n.wrapped[j]]
        /\ m.groupOf = IF g = NoGroup THEN n.groupOf
                       ELSE [j \in DOMAIN n.groupOf \cup {id} |->
                               IF j = id THEN g ELSE n.groupOf[j]]
        /\ m.members = [h \in Groups |-> IF h = g THEN n.members[h] \cup {id}
                                                  ELSE n.members[h]]
    BY <1>2, BindFields
  <2> HIDE DEF m, id
  <2>2. CASE i \in DOMAIN n.groupOf /\ (g = NoGroup \/ i # id)
    <3>1. i \in DOMAIN n.wrapped /\ i \in n.members[n.groupOf[i]] /\ n.groupOf[i] \in Groups
      BY <2>2, OfNatives DEF FindsMembers
    <3>2. m.groupOf[i] = n.groupOf[i]
      BY <2>1, <2>2
    <3> QED  BY <2>1, <3>1, <3>2
  <2>3. CASE g # NoGroup /\ i = id
    BY <2>1, <2>3 DEF GroupNames
  <2> QED  BY <2>1, <2>2, <2>3
<1> QED  BY <1>1, <1>2 DEF Values

\* bind gives out ids in ascending order until they start again.
LEMMA BindAscends ==
  ASSUME NEW n \in Natives, NEW v \in Values, NEW g \in GroupNames,
         FindsMembers(n), IdsAscend(n)
  PROVE  IdsAscend(Bind(n, v, g))
<1> DEFINE id == IF n.next = 0 THEN 1 ELSE n.next
           m  == Bind(n, v, g)
<1>1. CASE v = Primitive
  BY <1>1 DEF Bind
<1>2. CASE v \in Objects
  <2> SUFFICES ASSUME ~m.again PROVE
         /\ \A i \in DOMAIN m.wrapped : Given(m, i)
         /\ \A h \in Groups : \A i \in m.members[h] :
              Given(m, i) /\ (i \in DOMAIN m.wrapped => GroupName(m, i) = h)
    BY DEF IdsAscend
  <2>1. /\ m.next = IF id = MaxId THEN 0 ELSE id + 1
        /\ m.wrapped = [j \in DOMAIN n.wrapped \cup {id} |->
                          IF j = id THEN v ELSE n.wrapped[j]]
        /\ m.groupOf = IF g = NoGroup THEN n.groupOf
                       ELSE [j \in DOMAIN n.groupOf \cup {id} |->
                               IF j = id THEN g ELSE n.groupOf[j]]
        /\ m.members = [h \in Groups |-> IF h = g THEN n.members[h] \cup {id}
                                                  ELSE n.members[h]]
        /\ m.again = (n.again \/ n.next = 0)
    BY <1>2, BindFields
  <2>2. ~n.again /\ id = n.next /\ id \in Ids
    <3>1. ~n.again /\ n.next # 0
      BY <2>1, Zenon
    <3> QED  BY <3>1, OfNatives DEF Ids
  <2>3. \A i \in Ids : Given(n, i) => i < id
    BY <2>1, <2>2 DEF Given
  <2>4. \A i \in Ids : i <= id => Given(m, i)
    BY <2>1, <2>2, IdsAssumption DEF Given, Ids
  <2>5. \A i \in DOMAIN m.wrapped : i \in Ids /\ i <= id
    BY <2>1, <2>2, <2>3, OfNatives DEF IdsAscend, Ids
  <2>6. ASSUME NEW h \in Groups, NEW i \in m.members[h]
        PROVE  i \in Ids /\ i <= id /\ (i \in DOMAIN m.wrapped => GroupName(m, i) = h)
    <3>1. CASE i = id /\ i \notin n.members[h]
      <4>1. h = g /\ g # NoGroup
        BY <3>1, <2>1, GroupsAssumption DEF Groups
      <4> QED  BY <4>1, <3>1, <2>1, <2>2 DEF GroupName, Ids
    <3>2. CASE i \in n.members[h]
      <4>1. i \in Ids /\ i < id /\ (i \in DOMAIN n.wrapped => GroupName(n, i) = h)
        BY <3>2, <2>2, <2>3, OfNatives DEF IdsAscend
      <4>2. GroupName(m, i) = GroupName(n, i)
        BY <4>1, <2>1, <2>2 DEF GroupName, Ids
      <4>3. i \in DOMAIN m.wrapped => i \in DOMAIN n.wrapped
        BY <4>1, <2>1, <2>2 DEF Ids
      <4> QED  BY <4>1, <4>2, <4>3, <2>2 DEF Ids
    <3> QED  BY <3>1, <3>2, <2>1
  <2> QED  BY <2>4, <2>5, <2>6
<1> QED  BY <1>1, <1>2 DEF Values

\* What unbind does.
LEMMA UnbindFields ==
  ASSUME NEW n \in Natives, NEW ids
  PROVE  LET m == Unbind(n, ids)
         IN  /\ m \in Natives
             /\ m.next = n.next /\ m.members = n.members /\ m.again = n.again
             /\ m.wrapped = [i \in DOMAIN n.wrapped \ ids |-> n.wrapped[i]]
             /\ m.groupOf = [i \in DOMAIN n.groupOf \ ids |-> n.groupOf[i]]
<1> DEFINE w == [i \in DOMAIN n.wrapped \ ids |-> n.wrapped[i]]
           o == [i \in DOMAIN n.groupOf \ ids |-> n.groupOf[i]]
<1>1. w \in Maps(Ids, Objects) /\ o \in Maps(Ids, Groups)
  <2>1. w \in [DOMAIN n.wrapped \ ids -> Objects] /\ DOMAIN n.wrapped \ ids \in SUBSET Ids
    BY OfNatives
  <2>2. o \in [DOMAIN n.groupOf \ ids -> Groups] /\ DOMAIN n.groupOf \ ids \in SUBSET Ids
    BY OfNatives
  <2> HIDE DEF w, o
  <2> QED  BY <2>1, <2>2, InMaps
<1>2. Unbind(n, ids) = [n EXCEPT !.wrapped = w, !.groupOf = o]
  BY DEF Unbind, Restrict
<1> HIDE DEF w, o
<1>3. /\ Unbind(n, ids) \in Natives
      /\ Unbind(n, ids).next = n.next /\ Unbind(n, ids).members = n.members
      /\ Unbind(n, ids).again = n.again
      /\ Unbind(n, ids).wrapped = w /\ Unbind(n, ids).groupOf = o
  BY <1>1, <1>2 DEF Natives
<1> QED  BY <1>3 DEF w, o

LEMMA UnbindKeeps ==
  ASSUME NEW n \in Natives, NEW ids, FindsMembers(n)
  PROVE  /\ FindsMembers(Unbind(n, ids))
         /\ IdsAscend(n) => IdsAscend(Unbind(n, ids))
<1> DEFINE m == Unbind(n, ids)
<1>1. /\ m.next = n.next /\ m.members = n.members /\ m.again = n.again
      /\ m.wrapped = [i \in DOMAIN n.wrapped \ ids |-> n.wrapped[i]]
      /\ m.groupOf = [i \in DOMAIN n.groupOf \ ids |-> n.groupOf[i]]
  BY UnbindFields
<1> HIDE DEF m
<1>2. FindsMembers(m)
  BY <1>1 DEF FindsMembers
<1>3. \A i : Given(m, i) <=> Given(n, i)
  BY <1>1 DEF Given
<1>4. \A i \in DOMAIN m.wrapped : i \in DOMAIN n.wrapped /\ GroupName(m, i) = GroupName(n, i)
  BY <1>1 DEF GroupName
<1>5. IdsAscend(n) => IdsAscend(m)
  BY <1>1, <1>3, <1>4 DEF IdsAscend
<1> QED  BY <1>2, <1>5 DEF m

\* What releaseObjectGroup does for a group that has a name.
LEMMA ReleaseFields ==
  ASSUME NEW n \in Natives, NEW g \in Groups
  PROVE  LET m == ReleaseGroup(n, g)
         IN  /\ m \in Natives
             /\ m.next = n.next /\ m.again = n.again
             /\ m.members = [n.members EXCEPT ![g] = {}]
             /\ m.wrapped = [i \in DOMAIN n.wrapped \ n.members[g] |-> n.wrapped[i]]
             /\ m.groupOf = [i \in DOMAIN n.groupOf \ n.members[g] |-> n.groupOf[i]]
<1> DEFINE u == Unbind(n, n.members[g])
<1>1. ReleaseGroup(n, g) = [u EXCEPT !.members = [@ EXCEPT ![g] = {}]]
  BY GroupsAssumption DEF ReleaseGroup, Groups
<1>2. /\ u \in Natives
      /\ u.next = n.next /\ u.members = n.members /\ u.again = n.again
      /\ u.wrapped = [i \in DOMAIN n.wrapped \ n.members[g] |-> n.wrapped[i]]
      /\ u.groupOf = [i \in DOMAIN n.groupOf \ n.members[g] |-> n.groupOf[i]]
  BY UnbindFields
<1>3. [n.members EXCEPT ![g] = {}] \in [Groups -> SUBSET Ids]
  BY OfNatives
<1> HIDE DEF u
<1>4. /\ ReleaseGroup(n, g) \in Natives
      /\ ReleaseGroup(n, g).next = u.next /\ ReleaseGroup(n, g).again = u.again
      /\ ReleaseGroup(n, g).members = [u.members EXCEPT ![g] = {}]
      /\ ReleaseGroup(n, g).wrapped = u.wrapped
      /\ ReleaseGroup(n, g).groupOf = u.groupOf
  BY <1>1, <1>2, <1>3 DEF Natives
<1> QED  BY <1>2, <1>4

\* After it, no bound object is of that group, and the maps are as good as before.
LEMMA ReleaseKeeps ==
  ASSUME NEW n \in Natives, NEW g \in Groups, FindsMembers(n)
  PROVE  /\ FindsMembers(ReleaseGroup(n, g))
         /\ IdsAscend(n) => IdsAscend(ReleaseGroup(n, g))
         /\ \A i \in DOMAIN ReleaseGroup(n, g).groupOf :
              ReleaseGroup(n, g).groupOf[i] # g /\ i \in DOMAIN n.groupOf
              /\ ReleaseGroup(n, g).groupOf[i] = n.groupOf[i]
<1> DEFINE m == ReleaseGroup(n, g)
<1>1. /\ m.next = n.next /\ m.again = n.again
      /\ m.members = [n.members EXCEPT ![g] = {}]
      /\ m.wrapped = [i \in DOMAIN n.wrapped \ n.members[g] |-> n.wrapped[i]]
      /\ m.groupOf = [i \in DOMAIN n.groupOf \ n.members[g] |-> n.groupOf[i]]
  BY ReleaseFields
<1> HIDE DEF m
<1>2. \A i \in DOMAIN m.groupOf :
        /\ i \in DOMAIN n.groupOf /\ i \in DOMAIN n.wrapped
        /\ i \in DOMAIN m.wrapped
        /\ m.groupOf[i] = n.groupOf[i] /\ m.groupOf[i] # g
        /\ n.groupOf[i] \in Groups /\ i \in n.members[n.groupOf[i]]
  BY <1>1, OfNatives DEF FindsMembers
<1>3. FindsMembers(m)
  BY <1>1, <1>2, OfNatives DEF FindsMembers
<1>4. \A i : Given(m, i) <=> Given(n, i)
  BY <1>1 DEF Given
<1>5. \A i \in DOMAIN m.wrapped : i \in DOMAIN n.wrapped /\ GroupName(m, i) = GroupName(n, i)
  BY <1>1 DEF GroupName
<1>6. \A h \in Groups : m.members[h] \subseteq n.members[h]
  BY <1>1, OfNatives
<1>7. IdsAscend(n) => IdsAscend(m)
  BY <1>1, <1>4, <1>5, <1>6 DEF IdsAscend
<1> QED  BY <1>2, <1>3, <1>7 DEF m

-----------------------------------------------------------------------------
(* The inductive invariant.                                                *)

Good(n)     == n \in Natives /\ FindsMembers(n) /\ IdsAscend(n)
NoFrames(n) == \A i \in DOMAIN n.groupOf : n.groupOf[i] # Backtrace

LEMMA BindGood ==
  ASSUME NEW n, Good(n), NEW v \in Values, NEW g \in GroupNames
  PROVE  /\ Good(Bind(n, v, g))
         /\ NoFrames(n) /\ g # Backtrace => NoFrames(Bind(n, v, g))
<1>1. Good(Bind(n, v, g))
  BY BindType, BindFinds, BindAscends DEF Good
<1>2. CASE v = Primitive
  BY <1>1, <1>2 DEF Bind
<1>3. CASE v \in Objects
  <2> DEFINE id == IF n.next = 0 THEN 1 ELSE n.next
             m  == Bind(n, v, g)
  <2>1. m.groupOf = IF g = NoGroup THEN n.groupOf
                    ELSE [i \in DOMAIN n.groupOf \cup {id} |->
                            IF i = id THEN g ELSE n.groupOf[i]]
    BY <1>3, ValuesAssumption DEF Bind
  <2> HIDE DEF m, id
  <2>2. NoFrames(n) /\ g # Backtrace => NoFrames(m)
    BY <2>1 DEF NoFrames
  <2> QED  BY <1>1, <2>2 DEF m
<1> QED  BY <1>2, <1>3 DEF Values

LEMMA UnbindGood ==
  ASSUME NEW n, Good(n), NEW ids
  PROVE  /\ Good(Unbind(n, ids))
         /\ NoFrames(n) => NoFrames(Unbind(n, ids))
         /\ DOMAIN Unbind(n, ids).wrapped \subseteq DOMAIN n.wrapped
<1>1. Good(Unbind(n, ids))
  BY UnbindFields, UnbindKeeps DEF Good
<1>2. /\ Unbind(n, ids).wrapped = [i \in DOMAIN n.wrapped \ ids |-> n.wrapped[i]]
      /\ Unbind(n, ids).groupOf = [i \in DOMAIN n.groupOf \ ids |-> n.groupOf[i]]
  BY UnbindFields DEF Good
<1>3. NoFrames(n) => NoFrames(Unbind(n, ids))
  BY <1>2 DEF NoFrames
<1> QED  BY <1>1, <1>2, <1>3

LEMMA ReleaseGood ==
  ASSUME NEW n, Good(n), NEW g \in GroupNames
  PROVE  /\ Good(ReleaseGroup(n, g))
         /\ NoFrames(n) \/ g = Backtrace => NoFrames(ReleaseGroup(n, g))
         /\ DOMAIN ReleaseGroup(n, g).wrapped \subseteq DOMAIN n.wrapped
<1>1. CASE g = NoGroup
  BY <1>1, GroupsAssumption DEF ReleaseGroup
<1>2. CASE g \in Groups
  <2>1. Good(ReleaseGroup(n, g))
    BY <1>2, ReleaseFields, ReleaseKeeps DEF Good
  <2>2. \A i \in DOMAIN ReleaseGroup(n, g).groupOf :
           /\ ReleaseGroup(n, g).groupOf[i] # g /\ i \in DOMAIN n.groupOf
           /\ ReleaseGroup(n, g).groupOf[i] = n.groupOf[i]
    BY <1>2, ReleaseKeeps DEF Good
  <2>3. NoFrames(n) \/ g = Backtrace => NoFrames(ReleaseGroup(n, g))
    BY <2>2 DEF NoFrames
  <2>4. ReleaseGroup(n, g).wrapped = [i \in DOMAIN n.wrapped \ n.members[g] |-> n.wrapped[i]]
    BY <1>2, ReleaseFields DEF Good
  <2> QED  BY <2>1, <2>3, <2>4
<1> QED  BY <1>1, <1>2 DEF GroupNames

\* IndInv in the form in which the steps keep it: the parts that only commands
\* about the session touch, and the maps.
FlagsOK ==
  /\ frontend \in BOOLEAN /\ enabled \in BOOLEAN
  /\ contextId \in BOOLEAN /\ created \in BOOLEAN
  /\ lastResult \in Values /\ thread \in Threads /\ call \in Calls
  /\ binders \subseteq GroupNames /\ abandoned \in BOOLEAN
FramesOK == thread # "nested" /\ ~abandoned => NoFrames(native)

LEMMA IndInvParts == IndInv <=> FlagsOK /\ Good(native) /\ FramesOK /\ BoundByScript
  BY DEF IndInv, TypeOK, FlagsOK, Good, GroupsFindMembers, FramesAreReleased,
     FramesOK, NoFrames

LEMMA NextParts ==
  ASSUME FlagsOK', Good(native'), FramesOK', BoundByScript'
  PROVE  IndInv'
  BY DEF IndInv, TypeOK, FlagsOK, Good, GroupsFindMembers, FramesAreReleased,
     FramesOK, NoFrames, FindsMembers, IdsAscend, Given, GroupName

\* The result of a command is bound, or a primitive value in its place.
LEMMA WrapResultBinds ==
  ASSUME NEW v \in Values, NEW g, NEW o, NEW keep, WrapResult(v, g, o, keep)
  PROVE  /\ \E w \in Values : native' = Bind(native, w, g)
         /\ lastResult' # lastResult => g = Console
         /\ lastResult' \in {lastResult, v}
<1>1. (IF o = "byValue" THEN Primitive ELSE v) \in Values
  BY DEF Values
<1> QED  BY <1>1 DEF WrapResult

\* A state in which nothing is bound has no call frames.
LEMMA NothingBound ==
  ASSUME Good(native), BoundByScript, ~created
  PROVE  NoFrames(native)
  BY DEF Good, FindsMembers, BoundByScript, NoFrames

LEMMA InitIndInv == Init => IndInv
<1> SUFFICES ASSUME Init PROVE FlagsOK /\ Good(native) /\ FramesOK /\ BoundByScript
  BY IndInvParts
<1>1. FlagsOK
  BY DEF Init, FlagsOK, Values, Threads, Calls, NoCall, GroupNames
<1>2. native.wrapped \in Maps(Ids, Objects) /\ native.groupOf \in Maps(Ids, Groups)
  <2>1. native.wrapped \in [{} -> Objects] /\ native.groupOf \in [{} -> Groups]
    BY DEF Init
  <2> QED  BY <2>1, InMaps
<1>3. native \in Natives
  BY <1>2, IdsAssumption DEF Init, Natives
<1>4. DOMAIN native.wrapped = {} /\ DOMAIN native.groupOf = {}
      /\ \A g \in Groups : native.members[g] = {}
  BY DEF Init
<1>5. Good(native)
  BY <1>3, <1>4 DEF Good, FindsMembers, IdsAscend
<1>6. FramesOK
  BY <1>4 DEF FramesOK, NoFrames
<1>7. BoundByScript
  BY <1>4 DEF Init, BoundByScript, NoCall
<1> QED  BY <1>1, <1>5, <1>6, <1>7

\* Steps that leave the maps as they are.
LEMMA IdleSteps ==
  ASSUME IndInv,
         \/ ConnectFrontend \/ DisconnectFrontend \/ EnableRuntime
         \/ EnableDebugger \/ DisableDebugger \/ RunMainTask \/ QuitNestedLoop
         \/ (\E g \in GroupNames, b \in BOOLEAN : Evaluate(g, b))
         \/ (\E i \in Ids : CallFunctionOn(i))
  PROVE  IndInv'
<1> USE DEF CanDispatch, LoopRuns, sessionVars
<1> SUFFICES FlagsOK' /\ Good(native') /\ FramesOK' /\ BoundByScript'
  BY NextParts
<1>1. FlagsOK /\ Good(native) /\ FramesOK /\ BoundByScript
  BY IndInvParts
<1>2. UNCHANGED native
  BY DEF ConnectFrontend, DisconnectFrontend, EnableRuntime, EnableDebugger,
     DisableDebugger, RunMainTask, QuitNestedLoop, Evaluate, CallFunctionOn
<1>3. Good(native') /\ (NoFrames(native)' <=> NoFrames(native))
  BY <1>1, <1>2 DEF NoFrames
<1>4. CASE ConnectFrontend \/ EnableRuntime \/ EnableDebugger
  BY <1>1, <1>2, <1>3, <1>4 DEF FlagsOK, FramesOK, BoundByScript,
     ConnectFrontend, EnableRuntime, EnableDebugger
<1>5. CASE DisconnectFrontend \/ DisableDebugger \/ QuitNestedLoop
  BY <1>1, <1>2, <1>3, <1>5 DEF FlagsOK, FramesOK, BoundByScript, Threads,
     DisconnectFrontend, DisableDebugger, QuitNestedLoop, AbandonStop
<1>6. CASE RunMainTask
  BY <1>1, <1>2, <1>3, <1>6 DEF FlagsOK, FramesOK, BoundByScript, Threads,
     RunMainTask, NoCall, Calls, GroupNames
<1>7. ASSUME NEW g \in GroupNames, NEW b \in BOOLEAN, Evaluate(g, b)
      PROVE  FlagsOK' /\ FramesOK' /\ BoundByScript'
  BY <1>1, <1>2, <1>3, <1>7 DEF FlagsOK, FramesOK, BoundByScript, Threads,
     Evaluate, InjectedScriptFor, Calls, HandBinder, GroupNames
<1>8. ASSUME NEW i \in Ids, CallFunctionOn(i)
      PROVE  FlagsOK' /\ FramesOK' /\ BoundByScript'
  <2>1. GroupName(native, i) \in GroupNames
    BY <1>1, GroupNameType DEF Good
  <2> QED
    BY <1>1, <1>2, <1>3, <1>8, <2>1 DEF FlagsOK, FramesOK, BoundByScript, Threads,
       CallFunctionOn, InjectedScriptForObjectId, Calls, HandBinder
<1> QED  BY <1>3, <1>4, <1>5, <1>6, <1>7, <1>8

\* Commands, and the end of JavaScript, that bind.
LEMMA BindingSteps ==
  ASSUME IndInv,
         \/ (\E g \in GroupNames, v \in Values : GetPromiseById(g, v))
         \/ (\E g \in GroupNames, v \in Values, o \in Outcomes : EvaluateInStop(g, v, o))
         \/ (\E i \in Ids, v \in Values, o \in Outcomes : CallFunctionInStop(i, v, o))
         \/ (\E i \in Ids, v \in Values : GetProperties(i, v))
         \/ (\E v \in Objects, g \in GroupNames : BindRemoteObject(v, g))
         \/ (\E v \in Values, o \in Outcomes : FinishJavaScript(v, o))
  PROVE  IndInv'
<1> USE DEF CanDispatch, LoopRuns, sessionVars
<1> SUFFICES FlagsOK' /\ Good(native') /\ FramesOK' /\ BoundByScript'
  BY NextParts
<1>1. FlagsOK /\ Good(native) /\ FramesOK /\ BoundByScript
  BY IndInvParts
<1>2. \A i : GroupName(native, i) \in GroupNames
  BY <1>1, GroupNameType DEF Good
<1>3. NoFrames(native)' <=> NoFrames(native')
  BY DEF NoFrames
<1>4. ASSUME NEW g \in GroupNames, NEW v \in Values, GetPromiseById(g, v)
      PROVE  FlagsOK' /\ Good(native') /\ FramesOK' /\ BoundByScript'
  <2>1. Good(native') /\ (NoFrames(native) /\ g # Backtrace => NoFrames(native'))
    BY <1>1, <1>4, BindGood DEF GetPromiseById
  <2> QED
    BY <1>1, <1>3, <1>4, <2>1 DEF FlagsOK, FramesOK, BoundByScript, Threads,
       GetPromiseById, InjectedScriptFor
<1>5. ASSUME NEW g \in GroupNames, NEW v \in Values, NEW o \in Outcomes,
             EvaluateInStop(g, v, o)
      PROVE  FlagsOK' /\ Good(native') /\ FramesOK' /\ BoundByScript'
  <2>1. (\E w \in Values : native' = Bind(native, w, g)) /\ lastResult' \in Values
    BY <1>1, <1>5, WrapResultBinds DEF EvaluateInStop, FlagsOK
  <2>2. Good(native')
    BY <1>1, <2>1, BindGood
  <2> QED
    BY <1>1, <1>5, <2>1, <2>2 DEF FlagsOK, FramesOK, BoundByScript,
       EvaluateInStop, InjectedScriptFor, HandBinder, GroupNames
<1>6. ASSUME NEW i \in Ids, NEW v \in Values, NEW o \in Outcomes,
             CallFunctionInStop(i, v, o)
      PROVE  FlagsOK' /\ Good(native') /\ FramesOK' /\ BoundByScript'
  <2>1. /\ \E w \in Values : native' = Bind(native, w, GroupName(native, i))
        /\ lastResult' \in Values
    BY <1>1, <1>6, WrapResultBinds DEF CallFunctionInStop, FlagsOK
  <2>2. Good(native')
    BY <1>1, <1>2, <2>1, BindGood
  <2> QED
    BY <1>1, <1>2, <1>6, <2>1, <2>2 DEF FlagsOK, FramesOK, BoundByScript,
       CallFunctionInStop, InjectedScriptForObjectId, HandBinder
<1>7. ASSUME NEW i \in Ids, NEW v \in Values, GetProperties(i, v)
      PROVE  FlagsOK' /\ Good(native') /\ FramesOK' /\ BoundByScript'
  <2>1. /\ Good(native')
        /\ NoFrames(native) /\ GroupName(native, i) # Backtrace => NoFrames(native')
    BY <1>1, <1>2, <1>7, BindGood DEF GetProperties
  <2> QED
    BY <1>1, <1>3, <1>7, <2>1 DEF FlagsOK, FramesOK, BoundByScript, Threads,
       GetProperties, InjectedScriptForObjectId
<1>8. ASSUME NEW v \in Values, NEW o \in Outcomes, FinishJavaScript(v, o)
      PROVE  FlagsOK' /\ Good(native') /\ FramesOK' /\ BoundByScript'
  <2>1. CASE call.caller = "none"
    <3>1. native' = native /\ lastResult' = lastResult
      BY <1>8, <2>1 DEF FinishJavaScript
    <3> QED
      BY <1>1, <1>3, <1>8, <2>1, <3>1 DEF FlagsOK, FramesOK, BoundByScript,
         Threads, FinishJavaScript, NoCall, Calls, GroupNames
  <2>2. CASE call.caller # "none"
    <3>1. call.group \in GroupNames /\ created
      BY <1>1, <2>2 DEF FlagsOK, Calls, BoundByScript
    <3>2. /\ \E w \in Values : native' = Bind(native, w, call.group)
          /\ lastResult' \in Values
      BY <1>1, <1>8, <2>2, WrapResultBinds DEF FinishJavaScript, FlagsOK
    <3>3. Good(native') /\ (NoFrames(native) /\ call.group # Backtrace => NoFrames(native'))
      BY <1>1, <3>1, <3>2, BindGood
    <3> QED
      BY <1>1, <1>3, <1>8, <3>1, <3>2, <3>3 DEF FlagsOK, FramesOK,
         BoundByScript, Threads, FinishJavaScript, NoCall, Calls, GroupNames
  <2> QED  BY <2>1, <2>2
<1>9. ASSUME NEW v \in Objects, NEW g \in GroupNames, BindRemoteObject(v, g)
      PROVE  FlagsOK' /\ Good(native') /\ FramesOK' /\ BoundByScript'
  <2>1. v \in Values /\ created
    BY <1>1, <1>9 DEF FlagsOK, BoundByScript, BindRemoteObject, Values
  <2>2. native' = Bind(native, v, g)
    BY <1>9 DEF BindRemoteObject
  <2>3. Good(native') /\ (NoFrames(native) /\ g # Backtrace => NoFrames(native'))
    BY <1>1, <2>1, <2>2, BindGood
  <2> QED
    BY <1>1, <1>3, <1>9, <2>1, <2>2, <2>3 DEF FlagsOK, FramesOK, BoundByScript,
       BindRemoteObject
<1> QED  BY <1>4, <1>5, <1>6, <1>7, <1>8, <1>9

\* Stops, and commands that release.
LEMMA StopSteps ==
  ASSUME IndInv,
         \/ (\E s \in Objects, v \in Values, e \in Values : DidPause(e, s, v))
         \/ (\E s \in Objects, v \in Values : SendCallFrames(s, v))
         \/ Resume
         \/ (\E i \in Ids : ReleaseObject(i))
         \/ (\E g \in GroupNames : ReleaseObjectGroup(g))
  PROVE  IndInv'
<1> USE DEF CanDispatch, LoopRuns, sessionVars
<1> SUFFICES FlagsOK' /\ Good(native') /\ FramesOK' /\ BoundByScript'
  BY NextParts
<1>1. FlagsOK /\ Good(native) /\ FramesOK /\ BoundByScript
  BY IndInvParts
<1>2. NoFrames(native)' <=> NoFrames(native')
  BY DEF NoFrames
<1>3. Backtrace \in GroupNames
  BY DEF GroupNames, Groups
<1>4. \A n, v, w : Good(n) /\ v \in Values /\ w \in Values =>
                   Good(WrapCallFrames(n, v, w))
  BY <1>3, BindGood DEF WrapCallFrames
<1>5. ASSUME NEW s \in Objects, NEW v \in Values, NEW e \in Values, DidPause(e, s, v)
      PROVE  FlagsOK' /\ Good(native') /\ FramesOK' /\ BoundByScript'
  <2>1. Good(Bind(native, e, Backtrace))
    BY <1>1, <1>3, BindGood
  <2>2. Good(native')
    BY <1>4, <1>5, <2>1 DEF DidPause, Values
  <2> QED
    BY <1>1, <1>5, <2>2 DEF FlagsOK, FramesOK, BoundByScript, Threads,
       DidPause, InjectedScriptFor
<1>6. ASSUME NEW s \in Objects, NEW v \in Values, SendCallFrames(s, v)
      PROVE  FlagsOK' /\ Good(native') /\ FramesOK' /\ BoundByScript'
  <2>1. Good(native')
    BY <1>1, <1>4, <1>6 DEF SendCallFrames, Values
  <2> QED
    BY <1>1, <1>6, <2>1 DEF FlagsOK, FramesOK, BoundByScript,
       SendCallFrames, InjectedScriptFor
<1>7. ASSUME NEW g \in GroupNames, ReleaseObjectGroupOfScripts(g)
      PROVE  /\ Good(native') /\ lastResult' \in Values
             /\ NoFrames(native) \/ g = Backtrace => NoFrames(native')
             /\ DOMAIN native'.wrapped \subseteq DOMAIN native.wrapped
  <2>1. CASE created
    BY <1>1, <1>7, <2>1, ReleaseGood
    DEF ReleaseObjectGroupOfScripts, FlagsOK, Values
  <2>2. CASE ~created
    BY <1>1, <1>7, <2>2, NothingBound DEF ReleaseObjectGroupOfScripts, FlagsOK
  <2> QED  BY <2>1, <2>2
<1>8. CASE Resume
  <2>1. Good(native') /\ NoFrames(native') /\ lastResult' \in Values
        /\ DOMAIN native'.wrapped \subseteq DOMAIN native.wrapped
    BY <1>3, <1>7, <1>8 DEF Resume
  <2> QED
    BY <1>1, <1>2, <1>8, <2>1 DEF FlagsOK, FramesOK, BoundByScript, Threads, Resume
<1>9. ASSUME NEW i \in Ids, ReleaseObject(i)
      PROVE  FlagsOK' /\ Good(native') /\ FramesOK' /\ BoundByScript'
  <2>1. Good(native') /\ (NoFrames(native) => NoFrames(native'))
        /\ DOMAIN native'.wrapped \subseteq DOMAIN native.wrapped
    BY <1>1, <1>9, UnbindGood DEF ReleaseObject
  <2> QED
    BY <1>1, <1>2, <1>9, <2>1 DEF FlagsOK, FramesOK, BoundByScript, ReleaseObject
<1>10. ASSUME NEW g \in GroupNames, ReleaseObjectGroup(g)
       PROVE  FlagsOK' /\ Good(native') /\ FramesOK' /\ BoundByScript'
  <2>1. /\ Good(native') /\ lastResult' \in Values
        /\ NoFrames(native) \/ g = Backtrace => NoFrames(native')
        /\ DOMAIN native'.wrapped \subseteq DOMAIN native.wrapped
    BY <1>7, <1>10 DEF ReleaseObjectGroup
  <2> QED
    BY <1>1, <1>2, <1>10, <2>1 DEF FlagsOK, FramesOK, BoundByScript, ReleaseObjectGroup
<1> QED  BY <1>5, <1>6, <1>8, <1>9, <1>10

LEMMA NextIndInv == IndInv /\ [Next]_vars => IndInv'
<1> SUFFICES ASSUME IndInv, [Next]_vars PROVE IndInv'
  OBVIOUS
<1>1. CASE Next
  BY <1>1, IdleSteps, BindingSteps, StopSteps DEF Next
<1>2. CASE UNCHANGED vars
  BY <1>2 DEF vars, IndInv, TypeOK, GroupsFindMembers, FindsMembers,
     FramesAreReleased, IdsAscend, Given, GroupName, BoundByScript
<1> QED  BY <1>1, <1>2

\* IndInv holds in every reachable state of the remote objects.
THEOREM ObjectsInvariance == Spec => []IndInv
  BY InitIndInv, NextIndInv, PTL DEF Spec

\* Every reachable state is well typed: ids stay within the int, whatever runs
\* over.
THEOREM ObjectsTypeCorrect == Spec => []TypeOK
<1>1. IndInv => TypeOK
  BY DEF IndInv
<1> QED  BY <1>1, ObjectsInvariance, PTL

\* The three maps of InjectedScriptNative agree, also after ids started again.
THEOREM GroupsFindMembersAlways == Spec => []GroupsFindMembers
<1>1. IndInv => GroupsFindMembers
  BY DEF IndInv
<1> QED  BY <1>1, ObjectsInvariance, PTL

\* No call frame of a stop that its client ended stays bound.
THEOREM FramesAreReleasedAlways == Spec => []FramesAreReleased
<1>1. IndInv => FramesAreReleased
  BY DEF IndInv
<1> QED  BY <1>1, ObjectsInvariance, PTL

-----------------------------------------------------------------------------
(* The maps implement HandleTable.                                         *)

HandleOf(n, i) == [id |-> i, object |-> n.wrapped[i], group |-> GroupName(n, i)]
HandlesOf(n)   == {HandleOf(n, i) : i \in DOMAIN n.wrapped}

LEMMA HandlesAre == handles = HandlesOf(native) /\ handles' = HandlesOf(native')
  BY DEF handles, HandlesOf, HandleOf, GroupName

\* From n to m handles were added in group g and none was touched.
Adds(n, m, g) ==
  /\ ~n.again
  /\ \A i \in DOMAIN n.wrapped : i \in DOMAIN m.wrapped /\ HandleOf(m, i) = HandleOf(n, i)
  /\ \A i \in DOMAIN m.wrapped : i \notin DOMAIN n.wrapped => HandleOf(m, i).group = g

LEMMA BindAdds ==
  ASSUME NEW n, Good(n), NEW v \in Values, NEW g \in GroupNames,
         ~Bind(n, v, g).again
  PROVE  Adds(n, Bind(n, v, g), g)
<1> DEFINE id == IF n.next = 0 THEN 1 ELSE n.next
           m  == Bind(n, v, g)
<1>1. CASE v = Primitive
  BY <1>1 DEF Bind, Adds
<1>2. CASE v \in Objects
  <2>1. /\ m.wrapped = [j \in DOMAIN n.wrapped \cup {id} |->
                          IF j = id THEN v ELSE n.wrapped[j]]
        /\ m.groupOf = IF g = NoGroup THEN n.groupOf
                       ELSE [j \in DOMAIN n.groupOf \cup {id} |->
                               IF j = id THEN g ELSE n.groupOf[j]]
        /\ m.again = (n.again \/ n.next = 0)
    BY <1>2, ValuesAssumption DEF Bind
  <2>2. ~n.again /\ n.next # 0
    BY <2>1, Zenon
  <2>3. id = n.next /\ id \in Nat
    BY <2>2, OfNatives DEF Good
  <2>4. id \notin DOMAIN n.wrapped
    BY <2>2, <2>3, OfNatives DEF Good, IdsAscend, Given
  <2>5. id \notin DOMAIN n.groupOf
    BY <2>4 DEF Good, FindsMembers
  <2> HIDE DEF m, id
  <2>6. \A i \in DOMAIN n.wrapped : /\ i \in DOMAIN m.wrapped
                                   /\ m.wrapped[i] = n.wrapped[i]
                                   /\ GroupName(m, i) = GroupName(n, i)
    BY <2>1, <2>4 DEF GroupName
  <2>7. \A i \in DOMAIN m.wrapped : i \notin DOMAIN n.wrapped => GroupName(m, i) = g
    BY <2>1, <2>5 DEF GroupName
  <2>8. Adds(n, m, g)
    BY <2>2, <2>6, <2>7 DEF Adds, HandleOf
  <2> QED  BY <2>8 DEF m
<1> QED  BY <1>1, <1>2 DEF Values

\* Ids that started again never become fresh.
LEMMA BindAgain ==
  ASSUME NEW n, NEW v, NEW g, n.again
  PROVE  Bind(n, v, g).again
  BY DEF Bind

LEMMA AddsTwice ==
  ASSUME NEW n, NEW m, NEW o, NEW g, Adds(n, m, g), Adds(m, o, g)
  PROVE  Adds(n, o, g)
  BY DEF Adds

\* A step that adds handles is a HandOut.
LEMMA AddsHandsOut ==
  ASSUME NEW g \in GroupNames, Adds(native, native', g), ~native'.again,
         lastResult' # lastResult => g = Console
  PROVE  Table!Next
<1> DEFINE new == {h \in handles' : h \notin handles}
<1>1. /\ \A i \in DOMAIN native.wrapped :
           i \in DOMAIN native'.wrapped /\ HandleOf(native', i) = HandleOf(native, i)
      /\ \A i \in DOMAIN native'.wrapped :
           i \notin DOMAIN native.wrapped => HandleOf(native', i).group = g
      /\ ~native.again
  BY DEF Adds
<1>2. handles \subseteq handles'
  BY <1>1, HandlesAre DEF HandlesOf
<1>3. handles' = handles \cup new
  BY <1>2
<1>4. ASSUME NEW h \in new PROVE h.group = g /\ \A k \in handles : k.id # h.id
  <2>1. PICK i \in DOMAIN native'.wrapped : h = HandleOf(native', i)
    BY HandlesAre DEF HandlesOf
  <2>2. i \notin DOMAIN native.wrapped
    BY <1>1, <2>1, HandlesAre DEF HandlesOf
  <2>3. \A k \in handles : k.id \in DOMAIN native.wrapped
    BY HandlesAre DEF HandlesOf, HandleOf
  <2>4. h.id = i
    BY <2>1 DEF HandleOf
  <2> QED  BY <1>1, <2>1, <2>2, <2>3, <2>4
<1>5. new \in SUBSET {h \in handles' : h \notin handles}
  OBVIOUS
<1> HIDE DEF new
<1>6. Table!HandOut(g, new)
  BY <1>3, <1>4 DEF Table!HandOut
<1>7. Table!Promised
  BY <1>5, <1>6 DEF Table!Promised, GroupNames
<1> QED  BY <1>1, <1>7 DEF Table!Next

\* A step that unbinds one id releases its handle, if there is one.
LEMMA UnbindReleases ==
  ASSUME Good(native), NEW i, native' = Unbind(native, {i}), UNCHANGED lastResult
  PROVE  [Table!Next]_(Table!vars)
<1>1. /\ native'.again = native.again
      /\ native'.wrapped = [j \in DOMAIN native.wrapped \ {i} |-> native.wrapped[j]]
      /\ native'.groupOf = [j \in DOMAIN native.groupOf \ {i} |-> native.groupOf[j]]
  BY UnbindFields DEF Good
<1>2. \A j \in DOMAIN native'.wrapped : HandleOf(native', j) = HandleOf(native, j)
  BY <1>1 DEF HandleOf, GroupName
<1>3. \A j : HandleOf(native, j).id = j
  BY DEF HandleOf
<1>4. HandlesOf(native') = {h \in HandlesOf(native) : h.id # i}
  BY <1>1, <1>2, <1>3 DEF HandlesOf
<1>5. CASE i \in DOMAIN native.wrapped
  <2>1. HandleOf(native, i) \in handles
    BY <1>5, HandlesAre DEF HandlesOf
  <2>2. Table!Release(HandleOf(native, i).id)
    BY <1>3, <1>4, HandlesAre DEF Table!Release
  <2>3. Table!Promised
    BY <2>1, <2>2 DEF Table!Promised
  <2> QED  BY <1>1, <2>3 DEF Table!Next
<1>6. CASE i \notin DOMAIN native.wrapped
  <2>1. HandlesOf(native') = HandlesOf(native)
    BY <1>3, <1>4, <1>6 DEF HandlesOf
  <2> QED  BY <1>1, <2>1, HandlesAre DEF Table!vars
<1> QED  BY <1>5, <1>6

\* A step that releases a group takes the handles of that group.
LEMMA GroupReleases ==
  ASSUME Good(native), BoundByScript, NEW g \in GroupNames,
         ReleaseObjectGroupOfScripts(g)
  PROVE  [Table!Next]_(Table!vars)
<1>1. CASE ~created
  BY <1>1, HandlesAre DEF ReleaseObjectGroupOfScripts, Table!vars
<1>2. CASE created /\ g = NoGroup
  <2>1. native' = native /\ lastResult' = lastResult
    BY <1>2, GroupsAssumption DEF ReleaseObjectGroupOfScripts, ReleaseGroup
  <2> QED  BY <2>1, HandlesAre DEF Table!vars
<1>3. CASE created /\ g \in Groups
  <2>1. /\ native' = ReleaseGroup(native, g)
        /\ lastResult' = IF g = Console THEN Primitive ELSE lastResult
    BY <1>3 DEF ReleaseObjectGroupOfScripts
  <2>2. /\ native'.again = native.again
        /\ native'.wrapped = [j \in DOMAIN native.wrapped \ native.members[g] |->
                                native.wrapped[j]]
        /\ native'.groupOf = [j \in DOMAIN native.groupOf \ native.members[g] |->
                                native.groupOf[j]]
    BY <1>3, <2>1, ReleaseFields DEF Good
  <2>3. CASE native.again
    BY <2>2, <2>3 DEF Table!Next
  <2>4. CASE ~native.again
    <3>1. \A j \in DOMAIN native.wrapped :
            j \in native.members[g] <=> GroupName(native, j) = g
      BY <1>3, <2>4, GroupsAssumption
      DEF Good, FindsMembers, IdsAscend, GroupName, Groups
    <3>2. \A j \in DOMAIN native'.wrapped : HandleOf(native', j) = HandleOf(native, j)
      BY <2>2 DEF HandleOf, GroupName
    <3>3. \A j : HandleOf(native, j).group = GroupName(native, j)
      BY DEF HandleOf
    <3>4. HandlesOf(native') = {h \in HandlesOf(native) : h.group # g}
      BY <2>2, <3>1, <3>2, <3>3 DEF HandlesOf
    <3>5. Table!ReleaseGroup(g)
      BY <2>1, <3>4, HandlesAre DEF Table!ReleaseGroup
    <3>6. Table!Promised
      BY <1>3, <3>5 DEF Table!Promised
    <3> QED  BY <2>2, <2>4, <3>6 DEF Table!Next
  <2> QED  BY <2>3, <2>4
<1> QED  BY <1>1, <1>2, <1>3 DEF GroupNames

LEMMA TableStutters ==
  ASSUME UNCHANGED <<native, lastResult>>
  PROVE  UNCHANGED Table!vars
  BY HandlesAre DEF Table!vars

\* A step that binds one value hands it out.
LEMMA OneHandsOut ==
  ASSUME Good(native), NEW v \in Values, NEW g \in GroupNames,
         native' = Bind(native, v, g), lastResult' # lastResult => g = Console
  PROVE  Table!Next
<1>1. CASE native'.again
  BY <1>1 DEF Table!Next
<1>2. CASE ~native'.again
  BY <1>2, BindAdds, AddsHandsOut
<1> QED  BY <1>1, <1>2

\* So does a step that binds the values of a stop.
LEMMA FramesHandOut ==
  ASSUME NEW n, Good(n), NEW s \in Values, NEW w \in Values,
         ~WrapCallFrames(n, s, w).again
  PROVE  Adds(n, WrapCallFrames(n, s, w), Backtrace)
<1> DEFINE m == Bind(n, s, Backtrace)
           o == Bind(m, w, Backtrace)
<1>1. Backtrace \in GroupNames
  BY DEF GroupNames, Groups
<1>2. Good(m)
  BY <1>1, BindGood
<1>3. WrapCallFrames(n, s, w) = o
  BY DEF WrapCallFrames
<1>4. ~o.again /\ ~m.again
  BY <1>3, BindAgain
<1>5. Adds(n, m, Backtrace)
  BY <1>1, <1>4, BindAdds
<1> HIDE DEF m
<1>6. Adds(m, o, Backtrace)
  BY <1>1, <1>2, <1>4, BindAdds
<1> QED  BY <1>3, <1>5, <1>6, AddsTwice

LEMMA RefinesSteps ==
  ASSUME IndInv, Next
  PROVE  [Table!Next]_(Table!vars)
<1> USE DEF sessionVars
<1>1. FlagsOK /\ Good(native) /\ BoundByScript
  BY IndInvParts
<1>2. \A i : GroupName(native, i) \in GroupNames
  BY <1>1, GroupNameType DEF Good
<1>3. Backtrace \in GroupNames
  BY DEF GroupNames, Groups
<1>4. CASE \/ ConnectFrontend \/ DisconnectFrontend \/ EnableRuntime
           \/ EnableDebugger \/ DisableDebugger \/ RunMainTask \/ QuitNestedLoop
           \/ (\E g \in GroupNames, b \in BOOLEAN : Evaluate(g, b))
           \/ (\E i \in Ids : CallFunctionOn(i))
  <2>1. UNCHANGED <<native, lastResult>>
    BY <1>4 DEF ConnectFrontend, DisconnectFrontend, EnableRuntime, EnableDebugger,
       DisableDebugger, RunMainTask, QuitNestedLoop, Evaluate, CallFunctionOn
  <2> QED  BY <2>1, TableStutters
<1>5. ASSUME NEW g \in GroupNames, NEW v \in Values, GetPromiseById(g, v)
      PROVE  Table!Next
  BY <1>1, <1>5, OneHandsOut DEF GetPromiseById
<1>6. ASSUME NEW g \in GroupNames, NEW v \in Values, NEW o \in Outcomes,
             EvaluateInStop(g, v, o)
      PROVE  Table!Next
  BY <1>1, <1>6, WrapResultBinds, OneHandsOut DEF EvaluateInStop
<1>7. ASSUME NEW i \in Ids, NEW v \in Values, NEW o \in Outcomes,
             CallFunctionInStop(i, v, o)
      PROVE  Table!Next
  BY <1>1, <1>2, <1>7, WrapResultBinds, OneHandsOut DEF CallFunctionInStop
<1>8. ASSUME NEW i \in Ids, NEW v \in Values, GetProperties(i, v)
      PROVE  Table!Next
  BY <1>1, <1>2, <1>8, OneHandsOut DEF GetProperties
<1>9. ASSUME NEW v \in Values, NEW o \in Outcomes, FinishJavaScript(v, o)
      PROVE  [Table!Next]_(Table!vars)
  <2>1. CASE call.caller = "none"
    BY <1>9, <2>1, TableStutters DEF FinishJavaScript
  <2>2. CASE call.caller # "none"
    <3>1. call.group \in GroupNames
      BY <1>1 DEF FlagsOK, Calls
    <3>2. /\ \E w \in Values : native' = Bind(native, w, call.group)
          /\ lastResult' # lastResult => call.group = Console
      BY <1>9, <2>2, WrapResultBinds DEF FinishJavaScript
    <3> QED  BY <1>1, <3>1, <3>2, OneHandsOut
  <2> QED  BY <2>1, <2>2
<1>10. ASSUME NEW s \in Objects, NEW v \in Values, SendCallFrames(s, v)
       PROVE  Table!Next
  <2>1. native' = WrapCallFrames(native, s, v) /\ lastResult' = lastResult
    BY <1>10 DEF SendCallFrames
  <2>2. CASE native'.again
    BY <2>2 DEF Table!Next
  <2>3. CASE ~native'.again
    BY <1>1, <1>3, <2>1, <2>3, FramesHandOut, AddsHandsOut DEF Values
  <2> QED  BY <2>2, <2>3
<1>11. ASSUME NEW s \in Objects, NEW v \in Values, NEW e \in Values, DidPause(e, s, v)
       PROVE  Table!Next
  <2> DEFINE m == Bind(native, e, Backtrace)
  <2>1. native' = WrapCallFrames(m, s, v) /\ lastResult' = lastResult
    BY <1>11 DEF DidPause
  <2>2. Good(m)
    BY <1>1, <1>3, BindGood
  <2>3. CASE native'.again
    BY <2>3 DEF Table!Next
  <2>4. CASE ~native'.again
    <3>1. ~m.again
      BY <2>1, <2>4, BindAgain DEF WrapCallFrames
    <3>2. Adds(native, m, Backtrace)
      BY <1>1, <1>3, <3>1, BindAdds
    <3> HIDE DEF m
    <3>3. Adds(m, native', Backtrace)
      BY <2>1, <2>2, <2>4, FramesHandOut DEF Values
    <3> QED  BY <1>3, <2>1, <2>4, <3>2, <3>3, AddsTwice, AddsHandsOut
  <2> QED  BY <2>3, <2>4
<1>12. CASE Resume \/ \E g \in GroupNames : ReleaseObjectGroup(g)
  BY <1>1, <1>3, <1>12, GroupReleases DEF Resume, ReleaseObjectGroup
<1>13. ASSUME NEW i \in Ids, ReleaseObject(i)
       PROVE  [Table!Next]_(Table!vars)
  BY <1>1, <1>13, UnbindReleases DEF ReleaseObject
<1>14. ASSUME NEW v \in Objects, NEW g \in GroupNames, BindRemoteObject(v, g)
       PROVE  Table!Next
  BY <1>1, <1>14, OneHandsOut DEF BindRemoteObject, Values
<1> QED
  BY <1>4, <1>5, <1>6, <1>7, <1>8, <1>9, <1>10, <1>11, <1>12, <1>13, <1>14 DEF Next

\* Until ids start again, InjectedScriptNative keeps what the Runtime domain
\* promises: an id names one object from the answer that brought it until it or
\* its group is released, and a release takes nothing else.
THEOREM ImplementsTableAlways == Spec => ImplementsTable
<1>1. Init => Table!Init
  <2> SUFFICES ASSUME Init PROVE Table!Init
    OBVIOUS
  <2>1. DOMAIN native.wrapped = {} /\ native.again = FALSE /\ lastResult = Primitive
    BY DEF Init
  <2> QED  BY <2>1, HandlesAre DEF Table!Init, HandlesOf
<1>2. IndInv /\ [Next]_vars => [Table!Next]_(Table!vars)
  <2> SUFFICES ASSUME IndInv, [Next]_vars PROVE [Table!Next]_(Table!vars)
    OBVIOUS
  <2>1. CASE UNCHANGED vars
    BY <2>1, TableStutters DEF vars
  <2> QED  BY <2>1, RefinesSteps
<1> QED  BY <1>1, <1>2, ObjectsInvariance, PTL DEF Spec, ImplementsTable, Table!Spec

=============================================================================
