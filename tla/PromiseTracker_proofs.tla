------------------------ MODULE PromiseTracker_proofs ------------------------
(***************************************************************************)
(* Proofs about the promise tracker, for any set of promises, any greatest *)
(* id and any number of events.  What an operation of the tracker keeps is *)
(* stated for the tracker as a record (Good); then IndInv is inductive.    *)
(***************************************************************************)
EXTENDS PromiseTracker, TLAPS

-----------------------------------------------------------------------------
(* The tracker's maps.                                                     *)

LEMMA InMaps ==
  ASSUME NEW S, NEW T, NEW D \in SUBSET S, NEW f \in [D -> T]
  PROVE  f \in Maps(S, T)
  BY DEF Maps

LEMMA OfMaps ==
  ASSUME NEW S, NEW T, NEW f \in Maps(S, T)
  PROVE  DOMAIN f \subseteq S /\ f \in [DOMAIN f -> T]
  BY DEF Maps

LEMMA EmptyMap ==
  ASSUME NEW S, NEW T
  PROVE  Empty \in Maps(S, T) /\ DOMAIN Empty = {}
<1>1. Empty \in [{} -> T] /\ DOMAIN Empty = {}
  BY DEF Empty
<1> QED  BY <1>1, InMaps

LEMMA OfTracker ==
  ASSUME NEW t \in Tracker
  PROVE  /\ t.last \in 0..MaxId /\ t.reused \in BOOLEAN /\ t.known \subseteq Ids
         /\ DOMAIN t.toId \subseteq Promises /\ t.toId \in [DOMAIN t.toId -> Ids]
         /\ DOMAIN t.toPromise \subseteq Ids
         /\ t.toPromise \in [DOMAIN t.toPromise -> Promises]
<1>1. t.toId \in Maps(Promises, Ids) /\ t.toPromise \in Maps(Ids, Promises)
  BY DEF Tracker
<1>2. t.last \in 0..MaxId /\ t.reused \in BOOLEAN /\ t.known \subseteq Ids
  BY DEF Tracker
<1> QED  BY <1>1, <1>2, OfMaps

\* The tracker with ids given that the client has not been told of yet.
Names(t) ==
  ~t.reused => \A p \in DOMAIN t.toId :
                 t.toId[p] \in DOMAIN t.toPromise /\ t.toPromise[t.toId[p]] = p
Listed(t, pending) ==
  /\ DOMAIN t.toPromise \subseteq t.known \cup pending
  /\ ~t.reused => t.known \cup pending = DOMAIN t.toPromise
Good(t, pending) ==
  t \in Tracker /\ Answers(t) /\ Names(t) /\ Listed(t, pending)

\* didUpdatePromise with the event gc, while there is a client.
LEMMA CollectFields ==
  ASSUME NEW t \in Tracker, NEW ids, frontend
  PROVE  LET c == DidCollect(t, ids)
         IN  /\ c \in Tracker /\ c.known = t.known \ ids
             /\ c.toId = t.toId /\ c.toPromise = t.toPromise
             /\ c.last = t.last /\ c.reused = t.reused
<1>1. DidCollect(t, ids) = [t EXCEPT !.known = t.known \ ids]
  BY DEF DidCollect
<1>2. t.known \ ids \in SUBSET Ids
  BY OfTracker
<1> QED  BY <1>1, <1>2 DEF Tracker

\* promiseId for a promise that has no id.
LEMMA WithIdFields ==
  ASSUME NEW t \in Tracker, NEW p \in Promises, p \notin DOMAIN t.toId, frontend
  PROVE  LET id == CircularSequentialId(t.last)
             w  == WithId(t, p)
         IN  /\ w \in Tracker /\ id \in Ids
             /\ w.toId = [q \in DOMAIN t.toId \cup {p} |-> IF q = p THEN id ELSE t.toId[q]]
             /\ w.toPromise = [i \in DOMAIN t.toPromise \cup {id} |->
                                 IF i = id THEN p ELSE t.toPromise[i]]
             /\ w.reused = (t.reused \/ id \in Range(t.toId))
             /\ w.known \cup {id} = t.known \cup {id}
<1> DEFINE id == CircularSequentialId(t.last)
           b  == IF id \in DOMAIN t.toPromise THEN DidCollect(t, {id}) ELSE t
           f  == [q \in DOMAIN t.toId \cup {p} |-> IF q = p THEN id ELSE t.toId[q]]
           g  == [i \in DOMAIN t.toPromise \cup {id} |->
                    IF i = id THEN p ELSE t.toPromise[i]]
<1>1. id \in Ids /\ id \in 0..MaxId
  BY OfTracker, PromiseBoundsAssumption DEF CircularSequentialId, Ids
<1>2. b \in Tracker /\ b.toId = t.toId /\ b.toPromise = t.toPromise
      /\ b.reused = t.reused /\ b.known \cup {id} = t.known \cup {id}
  BY CollectFields
<1>3. WithId(t, p) = [b EXCEPT !.last = id, !.reused = b.reused \/ id \in Range(t.toId),
                               !.toId = f, !.toPromise = g]
  BY <1>2 DEF WithId
<1> HIDE DEF id, b
<1>4. f \in Maps(Promises, Ids)
  <2>1. f \in [DOMAIN t.toId \cup {p} -> Ids]
    BY <1>1, OfTracker
  <2> HIDE DEF f
  <2> QED  BY <2>1, OfTracker, InMaps
<1>5. g \in Maps(Ids, Promises)
  <2>1. g \in [DOMAIN t.toPromise \cup {id} -> Promises]
    BY <1>1, OfTracker
  <2> HIDE DEF g
  <2> QED  BY <1>1, <2>1, OfTracker, InMaps
<1> HIDE DEF f, g
<1>6. (b.reused \/ id \in Range(t.toId)) \in BOOLEAN
  OBVIOUS
<1>7. /\ WithId(t, p) \in Tracker
      /\ WithId(t, p).toId = f /\ WithId(t, p).toPromise = g
      /\ WithId(t, p).reused = (b.reused \/ id \in Range(t.toId))
      /\ WithId(t, p).known = b.known
  BY <1>1, <1>2, <1>3, <1>4, <1>5, <1>6 DEF Tracker
<1> QED  BY <1>1, <1>2, <1>7 DEF f, g, id

\* Asking for the id of a promise keeps the tracker good; the id is pending.
LEMMA WithIdGood ==
  ASSUME NEW t, NEW pending, Good(t, pending), NEW p \in Promises, frontend
  PROVE  /\ Good(WithId(t, p), pending \cup {WithId(t, p).toId[p]})
         /\ WithId(t, p).toId[p] \in Ids
<1>1. CASE p \in DOMAIN t.toId
  <2>1. WithId(t, p) = t
    BY <1>1 DEF WithId
  <2>2. Listed(t, pending \cup {t.toId[p]})
    BY <1>1 DEF Good, Listed, Names
  <2>3. t.toId[p] \in Ids
    BY <1>1, OfTracker DEF Good
  <2> QED  BY <2>1, <2>2, <2>3 DEF Good
<1>2. CASE p \notin DOMAIN t.toId
  <2> DEFINE id == CircularSequentialId(t.last)
             w  == WithId(t, p)
  <2>1. /\ w \in Tracker /\ id \in Ids
        /\ w.toId = [q \in DOMAIN t.toId \cup {p} |-> IF q = p THEN id ELSE t.toId[q]]
        /\ w.toPromise = [i \in DOMAIN t.toPromise \cup {id} |->
                            IF i = id THEN p ELSE t.toPromise[i]]
        /\ w.reused = (t.reused \/ id \in Range(t.toId))
        /\ w.known \cup {id} = t.known \cup {id}
    BY <1>2, WithIdFields DEF Good
  <2> HIDE DEF w, id
  <2>2. Answers(w)
    BY <1>2, <2>1 DEF Good, Answers
  <2>3. ~w.reused => ~t.reused /\ \A q \in DOMAIN t.toId : t.toId[q] # id
    BY <2>1, Zenon DEF Range
  <2>4. Names(w)
    BY <2>1, <2>3 DEF Good, Names
  <2>5. Listed(w, pending \cup {id})
    <3>1. DOMAIN w.toPromise = DOMAIN t.toPromise \cup {id}
      BY <2>1
    <3>2. w.known \cup (pending \cup {id}) = (t.known \cup pending) \cup {id}
      BY <2>1
    <3> QED  BY <2>3, <3>1, <3>2 DEF Good, Listed
  <2>6. w.toId[p] = id
    BY <2>1
  <2> QED  BY <2>1, <2>2, <2>4, <2>5, <2>6 DEF Good, w
<1> QED  BY <1>1, <1>2

\* didReceiveV8PromiseEvent tells the client of every id it gave.
LEMMA EventGood ==
  ASSUME NEW t, Good(t, {}), NEW p \in Promises,
         NEW parent \in Promises \cup {NoParent}, frontend
  PROVE  Good(DidReceiveV8PromiseEvent(t, p, parent), {})
<1> DEFINE b == WithId(t, p)
           c == IF parent = NoParent THEN b ELSE WithId(b, parent)
           named == {b.toId[p]} \cup
                    (IF parent = NoParent THEN {} ELSE {c.toId[parent]})
<1>1. Good(b, {b.toId[p]}) /\ b.toId[p] \in Ids
  <2>1. Good(b, {} \cup {b.toId[p]}) /\ b.toId[p] \in Ids
    BY WithIdGood
  <2>2. {} \cup {b.toId[p]} = {b.toId[p]}
    OBVIOUS
  <2> QED  BY <2>1, <2>2
<1>2. DidReceiveV8PromiseEvent(t, p, parent) = [c EXCEPT !.known = c.known \cup named]
  BY DEF DidReceiveV8PromiseEvent
<1> HIDE DEF b
<1>3. Good(c, named) /\ named \subseteq Ids
  <2>1. CASE parent = NoParent
    <3>1. named = {b.toId[p]}
      BY <2>1
    <3> QED  BY <1>1, <2>1, <3>1
  <2>2. CASE parent # NoParent
    <3>1. Good(c, {b.toId[p]} \cup {c.toId[parent]}) /\ c.toId[parent] \in Ids
      BY <1>1, <2>2, WithIdGood
    <3> QED  BY <1>1, <2>2, <3>1
  <2> QED  BY <2>1, <2>2
<1> HIDE DEF c, named
<1> DEFINE d == [c EXCEPT !.known = c.known \cup named]
<1>4. c.known \cup named \in SUBSET Ids
  BY <1>3, OfTracker DEF Good
<1>5. /\ d \in Tracker /\ d.known = c.known \cup named
      /\ d.toId = c.toId /\ d.toPromise = c.toPromise /\ d.reused = c.reused
  BY <1>3, <1>4 DEF Good, Tracker
<1> HIDE DEF d
<1>6. Good(d, {})
  BY <1>3, <1>5 DEF Good, Answers, Names, Listed
<1> QED  BY <1>2, <1>6 DEF d

\* The collection of a promise, and clear, keep the tracker good.
LEMMA CollectedGood ==
  ASSUME NEW t, Good(t, {}), NEW p \in Promises, frontend
  PROVE  Good(Collected(t, p), {})
<1> DEFINE f  == [q \in DOMAIN t.toId \ {p} |-> t.toId[q]]
           Is == {i \in DOMAIN t.toPromise : t.toPromise[i] = p}
           Js == {i \in DOMAIN t.toPromise : t.toPromise[i] # p}
           g  == [i \in Js |-> t.toPromise[i]]
           r  == [t EXCEPT !.toId = f, !.toPromise = g]
           c  == Collected(t, p)
<1>1. t \in Tracker
  BY DEF Good
<1>2. c = DidCollect(r, Is)
  BY DEF Collected, Restrict
<1>3. f \in Maps(Promises, Ids) /\ g \in Maps(Ids, Promises)
  <2>1. f \in [DOMAIN t.toId \ {p} -> Ids] /\ DOMAIN t.toId \ {p} \in SUBSET Promises
    BY <1>1, OfTracker
  <2>2. g \in [Js -> Promises] /\ Js \in SUBSET Ids
    BY <1>1, OfTracker
  <2> HIDE DEF f, g, Js
  <2> QED  BY <2>1, <2>2, InMaps
<1> HIDE DEF f, g
<1>4. r \in Tracker /\ r.toId = f /\ r.toPromise = g /\ r.known = t.known
      /\ r.reused = t.reused
  BY <1>1, <1>3 DEF Tracker
<1> HIDE DEF r
<1>5. /\ c \in Tracker /\ c.known = t.known \ Is /\ c.toId = f /\ c.toPromise = g
      /\ c.reused = t.reused
  BY <1>2, <1>4, CollectFields
<1> HIDE DEF c
<1>6. Answers(c)
  BY <1>5 DEF Good, Answers, f, g
<1>7. Names(c)
  BY <1>5 DEF Good, Names, f, g
<1>8. Listed(c, {})
  BY <1>5 DEF Good, Listed, g
<1> QED  BY <1>5, <1>6, <1>7, <1>8 DEF Good, c

LEMMA ClearGood ==
  ASSUME NEW t, Good(t, {}), frontend
  PROVE  /\ Good(ClearTracker(t), {})
         /\ DOMAIN ClearTracker(t).toId = {} /\ DOMAIN ClearTracker(t).toPromise = {}
<1> DEFINE r == [t EXCEPT !.toId = Empty, !.toPromise = Empty]
           c == ClearTracker(t)
<1>1. c = DidCollect(r, DOMAIN t.toPromise)
  BY DEF ClearTracker
<1>2. r \in Tracker /\ r.toId = Empty /\ r.toPromise = Empty /\ r.known = t.known
      /\ r.reused = t.reused
  BY EmptyMap DEF Good, Tracker
<1> HIDE DEF r
<1>3. /\ c \in Tracker /\ c.known = t.known \ DOMAIN t.toPromise
      /\ c.toId = Empty /\ c.toPromise = Empty /\ c.reused = t.reused
  BY <1>1, <1>2, CollectFields
<1> HIDE DEF c
<1>4. DOMAIN Empty = {}
  BY EmptyMap
<1>5. Good(c, {})
  BY <1>3, <1>4 DEF Good, Answers, Names, Listed
<1> QED  BY <1>3, <1>4, <1>5 DEF c

-----------------------------------------------------------------------------
(* The inductive invariant.                                                *)

FlagsOK ==
  /\ frontend \in BOOLEAN /\ enabled \in BOOLEAN /\ tracking \in BOOLEAN
  /\ events \in 0..MaxEvents
  /\ enabled => frontend

LEMMA ThisFields ==
  /\ ThisTracker.toId = promiseToId /\ ThisTracker.toPromise = idToPromise
  /\ ThisTracker.last = lastId /\ ThisTracker.known = known
  /\ ThisTracker.reused = reused
  BY DEF ThisTracker

LEMMA IndInvParts ==
  IndInv <=> FlagsOK /\ Good(ThisTracker, {}) /\ TrackedForClient
<1>1. IdNamesPromise <=> Names(ThisTracker)
  BY ThisFields DEF IdNamesPromise, PromiseById, Names
<1>2. (DOMAIN idToPromise \subseteq known) /\ ClientListsPromises <=> Listed(ThisTracker, {})
  BY ThisFields DEF ClientListsPromises, Listed
<1> QED  BY <1>1, <1>2 DEF IndInv, TypeOK, AnswersAreTracked, FlagsOK, Good

LEMMA NextParts ==
  ASSUME FlagsOK', Good(ThisTracker', {}), TrackedForClient'
  PROVE  IndInv'
<1>1. /\ ThisTracker'.toId = promiseToId' /\ ThisTracker'.toPromise = idToPromise'
      /\ ThisTracker'.known = known' /\ ThisTracker'.reused = reused'
  BY DEF ThisTracker
<1>2. IdNamesPromise'
  BY <1>1 DEF IdNamesPromise, PromiseById, Good, Names
<1>3. (DOMAIN idToPromise \subseteq known)' /\ ClientListsPromises'
  BY <1>1 DEF ClientListsPromises, Good, Listed
<1>4. ThisTracker' \in Tracker /\ Answers(ThisTracker')
  BY DEF Good
<1>5. TypeOK' /\ AnswersAreTracked'
  BY <1>3, <1>4 DEF TypeOK, FlagsOK, AnswersAreTracked, Answers
<1> QED  BY <1>2, <1>3, <1>5 DEF IndInv, FlagsOK

LEMMA BecomesTracker ==
  ASSUME NEW t \in Tracker, Becomes(t)
  PROVE  ThisTracker' = t
  BY DEF Becomes, ThisTracker, Tracker

LEMMA SameTracker ==
  ASSUME UNCHANGED <<promiseToId, idToPromise, lastId, known, reused>>
  PROVE  ThisTracker' = ThisTracker
  BY DEF ThisTracker

LEMMA InitIndInv == Init => IndInv
<1> SUFFICES ASSUME Init PROVE FlagsOK /\ Good(ThisTracker, {}) /\ TrackedForClient
  BY IndInvParts
<1>1. FlagsOK
  <2>1. 0 \in 0..MaxEvents
    BY PromiseBoundsAssumption
  <2> QED  BY <2>1, Zenon DEF Init, FlagsOK
<1>2. promiseToId \in Maps(Promises, Ids) /\ idToPromise \in Maps(Ids, Promises)
      /\ DOMAIN promiseToId = {} /\ DOMAIN idToPromise = {}
  BY EmptyMap DEF Init
<1>3. ThisTracker \in Tracker
  <2>1. 0 \in 0..MaxId
    BY PromiseBoundsAssumption
  <2>2. lastId \in 0..MaxId /\ known \in SUBSET Ids /\ reused \in BOOLEAN
    BY <2>1 DEF Init
  <2> QED  BY <1>2, <2>2 DEF ThisTracker, Tracker
<1>4. Good(ThisTracker, {})
  BY <1>2, <1>3, ThisFields DEF Good, Answers, Names, Listed, Init
<1>5. TrackedForClient
  BY <1>2 DEF TrackedForClient
<1> QED  BY <1>1, <1>4, <1>5

\* disable(), and what it is part of, leaves nothing tracked.
LEMMA ClearSteps ==
  ASSUME IndInv, frontend, Becomes(ClearTracker(ThisTracker))
  PROVE  Good(ThisTracker', {}) /\ TrackedForClient'
<1>1. Good(ThisTracker, {})
  BY IndInvParts
<1>2. /\ Good(ClearTracker(ThisTracker), {})
      /\ DOMAIN ClearTracker(ThisTracker).toId = {}
      /\ DOMAIN ClearTracker(ThisTracker).toPromise = {}
  BY <1>1, ClearGood
<1>3. ThisTracker' = ClearTracker(ThisTracker)
  BY <1>2, BecomesTracker DEF Good
<1>4. DOMAIN promiseToId' = {} /\ DOMAIN idToPromise' = {}
  BY <1>2 DEF Becomes
<1> QED  BY <1>2, <1>3, <1>4 DEF TrackedForClient

LEMMA NextIndInv == IndInv /\ [Next]_vars => IndInv'
<1> SUFFICES ASSUME IndInv, [Next]_vars
             PROVE  FlagsOK' /\ Good(ThisTracker', {}) /\ TrackedForClient'
  BY NextParts
<1>1. FlagsOK /\ Good(ThisTracker, {}) /\ TrackedForClient
  BY IndInvParts
<1>2. CASE Connect
  <2>1. DOMAIN promiseToId = {} /\ DOMAIN idToPromise = {}
    BY <1>1, <1>2 DEF Connect, TrackedForClient
  <2> DEFINE d == [ThisTracker EXCEPT !.known = {}, !.reused = FALSE]
  <2>2. Becomes(d) /\ d \in Tracker /\ d.toId = promiseToId
        /\ d.toPromise = idToPromise /\ d.known = {}
    BY <1>1, <1>2, ThisFields DEF Connect, Becomes, Good, Tracker, ThisTracker
  <2> HIDE DEF d
  <2>3. ThisTracker' = d /\ Good(d, {})
    BY <2>1, <2>2, BecomesTracker DEF Good, Answers, Names, Listed
  <2> QED
    BY <1>1, <1>2, <2>1, <2>3 DEF Connect, FlagsOK, TrackedForClient
<1>3. CASE Enable \/ EnablePromiseTracker \/ UNCHANGED vars
  <2>1. ThisTracker' = ThisTracker
    BY <1>3, SameTracker DEF Enable, EnablePromiseTracker, vars
  <2>2. FlagsOK'
    <3>1. frontend' = frontend /\ events' = events
      BY <1>3 DEF Enable, EnablePromiseTracker, vars
    <3>2. CASE Enable
      BY <1>1, <3>1, <3>2 DEF Enable, FlagsOK
    <3>3. CASE EnablePromiseTracker \/ UNCHANGED vars
      <4>1. enabled' = enabled /\ (tracking' = TRUE \/ tracking' = tracking)
        BY <3>3 DEF EnablePromiseTracker, vars
      <4> QED  BY <1>1, <3>1, <4>1 DEF FlagsOK
    <3> QED  BY <1>3, <3>2, <3>3
  <2>3. TrackedForClient'
    BY <1>1, <1>3 DEF Enable, EnablePromiseTracker, vars, TrackedForClient
  <2> QED  BY <1>1, <2>1, <2>2, <2>3
<1>4. CASE Disable
  BY <1>1, <1>4, ClearSteps DEF Disable, DisableAgent, FlagsOK
<1>5. CASE Disconnect
  <2>1. CASE enabled
    BY <1>1, <1>5, <2>1, ClearSteps DEF Disconnect, DisableAgent, FlagsOK
  <2>2. CASE ~enabled
    <3>1. ThisTracker' = ThisTracker
      BY <1>5, <2>2, SameTracker DEF Disconnect
    <3>2. FlagsOK'
      <4>1. frontend' = FALSE /\ UNCHANGED <<tracking, events, enabled>>
        BY <1>5, <2>2 DEF Disconnect
      <4> QED  BY <1>1, <2>2, <4>1 DEF FlagsOK
    <3>3. TrackedForClient'
      BY <1>1, <1>5, <2>2 DEF Disconnect, TrackedForClient
    <3> QED  BY <1>1, <3>1, <3>2, <3>3
  <2> QED  BY <2>1, <2>2
<1>6. CASE DisablePromiseTracker
  BY <1>1, <1>6, ClearSteps DEF DisablePromiseTracker, FlagsOK
<1>7. ASSUME NEW p \in Promises, Collect(p)
      PROVE  FlagsOK' /\ Good(ThisTracker', {}) /\ TrackedForClient'
  <2>1. frontend /\ enabled /\ tracking
    BY <1>1, <1>7 DEF Collect, TrackedForClient
  <2>2. Good(Collected(ThisTracker, p), {})
    BY <1>1, <2>1, CollectedGood
  <2>3. ThisTracker' = Collected(ThisTracker, p)
    BY <1>7, <2>2, BecomesTracker DEF Collect, Good
  <2> QED
    BY <1>1, <1>7, <2>1, <2>2, <2>3 DEF Collect, FlagsOK, TrackedForClient
<1>8. ASSUME NEW p \in Promises, NEW parent \in (Promises \ {p}) \cup {NoParent},
             PromiseEvent(p, parent)
      PROVE  FlagsOK' /\ Good(ThisTracker', {}) /\ TrackedForClient'
  <2> DEFINE d == DidReceiveV8PromiseEvent(ThisTracker, p, parent)
  <2>1. frontend /\ Becomes(d) /\ enabled /\ tracking
    BY <1>1, <1>8 DEF PromiseEvent, FlagsOK
  <2>2. Good(d, {})
    BY <1>1, <2>1, EventGood
  <2> HIDE DEF d
  <2>3. ThisTracker' = d
    BY <2>1, <2>2, BecomesTracker DEF Good
  <2>4. FlagsOK'
    BY <1>1, <1>8, PromiseBoundsAssumption DEF PromiseEvent, FlagsOK
  <2>5. TrackedForClient'
    BY <1>8, <2>1 DEF PromiseEvent, TrackedForClient
  <2> QED  BY <2>2, <2>3, <2>4, <2>5
<1> QED  BY <1>2, <1>3, <1>4, <1>5, <1>6, <1>7, <1>8 DEF Next

\* IndInv holds in every reachable state of the tracker.
THEOREM TrackerInvariance == Spec => []IndInv
  BY InitIndInv, NextIndInv, PTL DEF Spec

\* Every reachable state is well typed, whatever runs over.
THEOREM TrackerTypeCorrect == Spec => []TypeOK
<1>1. IndInv => TypeOK
  BY DEF IndInv
<1> QED  BY <1>1, TrackerInvariance, PTL

\* getPromiseById answers with a promise whose events carry the id, also after
\* ids started again.
THEOREM AnswersAreTrackedAlways == Spec => []AnswersAreTracked
<1>1. IndInv => AnswersAreTracked
  BY DEF IndInv
<1> QED  BY <1>1, TrackerInvariance, PTL

\* As long as no id was given twice, an id names one promise.
THEOREM IdNamesPromiseAlways == Spec => []IdNamesPromise
<1>1. IndInv => IdNamesPromise
  BY DEF IndInv
<1> QED  BY <1>1, TrackerInvariance, PTL

\* As long as no id was given twice, the client's list of promises is the
\* tracker's.
THEOREM ClientListsPromisesAlways == Spec => []ClientListsPromises
<1>1. IndInv => ClientListsPromises
  BY DEF IndInv
<1> QED  BY <1>1, TrackerInvariance, PTL

\* Nothing is tracked without a client that has the tracker on.
THEOREM TrackedForClientAlways == Spec => []TrackedForClient
<1>1. IndInv => TrackedForClient
  BY DEF IndInv
<1> QED  BY <1>1, TrackerInvariance, PTL

=============================================================================
