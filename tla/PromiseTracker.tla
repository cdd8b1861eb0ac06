---------------------------- MODULE PromiseTracker ----------------------------
(***************************************************************************)
(* Promise tracking.  While the tracker is enabled every promise that V8   *)
(* reports gets an id, kept in two maps that hold the promise weakly:      *)
(* m_promiseToId, V8's weak map from the object, and m_idToPromise, whose  *)
(* callback data tells the client when it is destroyed, because the        *)
(* promise was collected or because the entry was removed.                 *)
(*                                                                         *)
(* A promise that neither map has is the same to the tracker whether it    *)
(* exists or not, so that the heap is not modelled; the garbage collector  *)
(* may take a tracked promise at any time.  Status, stacks and times of a  *)
(* promise are data.  Nothing in this program sets the agent's listener.   *)
(***************************************************************************)
EXTENDS Naturals, FiniteSets, Functions

CONSTANTS
  Promises,     \* JavaScript promises
  MaxId,        \* the greatest id, 2^31 - 1 in the code
  MaxEvents     \* bound: promise events in a behaviour

ASSUME PromiseBoundsAssumption == MaxId \in Nat \ {0} /\ MaxEvents \in Nat

VARIABLES
  frontend,     \* the agent has a front-end
  enabled,      \* the debugger is enabled: V8 events reach the agent
  tracking,     \* PromiseTracker::m_isEnabled
  promiseToId,  \* m_promiseToId
  idToPromise,  \* m_idToPromise
  lastId,       \* m_circularSequentialId
  known,        \* the ids the client has been told of, and not of their end
  reused,       \* history: since the client connected, an id was given to a
                \* promise while another one had it
  events        \* counts promise events, for the bound

vars == <<frontend, enabled, tracking, promiseToId, idToPromise, lastId, known,
          reused, events>>

Ids      == 1..MaxId
NoParent == "no parent"
Empty    == [x \in {} |-> x]   \* an empty map

Init ==
  /\ frontend = FALSE /\ enabled = FALSE /\ tracking = FALSE
  /\ promiseToId = Empty /\ idToPromise = Empty /\ lastId = 0
  /\ known = {} /\ reused = FALSE /\ events = 0

-----------------------------------------------------------------------------
(* The tracker.                                                            *)

\* What is tracked, with what the client knows of it.
Maps(S, T) == UNION {[D -> T] : D \in SUBSET S}
Tracker == [toId : Maps(Promises, Ids), toPromise : Maps(Ids, Promises),
            last : 0..MaxId, known : SUBSET Ids, reused : BOOLEAN]

ThisTracker == [toId |-> promiseToId, toPromise |-> idToPromise,
                last |-> lastId, known |-> known, reused |-> reused]

Becomes(t) ==
  /\ promiseToId' = t.toId /\ idToPromise' = t.toPromise
  /\ lastId' = t.last /\ known' = t.known /\ reused' = t.reused

\* didUpdatePromise with the event gc, sent by ~PromiseWeakCallbackData.
DidCollect(t, ids) == IF frontend THEN [t EXCEPT !.known = @ \ ids] ELSE t

\* Mutant: one of the maps is not cleared.
ClearKeepsIds(t) ==
  DidCollect([t EXCEPT !.toPromise = Empty], DOMAIN t.toPromise)

\* clear: every entry of m_idToPromise is disposed of with its callback data.
ClearTracker(t) ==
  DidCollect([t EXCEPT !.toId = Empty, !.toPromise = Empty],
             DOMAIN t.toPromise)

\* Mutant: the counter is read before it is incremented.
ReadThenIncrement(last) == last

\* Ids wrap around, to ids that may be in use.
CircularSequentialId(last) == IF last = MaxId THEN 1 ELSE last + 1

\* promiseId: the promise's id, a new one if it has none.  An entry that had
\* the id is replaced, and the destruction of its data reported as its end.
WithId(t, p) ==
  IF p \in DOMAIN t.toId THEN t
  ELSE LET id == CircularSequentialId(t.last)
           b  == IF id \in DOMAIN t.toPromise THEN DidCollect(t, {id}) ELSE t
       IN  [b EXCEPT
              !.last = id, !.reused = @ \/ id \in Range(t.toId),
              !.toId = [q \in DOMAIN @ \cup {p} |-> IF q = p THEN id ELSE @[q]],
              !.toPromise = [i \in DOMAIN @ \cup {id} |->
                               IF i = id THEN p ELSE @[i]]]

\* promiseById, and the answer of getPromiseById.
PromiseById(id) == {idToPromise[i] : i \in {id} \cap DOMAIN idToPromise}

-----------------------------------------------------------------------------
(* Protocol commands and the connection.                                   *)

\* The new client knows of no promise.
Connect ==
  /\ ~frontend
  /\ frontend' = TRUE
  /\ known' = {} /\ reused' = FALSE
  /\ UNCHANGED <<enabled, tracking, promiseToId, idToPromise, lastId, events>>

Enable ==
  /\ frontend /\ ~enabled
  /\ enabled' = TRUE
  /\ UNCHANGED <<frontend, tracking, promiseToId, idToPromise, lastId, known,
                 reused, events>>

\* Mutant: the promises are not forgotten.
DisableKeepsPromises == enabled' = FALSE /\ Becomes(ThisTracker)

\* disable() and clear(); the tracker stays enabled.
DisableAgent == enabled' = FALSE /\ Becomes(ClearTracker(ThisTracker))

Disable ==
  /\ frontend /\ enabled
  /\ DisableAgent
  /\ UNCHANGED <<frontend, tracking, events>>

\* clearFrontend disables an enabled agent while it still has its front-end.
Disconnect ==
  /\ frontend
  /\ frontend' = FALSE
  /\ \/ enabled /\ DisableAgent
     \/ ~enabled /\ UNCHANGED <<enabled, promiseToId, idToPromise, lastId, known, reused>>
  /\ UNCHANGED <<tracking, events>>

EnablePromiseTracker ==
  /\ frontend /\ enabled
  /\ tracking' = TRUE
  /\ UNCHANGED <<frontend, enabled, promiseToId, idToPromise, lastId, known,
                 reused, events>>

DisablePromiseTracker ==
  /\ frontend /\ enabled
  /\ tracking' = FALSE
  /\ Becomes(ClearTracker(ThisTracker))
  /\ UNCHANGED <<frontend, enabled, events>>

-----------------------------------------------------------------------------
(* V8.                                                                     *)

\* PromiseTracker::didReceiveV8PromiseEvent: the promise gets an id, then its
\* parent; the one event sent names both.
DidReceiveV8PromiseEvent(t, p, parent) ==
  LET b == WithId(t, p)
      c == IF parent = NoParent THEN b ELSE WithId(b, parent)
      named == {b.toId[p]} \cup
               (IF parent = NoParent THEN {} ELSE {c.toId[parent]})
  IN  IF frontend THEN [c EXCEPT !.known = @ \cup named] ELSE c

\* A promise is created or settled, or derived from its parent by then().
PromiseEvent(p, parent) ==
  /\ enabled /\ tracking /\ events < MaxEvents
  /\ events' = events + 1
  /\ Becomes(DidReceiveV8PromiseEvent(ThisTracker, p, parent))
  /\ UNCHANGED <<frontend, enabled, tracking>>

\* Mutant: the weak callback removes the entry and sends nothing.
CollectInSilence(t, p) ==
  [t EXCEPT !.toId = Restrict(@, DOMAIN @ \ {p}),
            !.toPromise = Restrict(@, {i \in DOMAIN @ : @[i] # p})]

\* Mutant: V8's weak map drops the promise and m_idToPromise does not.
CollectFromWeakMap(t, p) == [t EXCEPT !.toId = Restrict(@, DOMAIN @ \ {p})]

\* The weak callbacks of a promise that is collected.
Collected(t, p) ==
  DidCollect([t EXCEPT !.toId = Restrict(@, DOMAIN @ \ {p}),
                       !.toPromise = Restrict(@, {i \in DOMAIN @ : @[i] # p})],
             {i \in DOMAIN t.toPromise : t.toPromise[i] = p})

Collect(p) ==
  /\ p \in DOMAIN promiseToId
  /\ Becomes(Collected(ThisTracker, p))
  /\ UNCHANGED <<frontend, enabled, tracking, events>>

Next ==
  \/ Connect \/ Disconnect \/ Enable \/ Disable
  \/ EnablePromiseTracker \/ DisablePromiseTracker
  \/ \E p \in Promises :
       \/ Collect(p)
       \/ \E parent \in (Promises \ {p}) \cup {NoParent} : PromiseEvent(p, parent)

Spec == Init /\ [][Next]_vars

-----------------------------------------------------------------------------
(* Properties.                                                             *)

\* The type of the state.
TypeOK ==
  /\ frontend \in BOOLEAN /\ enabled \in BOOLEAN /\ tracking \in BOOLEAN
  /\ ThisTracker \in Tracker
  /\ events \in 0..MaxEvents

\* The promise that the client gets for an id is one whose events carry that
\* id, and the client knows the id: also after ids started again and a promise
\* took over the entry of another.
Answers(t) ==
  \A i \in DOMAIN t.toPromise :
    t.toPromise[i] \in DOMAIN t.toId /\ t.toId[t.toPromise[i]] = i

AnswersAreTracked == Answers(ThisTracker) /\ DOMAIN idToPromise \subseteq known

\* The fields of an event reflect the state of "the promise with given id",
\* and getPromiseById answers with it: the promise that the next event with an
\* id will be about is the one that the client gets for that id.  Ids start
\* again after the last one without asking which are in use; it takes that no
\* id was given out that a tracked promise still had.
IdNamesPromise ==
  ~reused => \A p \in DOMAIN promiseToId : PromiseById(promiseToId[p]) = {p}

\* The client's list of promises, kept up to date by one event at a time (also
\* of promises named only as a parent), is the list of what can be asked for,
\* whatever was collected, cleared or turned off meanwhile.  Once an id was
\* given twice the list may have an id that cannot be asked for any more.
ClientListsPromises == ~reused => known = DOMAIN idToPromise

\* Promises are only tracked for somebody: the end of the tracking, of the
\* debugger or of the connection leaves none whose collection would be told.
TrackedForClient ==
  DOMAIN promiseToId \cup DOMAIN idToPromise # {} => frontend /\ enabled /\ tracking

\* The inductive invariant.
IndInv ==
  /\ TypeOK /\ AnswersAreTracked /\ IdNamesPromise /\ ClientListsPromises
  /\ TrackedForClient
  /\ enabled => frontend

=============================================================================
