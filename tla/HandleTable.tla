---------------------------- MODULE HandleTable ----------------------------
(***************************************************************************)
(* What the Runtime domain promises about remote objects.  A client holds  *)
(* handles; each one names an object and may belong to an object group.  A *)
(* handle lives until it is released, by itself or with its group, and     *)
(* names the same object all that time.  The promise is for as many        *)
(* handles as there are ids: intact turns false when they are used up.     *)
(***************************************************************************)
EXTENDS Naturals

CONSTANTS Objects, Groups, Console, NoGroup, NoObject

VARIABLES
  handles,      \* the handles that are out
  lastResult,   \* what $_ stands for in the console
  intact        \* no id has been given out twice

vars == <<handles, lastResult, intact>>

Handles == [id : Nat, object : Objects, group : Groups \cup {NoGroup}]

Init == handles = {} /\ lastResult = NoObject /\ intact = TRUE

\* Values are handed out in a group: new handles, with ids not in use.  A
\* result of the console is also kept as $_.
HandOut(group, new) ==
  /\ \A h \in new : h.group = group /\ \A k \in handles : k.id # h.id
  /\ handles' = handles \cup new
  /\ lastResult' # lastResult => group = Console

\* Runtime.releaseObject
Release(id) ==
  /\ handles' = {h \in handles : h.id # id}
  /\ UNCHANGED lastResult

\* Runtime.releaseObjectGroup, and the end of a stop for its call frames.
ReleaseGroup(group) ==
  /\ handles' = {h \in handles : h.group # group}
  /\ lastResult' = IF group = Console THEN NoObject ELSE lastResult

Promised ==
  \/ \E group \in Groups \cup {NoGroup} :
       \E new \in SUBSET {h \in handles' : h \notin handles} : HandOut(group, new)
  \/ \E h \in handles : Release(h.id)
  \/ \E group \in Groups : ReleaseGroup(group)

\* Nothing is promised any more once the ids are used up.
Next ==
  \/ intact /\ Promised /\ UNCHANGED intact
  \/ ~intact'

Spec == Init /\ [][Next]_vars

=============================================================================
