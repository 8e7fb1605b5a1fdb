----------------------------- MODULE VisibleSet -----------------------------
(***************************************************************************)
(* What VisualObjectList promises: a set of objects that keep their IDs.   *)
(* They come one at a time; one leaves only when it was due to leave, and  *)
(* alone.  How the list is walked and sorted does not show.                *)
(***************************************************************************)
CONSTANT Object

VARIABLES
  id,   \* id[o]: the ID of o, for each visible object o
  due   \* the objects that are to leave

Visible == DOMAIN id

Init == Visible = {} /\ due = {}

Kept(objects) == \A o \in objects : id'[o] = id[o]

Enter(o) ==
  o \notin Visible /\ Visible' = Visible \cup {o} /\ Kept(Visible) /\ due' \ {o} = due

Leave(o) ==
  o \in due /\ Visible' = Visible \ {o} /\ Kept(Visible') /\ due' = due \ {o}

\* Objects become due to leave, or are not any more.
Judge == Visible' = Visible /\ Kept(Visible)

Next ==
  /\ due' \subseteq Visible'
  /\ Judge \/ \E o \in Object : Enter(o) \/ Leave(o)

Spec == Init /\ [][Next]_<<id, due>>
=============================================================================
