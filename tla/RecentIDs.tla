------------------------------ MODULE RecentIDs ------------------------------
(***************************************************************************)
(* What the ring of received identifiers promises: a memory of exactly the *)
(* last MAX_RECEIVED_PACKET_QUEUE - 1 accepted identifiers, newest first.  *)
(* A datagram is fresh when its identifier is not among them.              *)
(***************************************************************************)
EXTENDS PacketIDs

VARIABLES
  recent,   \* recent[k]: the k-th most recently accepted ID
  verdict   \* what happened to the last datagram

Age == 0..(MAX_RECEIVED_PACKET_QUEUE - 2)

Init ==
  /\ recent = [k \in Age |-> NoID]
  /\ verdict = [id |-> NoID, fresh |-> FALSE]

Accept(id) ==
  /\ \A k \in Age : recent[k] # id
  /\ recent' = [k \in Age |-> IF k = 0 THEN id ELSE recent[k - 1]]
  /\ verdict' = [id |-> id, fresh |-> TRUE]

Refuse(id) ==
  /\ \E k \in Age : recent[k] = id
  /\ verdict' = [id |-> id, fresh |-> FALSE]
  /\ UNCHANGED recent

Next == \E id \in PacketID : Accept(id) \/ Refuse(id)

Spec == Init /\ [][Next]_<<recent, verdict>>
=============================================================================
