---------------------------- MODULE ReceiveWindow ----------------------------
(***************************************************************************)
(* Duplicate suppression of one CNMConnection: what AnalyzeUPPData does    *)
(* with the identifier of every data packet, under cConnectionLock.  The   *)
(* network may present any identifier at any time.                         *)
(***************************************************************************)
EXTENDS PacketIDs

VARIABLES
  window,   \* m_wReceivedPacketIDs and m_wReceivedPacketOffset
  verdict   \* the last identifier examined and whether it was analysed

vars == <<window, verdict>>

Init ==
  /\ window = EmptyWindow
  /\ verdict = [id |-> NoID, fresh |-> FALSE]

\* The identifier is unknown: register it and analyse the packet.
AcceptPacket(id) ==
  /\ ~ AlreadyReceivedPacket(window, id)
  /\ window' = RegisterReceivedPacketID(window, id)
  /\ verdict' = [id |-> id, fresh |-> TRUE]

\* The identifier is known: the packet is deleted.
DropDuplicate(id) ==
  /\ AlreadyReceivedPacket(window, id)
  /\ verdict' = [id |-> id, fresh |-> FALSE]
  /\ UNCHANGED window

Next == \E id \in PacketID : AcceptPacket(id) \/ DropDuplicate(id)

Spec == Init /\ [][Next]_vars

-----------------------------------------------------------------------------
Verdict == [id : PacketID \cup {NoID}, fresh : BOOLEAN]

\* The ring and its offset stay within the array and the 13-bit identifiers.
TypeOK ==
  /\ window \in Window
  /\ verdict \in Verdict

\* The slot that was filled k registrations ago (the walk of the search).
SlotBack(offset, k) ==
  IF k <= offset THEN offset - k ELSE offset - k + MAX_RECEIVED_PACKET_QUEUE

\* No identifier is held twice by the slots the search compares: a packet
\* is analysed at most once while its identifier stays in the memory.
NoIDTwice ==
  \A i, j \in Slot \ {NextSlot(window.offset)} :
    window.ids[i] = window.ids[j] /\ window.ids[i] # NoID => i = j

\* The ring, read backwards from its offset, is the abstract memory: the
\* wrap-around search of AlreadyReceivedPacket sees exactly the last
\* MAX_RECEIVED_PACKET_QUEUE - 1 registered identifiers, none older.
Recent == INSTANCE RecentIDs WITH
  recent <- [k \in 0..(MAX_RECEIVED_PACKET_QUEUE - 2) |->
               window.ids[SlotBack(window.offset, k)]]

RecentSpec == Recent!Spec
=============================================================================
