------------------------------ MODULE PacketIDs ------------------------------
(***************************************************************************)
(* The identifiers a CNMConnection gives to the packets it sends, and the  *)
(* ring in which it remembers the identifiers it received.  Pure operators *)
(* shared by every module about connections; no state of its own.          *)
(***************************************************************************)
EXTENDS Integers

CONSTANTS
  MAX_PACKETS_IDOFFSET,           \* 0x1FFF: unfragmented IDs stay below it
  NONFRAGMENTED_PACKETS_IDOFFSET, \* 5760: fragments have smaller IDs
  MAX_FRAGMENTS_PER_PACKET,       \* 32: the IDs one fragmented message takes
  MAX_RECEIVED_PACKET_QUEUE       \* 128: slots of the ring of received IDs

ASSUME PacketIDsAssumption ==
  /\ MAX_PACKETS_IDOFFSET \in Nat
  /\ NONFRAGMENTED_PACKETS_IDOFFSET \in Nat
  /\ MAX_FRAGMENTS_PER_PACKET \in Nat \ {0}
  /\ MAX_RECEIVED_PACKET_QUEUE \in Nat \ {0, 1}
  /\ NONFRAGMENTED_PACKETS_IDOFFSET < MAX_PACKETS_IDOFFSET
  /\ MAX_FRAGMENTS_PER_PACKET <= NONFRAGMENTED_PACKETS_IDOFFSET

-----------------------------------------------------------------------------
(* Identifiers of outgoing packets.  Both counters are 14-bit fields; the  *)
(* largest value either ever holds is below 2^13, so no store truncates.   *)

PacketID == 0..MAX_PACKETS_IDOFFSET

\* Deviation: the IDs of two messages overlap.
GetFragmentedPacketIDDense(last) ==
  IF last + 1 >= NONFRAGMENTED_PACKETS_IDOFFSET THEN 0 ELSE last + 1

\* The group of a new fragmented message: the ID of its piece 0.
GetFragmentedPacketID(last) ==
  LET next == last + MAX_FRAGMENTS_PER_PACKET
  IN  IF next >= NONFRAGMENTED_PACKETS_IDOFFSET THEN 0 ELSE next

\* Deviation: the counter never advances past its first value.
GetUnfragmentedPacketIDStuck(last) == NONFRAGMENTED_PACKETS_IDOFFSET

GetUnfragmentedPacketID(last) ==
  LET next == last + 1
  IN  IF next < NONFRAGMENTED_PACKETS_IDOFFSET \/ next >= MAX_PACKETS_IDOFFSET
      THEN NONFRAGMENTED_PACKETS_IDOFFSET
      ELSE next

-----------------------------------------------------------------------------
(* The ring of received identifiers.                                       *)

Slot == 0..(MAX_RECEIVED_PACKET_QUEUE - 1)
NoID == -1

Window == [ids : [Slot -> PacketID \cup {NoID}], offset : Slot]

EmptyWindow == [ids |-> [i \in Slot |-> NoID], offset |-> 0]

NextSlot(offset) ==
  IF offset + 1 >= MAX_RECEIVED_PACKET_QUEUE THEN 0 ELSE offset + 1

\* Deviations of the search and of the registration, used to show that the
\* properties can tell them from the code: a search that skips the newest slot and
\* one that looks at every slot.
AlreadyReceivedPacketLate(w, id) ==
  \E i \in Slot \ {w.offset} : w.ids[i] = id
AlreadyReceivedPacketAll(w, id) == \E i \in Slot : w.ids[i] = id

\* The search walks down from the newest slot and stops before the slot the
\* next registration overwrites: that one slot is never compared.
AlreadyReceivedPacket(w, id) ==
  \E i \in Slot \ {NextSlot(w.offset)} : w.ids[i] = id

RegisterReceivedPacketID(w, id) ==
  [ids    |-> [w.ids EXCEPT ![NextSlot(w.offset)] = id],
   offset |-> NextSlot(w.offset)]
=============================================================================
