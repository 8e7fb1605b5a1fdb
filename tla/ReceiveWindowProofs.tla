------------------------- MODULE ReceiveWindowProofs -------------------------
(***************************************************************************)
(* Proofs about duplicate suppression, for every size of the ring and      *)
(* every range of identifiers.                                             *)
(***************************************************************************)
EXTENDS ReceiveWindow, TLAPS

\* Advancing the offset stays in the ring, and ages every slot by one:
\* the slot filled k registrations ago was filled k - 1 registrations ago
\* before the last one.
LEMMA SlotArithmetic ==
  ASSUME NEW o \in Slot
  PROVE  /\ NextSlot(o) \in Slot
         /\ NextSlot(o) # o
         /\ SlotBack(NextSlot(o), 0) = NextSlot(o)
         /\ \A k \in 0..(MAX_RECEIVED_PACKET_QUEUE - 2) :
              /\ SlotBack(o, k) \in Slot \ {NextSlot(o)}
              /\ k # 0 => SlotBack(NextSlot(o), k) = SlotBack(o, k - 1)
         /\ \A i \in Slot \ {NextSlot(o)} :
              \E k \in 0..(MAX_RECEIVED_PACKET_QUEUE - 2) : SlotBack(o, k) = i
<1> USE PacketIDsAssumption DEF Slot, NextSlot, SlotBack
<1>1. /\ NextSlot(o) \in Slot
      /\ NextSlot(o) # o
      /\ SlotBack(NextSlot(o), 0) = NextSlot(o)
  OBVIOUS
<1>2. ASSUME NEW k \in 0..(MAX_RECEIVED_PACKET_QUEUE - 2)
      PROVE  /\ SlotBack(o, k) \in Slot \ {NextSlot(o)}
             /\ k # 0 => SlotBack(NextSlot(o), k) = SlotBack(o, k - 1)
  OBVIOUS
<1>3. ASSUME NEW i \in Slot \ {NextSlot(o)}
      PROVE  \E k \in 0..(MAX_RECEIVED_PACKET_QUEUE - 2) : SlotBack(o, k) = i
  <2> DEFINE age == IF i <= o THEN o - i
                    ELSE o - i + MAX_RECEIVED_PACKET_QUEUE
  <2>1. age \in 0..(MAX_RECEIVED_PACKET_QUEUE - 2) /\ SlotBack(o, age) = i
    OBVIOUS
  <2> QED BY <2>1
<1> QED BY <1>1, <1>2, <1>3

\* The ring and its offset keep their types.
THEOREM TypeCorrect == Spec => []TypeOK
<1> USE PacketIDsAssumption
<1>1. Init => TypeOK
  BY DEF Init, TypeOK, EmptyWindow, Window, Verdict, Slot, NoID
<1>2. TypeOK /\ [Next]_vars => TypeOK'
  <2> SUFFICES ASSUME TypeOK, [Next]_vars PROVE TypeOK'
    OBVIOUS
  <2>1. ASSUME NEW id \in PacketID, AcceptPacket(id) PROVE TypeOK'
    <3>1. NextSlot(window.offset) \in Slot
      BY SlotArithmetic DEF TypeOK, Window
    <3> QED
      BY <2>1, <3>1
      DEF AcceptPacket, TypeOK, Window, Verdict, RegisterReceivedPacketID
  <2>2. ASSUME NEW id \in PacketID, DropDuplicate(id) PROVE TypeOK'
    BY <2>2 DEF DropDuplicate, TypeOK, Verdict
  <2>3. CASE UNCHANGED vars
    BY <2>3 DEF vars, TypeOK
  <2> QED BY <2>1, <2>2, <2>3 DEF Next
<1> QED BY <1>1, <1>2, PTL DEF Spec

\* The search of AlreadyReceivedPacket never meets one identifier in two
\* slots.  The slot it skips may hold a duplicate, but it is the slot the
\* next registration overwrites, which is why the invariant is inductive.
THEOREM NoIDIsTwice == Spec => []NoIDTwice
<1> USE PacketIDsAssumption
<1>1. Init => NoIDTwice
  BY DEF Init, NoIDTwice, EmptyWindow
<1>2. TypeOK /\ NoIDTwice /\ [Next]_vars => NoIDTwice'
  <2> SUFFICES ASSUME TypeOK, NoIDTwice, [Next]_vars PROVE NoIDTwice'
    OBVIOUS
  <2>1. ASSUME NEW id \in PacketID, AcceptPacket(id) PROVE NoIDTwice'
    <3> DEFINE o == window.offset
               n == NextSlot(o)
    <3>1. n \in Slot /\ n # NextSlot(n) /\ o \in Slot
      BY SlotArithmetic DEF TypeOK, Window
    <3>2. /\ window'.offset = n
          /\ \A i \in Slot : window'.ids[i] = IF i = n THEN id ELSE window.ids[i]
      BY <2>1, <3>1 DEF AcceptPacket, RegisterReceivedPacketID, TypeOK, Window
    <3>3. \A i \in Slot \ {n} : window.ids[i] # id
      BY <2>1 DEF AcceptPacket, AlreadyReceivedPacket
    <3> QED BY <3>1, <3>2, <3>3 DEF NoIDTwice
  <2>2. ASSUME NEW id \in PacketID, DropDuplicate(id) PROVE NoIDTwice'
    BY <2>2 DEF DropDuplicate, NoIDTwice
  <2>3. CASE UNCHANGED vars
    BY <2>3 DEF vars, NoIDTwice
  <2> QED BY <2>1, <2>2, <2>3 DEF Next
<1> QED BY <1>1, <1>2, TypeCorrect, PTL DEF Spec

\* The ring with its wrapping search implements the memory of the last
\* MAX_RECEIVED_PACKET_QUEUE - 1 accepted identifiers.
THEOREM RingIsRecentIDs == Spec => RecentSpec
<1> USE PacketIDsAssumption
<1> DEFINE Ages == 0..(MAX_RECEIVED_PACKET_QUEUE - 2)
           mem == [k \in Ages |-> window.ids[SlotBack(window.offset, k)]]
<1>1. Init => Recent!Init
  <2> SUFFICES ASSUME Init PROVE Recent!Init
    OBVIOUS
  <2>1. \A k \in Ages : SlotBack(0, k) \in Slot
    BY SlotArithmetic DEF Slot
  <2> QED BY <2>1
      DEF Init, EmptyWindow, NoID, Recent!Init, Recent!Age, Recent!NoID
<1>2. TypeOK /\ [Next]_vars => [Recent!Next]_<<mem, verdict>>
  <2> SUFFICES ASSUME TypeOK, [Next]_vars
               PROVE  [Recent!Next]_<<mem, verdict>>
    OBVIOUS
  <2>0. /\ window.offset \in Slot
        /\ window.ids \in [Slot -> PacketID \cup {NoID}]
    BY DEF TypeOK, Window
  <2>1. ASSUME NEW id \in PacketID, AcceptPacket(id)
        PROVE  Recent!Accept(id)
    <3> DEFINE n == NextSlot(window.offset)
    <3>1. \A k \in Ages : mem[k] # id
      BY <2>0, <2>1, SlotArithmetic DEF AcceptPacket, AlreadyReceivedPacket
    <3>2. /\ window'.offset = n
          /\ \A i \in Slot : window'.ids[i] = IF i = n THEN id ELSE window.ids[i]
      BY <2>0, <2>1, SlotArithmetic DEF AcceptPacket, RegisterReceivedPacketID
    <3>3. \A k \in Ages :
            mem'[k] = IF k = 0 THEN id ELSE mem[k - 1]
      <4> TAKE k \in Ages
      <4>1. mem'[k] = window'.ids[SlotBack(n, k)]
        BY <3>2
      <4>2. CASE k = 0
        BY <4>1, <4>2, <3>2, <2>0, SlotArithmetic
      <4>3. CASE k # 0
        <5>1. k - 1 \in Ages
          BY <4>3
        <5>2. /\ SlotBack(n, k) = SlotBack(window.offset, k - 1)
              /\ SlotBack(window.offset, k - 1) \in Slot \ {n}
          BY <4>3, <5>1, <2>0, SlotArithmetic
        <5> QED BY <4>1, <4>3, <5>1, <5>2, <3>2
      <4> QED BY <4>2, <4>3
    <3>4. mem' = [k \in Ages |-> IF k = 0 THEN id ELSE mem[k - 1]]
      BY <3>3
    <3> QED BY <2>1, <3>1, <3>4 DEF AcceptPacket, Recent!Accept, Recent!Age
  <2>2. ASSUME NEW id \in PacketID, DropDuplicate(id)
        PROVE  Recent!Refuse(id)
    <3>1. \E k \in Ages : mem[k] = id
      BY <2>0, <2>2, SlotArithmetic DEF DropDuplicate, AlreadyReceivedPacket
    <3> QED BY <2>2, <3>1 DEF DropDuplicate, Recent!Refuse, Recent!Age
  <2>3. CASE UNCHANGED vars
    BY <2>3 DEF vars
  <2> QED
    BY <2>1, <2>2, <2>3 DEF Next, PacketID, Recent!Next, Recent!PacketID
<1> QED BY <1>1, <1>2, TypeCorrect, PTL DEF Spec, RecentSpec, Recent!Spec
=============================================================================
