----------------------------- MODULE PendingList -----------------------------
(***************************************************************************)
(* Retransmission of the safe packets of one connection, against a clock   *)
(* that wraps.  UDPSendPacketThread adds the packets, AnalyzeUPPData       *)
(* removes them when acknowledged, the maintenance thread sends them again *)
(* or gives them up; all hold cConnectionLock.                             *)
(***************************************************************************)
EXTENDS Pending

CONSTANTS
  PacketNr,           \* identifiers of the safe packets the program sends
  AckDelay,           \* dwAckDelay of every packet
  MaxAck,             \* dwMaxAck of every packet
  StartTime,          \* what the clock may show when the first one is sent
  MaintenancePeriod,  \* the maintenance thread runs at least this often
  MaxTicks            \* bound: how long the model runs

ASSUME PendingListAssumption ==
  /\ AckDelay \in Nat \ {0}
  /\ MaxAck \in 1..(DWORD_MOD - 1)
  /\ MaintenancePeriod \in Nat \ {0}
  /\ StartTime \subseteq 0..(DWORD_MOD - 1)
  /\ MaxTicks \in Nat

VARIABLES
  now,        \* GetRunTime()
  pending,    \* m_pendingPackets
  tries,      \* tries[p]: transmissions of p so far
  waited,     \* waited[p]: time since the last transmission of p
  gaps,       \* gaps[p]: the times between its transmissions, oldest first
  crowded,    \* packets that found the list full when they were sent
  acked,      \* packets whose acknowledgement was received
  idle,       \* time since the maintenance thread ran
  ticks       \* time since the start

vars == <<now, pending, tries, waited, gaps, crowded, acked, idle, ticks>>

PacketFor(p) == [id |-> p, dwAckDelay |-> AckDelay, dwAckCount |-> MaxAck]

Init ==
  /\ now \in StartTime
  /\ pending = <<>>
  /\ tries = [p \in PacketNr |-> 0]
  /\ waited = [p \in PacketNr |-> 0]
  /\ gaps = [p \in PacketNr |-> <<>>]
  /\ crowded = {}
  /\ acked = {}
  /\ idle = 0
  /\ ticks = 0

\* UDPSendPacketThread, for a safe packet: list it, then send it.
SendSafePacket(p) ==
  /\ tries[p] = 0
  /\ pending' = AddPending(pending, PacketFor(p), now)
  /\ tries' = [tries EXCEPT ![p] = 1]
  /\ waited' = [waited EXCEPT ![p] = 0]
  /\ crowded' = IF Len(pending) < MAX_PACKET_PENDING_LIST THEN crowded
                ELSE crowded \cup {p}
  /\ UNCHANGED <<now, gaps, acked, idle, ticks>>

\* AnalyzeUPPData, for an acknowledgement; it may be a repeated one.
ReceiveAck(p) ==
  /\ tries[p] > 0
  /\ pending' = DestroyPending(pending, p)
  /\ acked' = acked \cup {p}
  /\ UNCHANGED <<now, tries, waited, gaps, crowded, idle, ticks>>

\* UDPMaintenancePacket, as far as this list goes.
Maintenance ==
  LET resent == {packet.id : packet \in ReSentPackets(pending, now)}
  IN  /\ pending' \in VerifyTimedoutPending(pending, now)
      /\ tries' = [p \in PacketNr |-> IF p \in resent THEN tries[p] + 1
                                                      ELSE tries[p]]
      /\ gaps' = [p \in PacketNr |-> IF p \in resent
                                     THEN Append(gaps[p], waited[p]) ELSE gaps[p]]
      /\ waited' = [p \in PacketNr |-> IF p \in resent THEN 0 ELSE waited[p]]
      /\ idle' = 0
      /\ UNCHANGED <<now, crowded, acked, ticks>>

Tick ==
  /\ ticks < MaxTicks
  /\ idle < MaintenancePeriod
  /\ ticks' = ticks + 1
  /\ idle' = idle + 1
  /\ now' = (now + 1) % DWORD_MOD
  /\ waited' = [p \in PacketNr |-> IF IsPending(pending, p)
                                   THEN waited[p] + 1 ELSE waited[p]]
  /\ UNCHANGED <<pending, tries, gaps, crowded, acked>>

Next ==
  \/ \E p \in PacketNr : SendSafePacket(p) \/ ReceiveAck(p)
  \/ Maintenance
  \/ Tick

Spec == Init /\ [][Next]_vars

-----------------------------------------------------------------------------
\* The list has the type of m_pendingPackets; no count has wrapped below zero.
TypeOK ==
  /\ now \in 0..(DWORD_MOD - 1)
  /\ Len(pending) <= MAX_PACKET_PENDING_LIST
  /\ \A i \in DOMAIN pending :
       /\ pending[i].packet \in {PacketFor(p) : p \in PacketNr}
       /\ pending[i].dwAckCount \in 1..MaxAck
       /\ pending[i].dwTimeout \in 0..(DWORD_MOD - 1)

\* A listed packet has exactly the transmissions left that dwMaxAck allows.
BudgetIsExact ==
  \A i \in DOMAIN pending :
    tries[pending[i].packet.id] + pending[i].dwAckCount = MaxAck + 1

\* A safe packet that was sent waits in the list until it is acknowledged or was
\* sent dwMaxAck times; the exception is one that found the list full, and that
\* one is sent once and never again.
RetriedUnlessCrowded ==
  \A p \in PacketNr :
    /\ tries[p] \in 1..(MaxAck - 1) /\ p \notin acked \cup crowded => IsPending(pending, p)
    /\ p \in crowded => tries[p] = 1

\* An acknowledged packet is never sent again.
NoResendAfterAck ==
  [][\A p \in PacketNr : p \in acked => tries'[p] = tries[p]]_vars

\* dwAckDelay is what SendPacket says it is, "the delay between acks": two
\* transmissions of a packet are at least that far apart.
DelayIsKept ==
  \A p \in PacketNr : \A i \in DOMAIN gaps[p] : gaps[p][i] >= AckDelay

\* A due packet is handled by the next maintenance: nobody waits as long
\* as the scaled delay and one period.
RetryIsPunctual ==
  \A p \in PacketNr :
    IsPending(pending, p) => waited[p] < Scaled(AckDelay) + MaintenancePeriod

\* A safe packet that was sent is on the 'waiting for ack' list until it is
\* acknowledged or its transmissions are spent.
UnansweredIsPending ==
  \A p \in PacketNr :
    tries[p] > 0 /\ p \notin acked /\ tries[p] < MaxAck => IsPending(pending, p)

\* "Wait 1.5x more time": every wait is longer than the one before.
BackoffGrows ==
  \A p \in PacketNr : \A i \in 2..Len(gaps[p]) :
    gaps[p][i] > gaps[p][i - 1]
=============================================================================
