------------------------------- MODULE Pending -------------------------------
(***************************************************************************)
(* The packets of a connection that wait for an acknowledgement, as a      *)
(* value: m_pendingPackets, oldest first.  Pure operators.  A packet       *)
(* carries its identifier and what SendPacket was asked for: dwAckDelay    *)
(* and dwAckCount.  Instants are DWORDs, so they wrap at DWORD_MOD.        *)
(***************************************************************************)
EXTENDS Naturals, Sequences, Subsequences

CONSTANTS
  MAX_PACKET_PENDING_LIST,   \* 5: at most so many packets are retransmitted
  DWORD_MOD                  \* 2^32 milliseconds: GetRunTime() wraps

ASSUME PendingAssumption ==
  /\ MAX_PACKET_PENDING_LIST \in Nat \ {0}
  /\ DWORD_MOD \in Nat \ {0}

Deadline(now, delay) == (now + delay) % DWORD_MOD
Scaled(delay) == (delay * 3) \div 2

\* The copy that is kept waits dwAckDelay first and half as long again later.
\* A packet that finds the list full is sent once and forgotten.
AddPending(q, packet, now) ==
  IF Len(q) < MAX_PACKET_PENDING_LIST
  THEN Append(q, [packet     |-> packet,
                  dwAckCount |-> packet.dwAckCount,
                  dwAckDelay |-> Scaled(packet.dwAckDelay),
                  dwTimeout  |-> Deadline(now, packet.dwAckDelay)])
  ELSE q

\* An acknowledgement names a packet by the identifier saved before encryption.
IsPending(q, id) == \E i \in DOMAIN q : q[i].packet.id = id

\* Deviation: the oldest packet is taken, whatever its identifier.
FirstPendingOldest(q, id) == 1

FirstPending(q, id) ==
  CHOOSE i \in DOMAIN q :
    q[i].packet.id = id /\ \A j \in DOMAIN q : q[j].packet.id = id => i <= j

\* Deviation: the packet that was named stays.
DestroyPendingNot(q, id) == q

DestroyPending(q, id) ==
  IF IsPending(q, id)
  THEN LET i == FirstPending(q, id)
       IN  [k \in 1..(Len(q) - 1) |-> IF k < i THEN q[k] ELSE q[k + 1]]
  ELSE q

-----------------------------------------------------------------------------
(* VerifyTimedoutPending.                                                  *)

\* Deviations: a packet is due one unit too early, or one and a period too late.
IsDueEarly(entry, now) == entry.dwTimeout <= now + 1
IsDueLate(entry, now) == entry.dwTimeout < now

IsDue(entry, now) == entry.dwTimeout <= now

\* Deviation: the transmission is not counted.
RetriedUncounted(entry, now) ==
  IF IsDue(entry, now)
  THEN [entry EXCEPT !.dwTimeout = Deadline(now, entry.dwAckDelay)]
  ELSE entry

\* One wait is over.  ReSendPacket scales the delay of the copy it posts, not
\* of the entry, so that every later wait is as long as this one.
Retried(entry, now) ==
  IF IsDue(entry, now)
  THEN [entry EXCEPT !.dwAckCount = (@ + DWORD_MOD - 1) % DWORD_MOD,
                     !.dwTimeout = Deadline(now, entry.dwAckDelay)]
  ELSE entry

\* A packet whose count falls to zero is given up without being sent again.
\* What is left is the element of this set.
VerifyTimedoutPending(q, now) ==
  OnlyAt([i \in DOMAIN q |-> Retried(q[i], now)],
         {i \in DOMAIN q : Retried(q[i], now).dwAckCount # 0})

\* Deviation: the last transmission that is left is not made.
ReSentPacketsShort(q, now) ==
  {[q[i].packet EXCEPT !.dwAckCount = Retried(q[i], now).dwAckCount] :
     i \in {j \in DOMAIN q :
              IsDue(q[j], now) /\ Retried(q[j], now).dwAckCount > 1}}

\* ReSendPacket posts a copy of the packet with the transmissions left to it.
ReSentPackets(q, now) ==
  {[q[i].packet EXCEPT !.dwAckCount = Retried(q[i], now).dwAckCount] :
     i \in {j \in DOMAIN q :
              IsDue(q[j], now) /\ Retried(q[j], now).dwAckCount # 0}}
=============================================================================
