-------------------------- MODULE PendingListProofs --------------------------
(***************************************************************************)
(* Proofs about retransmission, for every number of packets, every limit   *)
(* of the list and every budget: how often a packet is sent, how long the  *)
(* list remembers it, and, while the clock does not wrap, how far apart    *)
(* its transmissions are.                                                  *)
(***************************************************************************)
EXTENDS PendingList, FiniteSetTheorems, TLAPS

-----------------------------------------------------------------------------
(* The invariant.                                                          *)

Entry == [packet     : {PacketFor(p) : p \in PacketNr},
          dwAckCount : 1..MaxAck,
          dwAckDelay : {Scaled(AckDelay)},
          dwTimeout  : 0..(DWORD_MOD - 1)]

Types ==
  /\ pending \in Seq(Entry) /\ Len(pending) <= MAX_PACKET_PENDING_LIST
  /\ now \in 0..(DWORD_MOD - 1)
  /\ tries \in [PacketNr -> Nat]
  /\ waited \in [PacketNr -> Nat]
  /\ gaps \in [PacketNr -> Seq(Nat)]
  /\ acked \subseteq PacketNr /\ crowded \subseteq PacketNr
  /\ idle \in 0..MaintenancePeriod /\ ticks \in 0..MaxTicks

\* A packet is listed once.
ListedOnce ==
  \A i, j \in DOMAIN pending : pending[i].packet.id = pending[j].packet.id => i = j

\* What is listed was sent, is not answered and was not crowded out.
ListedIsOpen ==
  \A i \in DOMAIN pending :
    /\ tries[pending[i].packet.id] > 0
    /\ pending[i].packet.id \notin acked \cup crowded

\* Only what was sent is answered.
AckedWasSent == \A p \in acked : tries[p] > 0

IInv ==
  Types /\ ListedOnce /\ ListedIsOpen /\ AckedWasSent /\ BudgetIsExact
        /\ RetriedUnlessCrowded

\* The clock never reaches its end: the sum of any start, the time the system
\* runs and the longest delay is below 2^32 milliseconds.
ClockSuffices == \A t \in StartTime : t + MaxTicks + Scaled(AckDelay) < DWORD_MOD

\* The deadline of an entry is a delay after its last transmission, and an entry
\* that is due has not waited longer than since the last maintenance.
DeadlinesAreTold ==
  \A i \in DOMAIN pending :
    LET w == waited[pending[i].packet.id]
    IN  /\ \E d \in {AckDelay, Scaled(AckDelay)} : pending[i].dwTimeout + w = now + d
        /\ w < Scaled(AckDelay) + idle

ClockIsTold == \E t \in StartTime : now = t + ticks

TInv == ClockIsTold /\ DeadlinesAreTold /\ DelayIsKept

-----------------------------------------------------------------------------
(* Operators.                                                              *)

\* The scaled delay is not shorter than the delay.
LEMMA ScaledDelay ==
  /\ AckDelay \in Nat /\ AckDelay > 0
  /\ Scaled(AckDelay) \in Nat /\ Scaled(AckDelay) >= AckDelay
BY PendingListAssumption, SMT DEF Scaled

\* An instant is a DWORD.
LEMMA DeadlineType ==
  ASSUME NEW t \in Nat, NEW d \in Nat
  PROVE  /\ Deadline(t, d) \in 0..(DWORD_MOD - 1)
         /\ t + d < DWORD_MOD => Deadline(t, d) = t + d
BY PendingAssumption, SMT DEF Deadline

\* new has m entries, those of list at the places in kept, each once.
IsLeft(new, list, kept, m, at) ==
  /\ at \in [1..m -> kept]
  /\ new = [k \in 1..m |-> list[at[k]]]
  /\ \A j, k \in 1..m : at[j] = at[k] => j = k
  /\ \A i \in kept : \E k \in 1..m : at[k] = i

\* What a loop that erases leaves: each kept entry once, each from its place.
LEMMA Survivors ==
  ASSUME NEW list, NEW n \in Nat, NEW kept, kept \subseteq 1..n,
         NEW new \in OnlyAt(list, kept)
  PROVE  \E m \in 0..n : \E at : IsLeft(new, list, kept, m, at)
<1>1. IsFiniteSet(1..n) /\ Cardinality(1..n) = n
  <2>1. 1 \in Int /\ n \in Int
    OBVIOUS
  <2>2. IsFiniteSet(1..n) /\ Cardinality(1..n) = IF 1 > n THEN 0 ELSE n - 1 + 1
    BY <2>1, FS_Interval
  <2> QED BY <2>2
<1>2. PICK m : m = Cardinality(kept)
  OBVIOUS
<1>3. IsFiniteSet(kept) /\ m \in 0..n
  <2>1. IsFiniteSet(kept) /\ Cardinality(kept) <= n
    BY <1>1, FS_Subset
  <2> QED BY <1>2, <2>1, FS_CardinalityType
<1>4. PICK at \in [1..m -> kept] :
        /\ \A j, k \in 1..m : j < k => at[j] < at[k]
        /\ new = [k \in 1..m |-> list[at[k]]]
  BY <1>2 DEF OnlyAt
<1>5. \A j, k \in 1..m : at[j] = at[k] => j = k
  <2> SUFFICES ASSUME NEW j \in 1..m, NEW k \in 1..m, j < k PROVE at[j] # at[k]
    BY <1>3
  <2>1. at[j] \in kept /\ at[k] \in kept /\ at[j] < at[k]
    BY <1>4
  <2>2. at[j] \in Nat /\ at[k] \in Nat
    <3>1. at[j] \in 1..n /\ at[k] \in 1..n
      BY <2>1, Zenon
    <3> QED BY <3>1
  <2> QED BY <2>1, <2>2
<1>6. IsFiniteSet(1..m) /\ Cardinality(1..m) = m
  <2>1. 1 \in Int /\ m \in Int
    BY <1>3
  <2>2. IsFiniteSet(1..m) /\ Cardinality(1..m) = IF 1 > m THEN 0 ELSE m - 1 + 1
    BY <2>1, FS_Interval
  <2> QED BY <1>3, <2>2
<1>7. at \in Injection(1..m, kept)
  BY <1>4, <1>5 DEF Injection, IsInjective
<1>8. at \in Surjection(1..m, kept)
  BY <1>2, <1>3, <1>6, <1>7, FS_Injection
<1>9. \A i \in kept : \E k \in 1..m : at[k] = i
  BY <1>8 DEF Surjection
<1> QED BY <1>3, <1>4, <1>5, <1>9 DEF IsLeft

\* What is known of an entry.
LEMMA EntryFields ==
  ASSUME NEW e \in Entry
  PROVE  /\ e.dwAckCount \in 1..MaxAck /\ e.dwAckDelay = Scaled(AckDelay)
         /\ e.packet \in {PacketFor(p) : p \in PacketNr}
         /\ e.packet.id \in PacketNr
         /\ e.dwTimeout \in 0..(DWORD_MOD - 1)
         /\ e = [packet |-> e.packet, dwAckCount |-> e.dwAckCount,
                  dwAckDelay |-> e.dwAckDelay, dwTimeout |-> e.dwTimeout]
BY DEF Entry, PacketFor

\* What one look of VerifyTimedoutPending does to an entry.
LEMMA RetriedEntry ==
  ASSUME NEW e \in Entry, NEW t \in 0..(DWORD_MOD - 1)
  PROVE  LET r == Retried(e, t)
         IN  /\ r.packet = e.packet
             /\ IsDue(e, t) => /\ r.dwAckCount = e.dwAckCount - 1
                               /\ r.dwTimeout = Deadline(t, Scaled(AckDelay))
             /\ ~ IsDue(e, t) => r = e
             /\ r.dwAckCount # 0 => r \in Entry
<1>1. /\ e.dwAckCount \in 1..MaxAck /\ e.dwAckDelay = Scaled(AckDelay)
      /\ e.packet \in {PacketFor(p) : p \in PacketNr}
  BY DEF Entry
<1>2. CASE IsDue(e, t)
  <2>1. Retried(e, t) =
          [e EXCEPT !.dwAckCount = (@ + DWORD_MOD - 1) % DWORD_MOD,
                    !.dwTimeout = Deadline(t, Scaled(AckDelay))]
    BY <1>1, <1>2 DEF Retried
  <2>2. (e.dwAckCount + DWORD_MOD - 1) % DWORD_MOD = e.dwAckCount - 1
    <3>1. PICK c \in 1..(DWORD_MOD - 1) : c = e.dwAckCount
      BY <1>1, PendingListAssumption, PendingAssumption
    <3>2. (c + DWORD_MOD - 1) % DWORD_MOD = c - 1
      BY PendingAssumption, SMT
    <3> QED BY <3>1, <3>2
  <2>3. Deadline(t, Scaled(AckDelay)) \in 0..(DWORD_MOD - 1)
    <3>1. t \in Nat /\ Scaled(AckDelay) \in Nat
      BY ScaledDelay, PendingAssumption
    <3> QED BY <3>1, DeadlineType
  <2>4. PICK r : r = Retried(e, t)
    OBVIOUS
  <2>5. r = [packet |-> e.packet, dwAckCount |-> e.dwAckCount - 1,
             dwAckDelay |-> Scaled(AckDelay),
             dwTimeout |-> Deadline(t, Scaled(AckDelay))]
    BY <1>1, <2>1, <2>2, <2>4, EntryFields
  <2>6. r.dwAckCount # 0 => r \in Entry
    <3>1. e.dwAckCount - 1 # 0 => e.dwAckCount - 1 \in 1..MaxAck
      BY <1>1, PendingListAssumption
    <3> QED BY <1>1, <2>3, <2>5, <3>1 DEF Entry
  <2> QED BY <1>2, <2>4, <2>5, <2>6
<1>3. CASE ~ IsDue(e, t)
  BY <1>3 DEF Retried
<1> QED BY <1>2, <1>3

-----------------------------------------------------------------------------
(* The steps.                                                              *)

LEMMA InitHolds == Init => IInv
<1> SUFFICES ASSUME Init PROVE IInv
  OBVIOUS
<1>1. Types
  BY PendingListAssumption, PendingAssumption DEF Init, Types
<1>2. pending = <<>> /\ DOMAIN pending = {}
  BY DEF Init
<1>3. ListedOnce /\ ListedIsOpen /\ AckedWasSent /\ BudgetIsExact
  BY <1>2 DEF Init, ListedOnce, ListedIsOpen, AckedWasSent, BudgetIsExact
<1>4. RetriedUnlessCrowded
  BY DEF Init, RetriedUnlessCrowded
<1> QED BY <1>1, <1>3, <1>4 DEF IInv

\* The packet is listed with the whole budget but this transmission, or crowded
\* out.
LEMMA SendStep ==
  ASSUME IInv, NEW p \in PacketNr, SendSafePacket(p)
  PROVE  IInv'
<1> USE PendingAssumption
<1>1. PICK n \in Nat : n = Len(pending) /\ DOMAIN pending = 1..n
  BY DEF IInv, Types
<1>2. /\ tries[p] = 0 /\ tries' = [tries EXCEPT ![p] = 1]
      /\ acked' = acked /\ idle' = idle /\ ticks' = ticks /\ now' = now
      /\ gaps' = gaps /\ waited' = [waited EXCEPT ![p] = 0]
  BY DEF SendSafePacket
<1>3. p \notin acked /\ \A i \in DOMAIN pending : pending[i].packet.id # p
  BY <1>2 DEF IInv, AckedWasSent, ListedIsOpen
<1>4. CASE n < MAX_PACKET_PENDING_LIST
  <2>1. PICK e : e = [packet     |-> PacketFor(p),
                      dwAckCount |-> MaxAck,
                      dwAckDelay |-> Scaled(AckDelay),
                      dwTimeout  |-> Deadline(now, AckDelay)]
    OBVIOUS
  <2>2. pending' = Append(pending, e) /\ crowded' = crowded
    BY <1>1, <1>4, <2>1 DEF SendSafePacket, AddPending, PacketFor
  <2>3. e \in Entry /\ e.packet.id = p /\ e.dwAckCount = MaxAck
    <3>1. now \in Nat /\ AckDelay \in Nat
      BY ScaledDelay DEF IInv, Types
    <3>2. Deadline(now, AckDelay) \in 0..(DWORD_MOD - 1)
      BY <3>1, DeadlineType
    <3> QED BY <2>1, <3>2, PendingListAssumption DEF Entry, PacketFor
  <2>4. /\ pending' \in Seq(Entry) /\ Len(pending') = n + 1
        /\ DOMAIN pending' = 1..(n + 1) /\ pending'[n + 1] = e
        /\ \A i \in 1..n : pending'[i] = pending[i]
    BY <1>1, <2>2, <2>3 DEF IInv, Types
  <2>5. Types'
    BY <1>1, <1>2, <1>4, <2>2, <2>4 DEF IInv, Types
  <2>6. ListedOnce'
    BY <1>1, <1>3, <2>3, <2>4 DEF IInv, ListedOnce
  <2>7. p \notin crowded
    BY <1>2 DEF IInv, RetriedUnlessCrowded
  <2>8. ListedIsOpen'
    BY <1>1, <1>2, <1>3, <2>2, <2>3, <2>4, <2>7 DEF IInv, ListedIsOpen, Types
  <2>9. AckedWasSent'
    BY <1>2, <1>3 DEF IInv, AckedWasSent, Types
  <2>10. BudgetIsExact'
    <3> SUFFICES ASSUME NEW i \in 1..(n + 1)
                 PROVE  tries'[pending'[i].packet.id] + pending'[i].dwAckCount = MaxAck + 1
      BY <2>4 DEF BudgetIsExact
    <3>1. CASE i = n + 1
      BY <1>2, <2>3, <2>4, <3>1, PendingListAssumption DEF IInv, Types
    <3>2. CASE i # n + 1
      <4>1. i \in DOMAIN pending /\ pending'[i] = pending[i] /\ pending[i] \in Entry
        BY <1>1, <2>4, <3>2 DEF IInv, Types
      <4>2. pending[i].packet.id \in PacketNr /\ pending[i].packet.id # p
        BY <1>3, <4>1, EntryFields
      <4>3. tries'[pending[i].packet.id] = tries[pending[i].packet.id]
        BY <1>2, <4>2 DEF IInv, Types
      <4> QED BY <4>1, <4>3 DEF IInv, BudgetIsExact
    <3> QED BY <3>1, <3>2
  <2>11. RetriedUnlessCrowded'
    <3> SUFFICES ASSUME NEW q \in PacketNr
                 PROVE  /\ tries'[q] \in 1..(MaxAck - 1) /\ q \notin acked \cup crowded
                             => IsPending(pending', q)
                        /\ q \in crowded => tries'[q] = 1
      BY <1>2, <2>2 DEF RetriedUnlessCrowded
    <3>1. CASE q = p
      <4>1. IsPending(pending', p)
        BY <1>1, <2>3, <2>4 DEF IsPending
      <4> QED BY <2>7, <3>1, <4>1
    <3>2. CASE q # p
      <4>1. tries'[q] = tries[q]
        BY <1>2, <3>2 DEF IInv, Types
      <4>2. IsPending(pending, q) => IsPending(pending', q)
        BY <1>1, <2>4 DEF IsPending
      <4> QED BY <4>1, <4>2 DEF IInv, RetriedUnlessCrowded
    <3> QED BY <3>1, <3>2
  <2> QED BY <2>5, <2>6, <2>8, <2>9, <2>10, <2>11 DEF IInv
<1>5. CASE ~ (n < MAX_PACKET_PENDING_LIST)
  <2>1. pending' = pending /\ crowded' = crowded \cup {p}
    BY <1>1, <1>5 DEF SendSafePacket, AddPending
  <2>2. Types'
    BY <1>2, <2>1 DEF IInv, Types
  <2>3. ListedOnce' /\ ListedIsOpen' /\ AckedWasSent' /\ BudgetIsExact'
    BY <1>2, <1>3, <2>1
    DEF IInv, ListedOnce, ListedIsOpen, AckedWasSent, BudgetIsExact, Types
  <2>4. RetriedUnlessCrowded'
    BY <1>2, <2>1 DEF IInv, RetriedUnlessCrowded, IsPending, Types
  <2> QED BY <2>2, <2>3, <2>4 DEF IInv
<1> QED BY <1>4, <1>5

\* The entries that an acknowledgement leaves are the others, each in its order.
LEMMA Destroyed ==
  ASSUME IInv, NEW p \in PacketNr
  PROVE  \E m \in 0..Len(pending) : \E at :
           IsLeft(DestroyPending(pending, p), pending,
                  {i \in DOMAIN pending : pending[i].packet.id # p}, m, at)
<1>1. PICK n \in Nat : n = Len(pending) /\ DOMAIN pending = 1..n
  BY DEF IInv, Types
<1>0. PICK others : others = {i \in DOMAIN pending : pending[i].packet.id # p}
  OBVIOUS
<1>2. CASE ~ IsPending(pending, p)
  <2>1. PICK at : at = [k \in 1..n |-> k]
    OBVIOUS
  <2>2. at \in [1..n -> 1..n] /\ \A k \in 1..n : at[k] = k
    BY <2>1
  <2>3. pending = [k \in 1..n |-> pending[at[k]]]
    <3>1. pending = [k \in 1..n |-> pending[k]]
      BY <1>1 DEF IInv, Types
    <3> QED BY <2>2, <3>1
  <2>4. \A i \in 1..n : pending[i].packet.id # p
    BY <1>1, <1>2 DEF IsPending
  <2>5. others = 1..n
    BY <1>0, <1>1, <2>4
  <2>6. IsLeft(pending, pending, others, n, at)
    BY <2>2, <2>3, <2>5 DEF IsLeft
  <2>7. DestroyPending(pending, p) = pending
    BY <1>2 DEF DestroyPending
  <2>8. n \in 0..n
    OBVIOUS
  <2> QED BY <1>0, <1>1, <2>6, <2>7, <2>8
<1>3. CASE IsPending(pending, p)
  <2>1. PICK i \in 1..n : i = FirstPending(pending, p) /\ pending[i].packet.id = p
    <3>1. PICK i \in 1..n : pending[i].packet.id = p
      BY <1>1, <1>3 DEF IsPending
    <3>2. \A j \in 1..n : pending[j].packet.id = p => i <= j
      BY <1>1, <3>1 DEF IInv, ListedOnce
    <3> QED BY <1>1, <3>1, <3>2 DEF FirstPending
  <2>2. \A j \in 1..n : pending[j].packet.id = p => j = i
    BY <1>1, <2>1 DEF IInv, ListedOnce
  <2>3. PICK at : at = [k \in 1..(n - 1) |-> IF k < i THEN k ELSE k + 1]
    OBVIOUS
  <2>4. /\ at \in [1..(n - 1) -> 1..n]
        /\ \A k \in 1..(n - 1) : at[k] = IF k < i THEN k ELSE k + 1
    BY <2>3
  <2>5. \A j, k \in 1..(n - 1) : at[j] = at[k] => j = k
    BY <2>4
  <2>6. \A j \in 1..n : j # i <=> \E k \in 1..(n - 1) : at[k] = j
    <3> SUFFICES ASSUME NEW j \in 1..n PROVE j # i <=> \E k \in 1..(n - 1) : at[k] = j
      OBVIOUS
    <3>1. CASE j < i
      BY <2>4, <3>1
    <3>2. CASE j > i
      <4>1. j - 1 \in 1..(n - 1) /\ at[j - 1] = j
        BY <2>4, <3>2
      <4> QED BY <3>2, <4>1
    <3>3. CASE j = i
      BY <2>4, <3>3
    <3> QED BY <3>1, <3>2, <3>3
  <2>7. DestroyPending(pending, p) = [k \in 1..(n - 1) |-> pending[at[k]]]
    <3>1. DestroyPending(pending, p) =
            [k \in 1..(n - 1) |-> IF k < i THEN pending[k] ELSE pending[k + 1]]
      BY <1>1, <1>3, <2>1 DEF DestroyPending
    <3>2. \A k \in 1..(n - 1) :
            (IF k < i THEN pending[k] ELSE pending[k + 1]) = pending[at[k]]
      BY <2>4
    <3> QED BY <3>1, <3>2
  <2>8. n - 1 \in 0..n
    BY <2>1
  <2>9. others = {j \in 1..n : j # i}
    BY <1>0, <1>1, <2>1, <2>2
  <2>10. at \in [1..(n - 1) -> others]
    BY <2>4, <2>9
  <2>11. IsLeft(DestroyPending(pending, p), pending, others, n - 1, at)
    BY <2>5, <2>6, <2>7, <2>9, <2>10 DEF IsLeft
  <2> QED BY <1>0, <1>1, <2>8, <2>11
<1> QED BY <1>2, <1>3

\* An acknowledgement takes its packet from the list for good.
LEMMA AckStep ==
  ASSUME IInv, NEW p \in PacketNr, ReceiveAck(p)
  PROVE  IInv'
<1>1. PICK n \in Nat : n = Len(pending) /\ DOMAIN pending = 1..n
  BY DEF IInv, Types
<1>2. /\ tries[p] > 0 /\ acked' = acked \cup {p} /\ crowded' = crowded
      /\ tries' = tries /\ waited' = waited /\ gaps' = gaps
      /\ now' = now /\ idle' = idle /\ ticks' = ticks
  BY DEF ReceiveAck
<1>11. PICK others : others = {i \in DOMAIN pending : pending[i].packet.id # p}
  OBVIOUS
<1>3. PICK m, at : m \in 0..n /\ IsLeft(pending', pending, others, m, at)
  BY <1>1, <1>11, Destroyed DEF ReceiveAck
<1>4. /\ m \in 0..n /\ at \in [1..m -> 1..n]
      /\ pending' = [k \in 1..m |-> pending[at[k]]]
      /\ \A j, k \in 1..m : at[j] = at[k] => j = k
      /\ \A i \in 1..n :
           pending[i].packet.id # p <=> \E k \in 1..m : at[k] = i
  <2>1. \A i : i \in others <=> i \in 1..n /\ pending[i].packet.id # p
    BY <1>1, <1>11
  <2>2. \A k \in 1..m : at[k] \in others
    BY <1>3 DEF IsLeft
  <2> QED BY <1>3, <2>1, <2>2 DEF IsLeft
<1>5. /\ DOMAIN pending' = 1..m
      /\ \A k \in 1..m : /\ at[k] \in DOMAIN pending /\ pending'[k] = pending[at[k]]
                          /\ pending'[k].packet.id # p
  BY <1>1, <1>4
<1>6. pending' \in Seq(Entry) /\ Len(pending') = m
  BY <1>4, <1>5 DEF IInv, Types
<1>7. Types'
  BY <1>1, <1>2, <1>4, <1>6, PendingAssumption DEF IInv, Types
<1>8. ListedOnce'
  <2> SUFFICES ASSUME NEW j \in 1..m, NEW k \in 1..m,
                      pending'[j].packet.id = pending'[k].packet.id
               PROVE  j = k
    BY <1>5 DEF ListedOnce
  <2>1. at[j] = at[k]
    BY <1>5 DEF IInv, ListedOnce
  <2> QED BY <1>4, <2>1
<1>9. ListedIsOpen' /\ AckedWasSent' /\ BudgetIsExact'
  BY <1>2, <1>5 DEF IInv, ListedIsOpen, AckedWasSent, BudgetIsExact
<1>10. RetriedUnlessCrowded'
  <2> SUFFICES ASSUME NEW q \in PacketNr
               PROVE  /\ tries[q] \in 1..(MaxAck - 1) /\ q \notin acked' \cup crowded
                           => IsPending(pending', q)
                      /\ q \in crowded => tries[q] = 1
    BY <1>2 DEF RetriedUnlessCrowded
  <2>1. ASSUME q # p, IsPending(pending, q) PROVE IsPending(pending', q)
    <3>1. PICK i \in 1..n : pending[i].packet.id = q
      BY <1>1, <2>1 DEF IsPending
    <3>2. PICK k \in 1..m : at[k] = i
      BY <1>4, <2>1, <3>1
    <3> QED BY <1>5, <3>1, <3>2 DEF IsPending
  <2> QED BY <1>2, <2>1 DEF IInv, RetriedUnlessCrowded
<1> QED BY <1>7, <1>8, <1>9, <1>10 DEF IInv

\* What is sent again: the due packets with transmissions left.
LEMMA ReSentIDs ==
  ASSUME IInv, NEW q
  PROVE  q \in {packet.id : packet \in ReSentPackets(pending, now)} <=>
           \E i \in DOMAIN pending :
             /\ IsDue(pending[i], now) /\ Retried(pending[i], now).dwAckCount # 0
             /\ pending[i].packet.id = q
<1>1. ASSUME NEW i \in DOMAIN pending
      PROVE  \A c : [pending[i].packet EXCEPT !.dwAckCount = c].id = pending[i].packet.id
  <2>1. pending[i] \in Entry
    BY DEF IInv, Types
  <2>2. PICK r \in PacketNr : pending[i].packet = PacketFor(r)
    BY <2>1, EntryFields
  <2> QED BY <2>2 DEF PacketFor
<1>2. PICK again : again = {j \in DOMAIN pending :
             IsDue(pending[j], now) /\ Retried(pending[j], now).dwAckCount # 0}
  OBVIOUS
<1>3. ReSentPackets(pending, now) =
        {[pending[i].packet EXCEPT !.dwAckCount = Retried(pending[i], now).dwAckCount] :
           i \in again}
  BY <1>2 DEF ReSentPackets
<1>4. \A i \in again : i \in DOMAIN pending
  BY <1>2
<1>5. q \in {packet.id : packet \in ReSentPackets(pending, now)} <=>
        \E i \in again :
          q = [pending[i].packet EXCEPT !.dwAckCount = Retried(pending[i], now).dwAckCount].id
  BY <1>3
<1>6. q \in {packet.id : packet \in ReSentPackets(pending, now)} <=>
        \E i \in again : q = pending[i].packet.id
  BY <1>1, <1>4, <1>5
<1> QED BY <1>2, <1>6

\* A packet is sent again as long as its budget lasts; one that is not due stays
\* as it is, one whose budget is spent goes.
LEMMA MaintenanceStep == IInv /\ Maintenance => IInv'
<1> SUFFICES ASSUME IInv, Maintenance PROVE IInv'
  OBVIOUS
<1>1. PICK n \in Nat : n = Len(pending) /\ DOMAIN pending = 1..n
  BY DEF IInv, Types
<1>2. PICK r : r = [i \in 1..n |-> Retried(pending[i], now)]
  OBVIOUS
<1>3. PICK kept : kept = {i \in 1..n : Retried(pending[i], now).dwAckCount # 0}
  OBVIOUS
<1>4. PICK resent : resent = {packet.id : packet \in ReSentPackets(pending, now)}
  OBVIOUS
<1>5. /\ pending' \in OnlyAt(r, kept)
      /\ tries' = [p \in PacketNr |-> IF p \in resent THEN tries[p] + 1 ELSE tries[p]]
      /\ gaps' = [p \in PacketNr |-> IF p \in resent THEN Append(gaps[p], waited[p])
                                                     ELSE gaps[p]]
      /\ waited' = [p \in PacketNr |-> IF p \in resent THEN 0 ELSE waited[p]]
      /\ idle' = 0 /\ now' = now /\ ticks' = ticks
      /\ crowded' = crowded /\ acked' = acked
  BY <1>1, <1>2, <1>3, <1>4 DEF Maintenance, VerifyTimedoutPending
<1>6. kept \subseteq 1..n
  BY <1>3
<1>7. PICK m, at : m \in 0..n /\ IsLeft(pending', r, kept, m, at)
  BY <1>5, <1>6, Survivors
<1>8. /\ m \in 0..n /\ at \in [1..m -> kept]
      /\ pending' = [k \in 1..m |-> r[at[k]]]
      /\ \A j, k \in 1..m : at[j] = at[k] => j = k
      /\ \A i \in kept : \E k \in 1..m : at[k] = i
  BY <1>7 DEF IsLeft
<1>9. ASSUME NEW i \in 1..n
      PROVE  /\ r[i].packet = pending[i].packet
             /\ IsDue(pending[i], now) => r[i].dwAckCount = pending[i].dwAckCount - 1
             /\ ~ IsDue(pending[i], now) => r[i] = pending[i]
             /\ r[i].dwAckCount # 0 => r[i] \in Entry
             /\ i \in kept <=> r[i].dwAckCount # 0
             /\ pending[i] \in Entry
  <2>1. pending[i] \in Entry /\ now \in 0..(DWORD_MOD - 1)
    BY <1>1 DEF IInv, Types
  <2>2. r[i] = Retried(pending[i], now)
    BY <1>2
  <2> QED BY <1>3, <2>1, <2>2, RetriedEntry
<1>10. /\ DOMAIN pending' = 1..m
       /\ \A k \in 1..m : /\ at[k] \in 1..n /\ at[k] \in DOMAIN pending /\ at[k] \in kept
                           /\ pending'[k] = r[at[k]] /\ pending'[k] \in Entry
                           /\ pending'[k].packet.id = pending[at[k]].packet.id
  BY <1>1, <1>6, <1>8, <1>9
<1>11. \A q : q \in resent <=>
         \E i \in 1..n : IsDue(pending[i], now) /\ i \in kept /\ pending[i].packet.id = q
  BY <1>1, <1>3, <1>4, ReSentIDs
<1>12. pending' \in Seq(Entry) /\ Len(pending') = m
  BY <1>8, <1>10
<1>13. Types'
  <2>1. tries' \in [PacketNr -> Nat] /\ waited' \in [PacketNr -> Nat]
    BY <1>5 DEF IInv, Types
  <2>2. gaps' \in [PacketNr -> Seq(Nat)]
    BY <1>5 DEF IInv, Types
  <2>3. m <= MAX_PACKET_PENDING_LIST
    BY <1>1, <1>8, PendingAssumption DEF IInv, Types
  <2> QED BY <1>5, <1>12, <2>1, <2>2, <2>3, PendingListAssumption DEF IInv, Types
<1>14. ListedOnce'
  <2> SUFFICES ASSUME NEW j \in 1..m, NEW k \in 1..m,
                      pending'[j].packet.id = pending'[k].packet.id
               PROVE  j = k
    BY <1>10 DEF ListedOnce
  <2>1. at[j] = at[k]
    BY <1>10 DEF IInv, ListedOnce
  <2> QED BY <1>8, <2>1
<1>15. ASSUME NEW i \in 1..n, i \in kept
       PROVE  LET q == pending[i].packet.id
              IN  /\ q \in PacketNr /\ tries[q] \in Nat
                  /\ tries'[q] = IF IsDue(pending[i], now) THEN tries[q] + 1 ELSE tries[q]
  <2>1. pending[i].packet.id \in PacketNr
    BY <1>9, EntryFields
  <2>2. pending[i].packet.id \in resent <=> IsDue(pending[i], now)
    BY <1>1, <1>11, <1>15 DEF IInv, ListedOnce
  <2> QED BY <1>5, <2>1, <2>2 DEF IInv, Types
<1>16. ListedIsOpen'
  <2> SUFFICES ASSUME NEW k \in 1..m
               PROVE  /\ tries'[pending'[k].packet.id] > 0
                      /\ pending'[k].packet.id \notin acked \cup crowded
    BY <1>5, <1>10 DEF ListedIsOpen
  <2>1. PICK q : q = pending[at[k]].packet.id /\ q = pending'[k].packet.id
    BY <1>10
  <2>2. tries[q] > 0 /\ q \notin acked \cup crowded
    BY <1>10, <2>1 DEF IInv, ListedIsOpen
  <2>3. tries[q] \in Nat /\ (tries'[q] = tries[q] + 1 \/ tries'[q] = tries[q])
    BY <1>10, <1>15, <2>1
  <2> QED BY <2>1, <2>2, <2>3
<1>17. AckedWasSent'
  BY <1>5 DEF IInv, Types, AckedWasSent
<1>18. BudgetIsExact'
  <2> SUFFICES ASSUME NEW k \in 1..m
               PROVE  tries'[pending'[k].packet.id] + pending'[k].dwAckCount = MaxAck + 1
    BY <1>10 DEF BudgetIsExact
  <2>1. PICK i \in 1..n : i = at[k]
    BY <1>10
  <2>2. PICK q : q = pending[i].packet.id
    OBVIOUS
  <2>3. tries[q] + pending[i].dwAckCount = MaxAck + 1
    BY <1>1, <2>2 DEF IInv, BudgetIsExact
  <2>4. pending[i].dwAckCount \in 1..MaxAck
    BY <1>9, EntryFields
  <2>5. i \in kept /\ pending'[k] = r[i] /\ pending'[k].packet.id = q
    BY <1>10, <2>1, <2>2
  <2>6. CASE IsDue(pending[i], now)
    <3>1. tries'[q] = tries[q] + 1 /\ tries[q] \in Nat
      BY <1>15, <2>2, <2>5, <2>6
    <3>2. pending'[k].dwAckCount = pending[i].dwAckCount - 1
      BY <1>9, <2>5, <2>6
    <3>3. PICK a \in Nat, c \in Nat, d \in Nat :
            a = tries[q] /\ c = pending[i].dwAckCount /\ d = MaxAck
      BY <2>4, <3>1, PendingListAssumption
    <3>4. tries'[q] + pending'[k].dwAckCount = a + 1 + (c - 1) /\ a + c = d + 1
      BY <2>3, <3>1, <3>2, <3>3
    <3>5. a + 1 + (c - 1) = d + 1
      BY <3>4
    <3> QED BY <2>5, <3>3, <3>4, <3>5
  <2>7. CASE ~ IsDue(pending[i], now)
    <3>1. tries'[q] = tries[q] /\ pending'[k].dwAckCount = pending[i].dwAckCount
      BY <1>9, <1>15, <2>2, <2>5, <2>7
    <3> QED BY <2>3, <2>5, <3>1
  <2> QED BY <2>6, <2>7
<1>19. RetriedUnlessCrowded'
  <2> SUFFICES ASSUME NEW q \in PacketNr
               PROVE  /\ tries'[q] \in 1..(MaxAck - 1) /\ q \notin acked \cup crowded
                           => IsPending(pending', q)
                      /\ q \in crowded => tries'[q] = 1
    BY <1>5 DEF RetriedUnlessCrowded
  <2>1. CASE \E i \in 1..n : pending[i].packet.id = q
    <3>1. PICK i \in 1..n : pending[i].packet.id = q
      BY <2>1
    <3>2. q \notin crowded
      BY <1>1, <3>1 DEF IInv, ListedIsOpen
    <3>3. CASE i \in kept
      <4>1. PICK k \in 1..m : at[k] = i
        BY <1>8, <3>3
      <4> QED BY <1>10, <3>1, <3>2, <4>1 DEF IsPending
    <3>4. CASE i \notin kept
      <4>1. pending[i].dwAckCount \in 1..MaxAck /\ tries[q] + pending[i].dwAckCount = MaxAck + 1
        BY <1>1, <1>9, <3>1, EntryFields DEF IInv, BudgetIsExact
      <4>2. pending[i].dwAckCount = 1
        BY <1>9, <3>4, <4>1, PendingListAssumption
      <4>3. tries[q] = MaxAck /\ tries[q] \in Nat
        BY <4>1, <4>2, PendingListAssumption DEF IInv, Types
      <4>4. tries'[q] = tries[q] \/ tries'[q] = tries[q] + 1
        BY <1>5
      <4> QED BY <3>2, <4>3, <4>4, PendingListAssumption
    <3> QED BY <3>3, <3>4
  <2>2. CASE ~ \E i \in 1..n : pending[i].packet.id = q
    <3>1. tries'[q] = tries[q]
      BY <1>5, <1>11, <2>2
    <3>2. ~ IsPending(pending, q)
      BY <1>1, <2>2 DEF IsPending
    <3> QED BY <3>1, <3>2 DEF IInv, RetriedUnlessCrowded
  <2> QED BY <2>1, <2>2
<1> QED BY <1>13, <1>14, <1>16, <1>17, <1>18, <1>19 DEF IInv

LEMMA TickStep == IInv /\ Tick => IInv'
<1> SUFFICES ASSUME IInv, Tick PROVE IInv'
  OBVIOUS
<1>1. /\ pending' = pending /\ tries' = tries /\ gaps' = gaps
      /\ crowded' = crowded /\ acked' = acked
      /\ ticks < MaxTicks /\ ticks' = ticks + 1
      /\ idle < MaintenancePeriod /\ idle' = idle + 1
      /\ now' = (now + 1) % DWORD_MOD
      /\ waited' = [p \in PacketNr |-> IF IsPending(pending, p) THEN waited[p] + 1
                                                              ELSE waited[p]]
  BY DEF Tick
<1>2. now' \in 0..(DWORD_MOD - 1)
  BY <1>1, PendingAssumption DEF IInv, Types
<1>3. waited' \in [PacketNr -> Nat]
  BY <1>1 DEF IInv, Types
<1>4. Types'
  BY <1>1, <1>2, <1>3, PendingListAssumption DEF IInv, Types
<1>5. ListedOnce' /\ ListedIsOpen' /\ AckedWasSent' /\ BudgetIsExact' /\ RetriedUnlessCrowded'
  BY <1>1 DEF IInv, ListedOnce, ListedIsOpen, AckedWasSent, BudgetIsExact,
              RetriedUnlessCrowded, IsPending
<1> QED BY <1>4, <1>5 DEF IInv

LEMMA StepHolds == IInv /\ [Next]_vars => IInv'
<1> SUFFICES ASSUME IInv, [Next]_vars PROVE IInv'
  OBVIOUS
<1>1. CASE UNCHANGED vars
  BY <1>1 DEF vars, IInv, Types, ListedOnce, ListedIsOpen, AckedWasSent, BudgetIsExact,
              RetriedUnlessCrowded, IsPending
<1> QED BY <1>1, SendStep, AckStep, MaintenanceStep, TickStep DEF Next

LEMMA InvariantHolds == Spec => []IInv
BY InitHolds, StepHolds, PTL DEF Spec

-----------------------------------------------------------------------------
(* Time.                                                                   *)

\* While the clock does not wrap, a deadline set now is a delay away.
LEMMA DeadlineIsSum ==
  ASSUME ClockSuffices, IInv, ClockIsTold, NEW d \in {AckDelay, Scaled(AckDelay)}
  PROVE  Deadline(now, d) = now + d
<1>1. PICK t \in StartTime : now = t + ticks
  BY DEF ClockIsTold
<1>2. t \in Nat /\ t + MaxTicks + Scaled(AckDelay) < DWORD_MOD
  BY PendingListAssumption, PendingAssumption DEF ClockSuffices
<1>3. ticks \in 0..MaxTicks /\ MaxTicks \in Nat
  BY PendingListAssumption DEF IInv, Types
<1>4. PICK s \in Nat : s = Scaled(AckDelay) /\ AckDelay <= s /\ AckDelay \in Nat
  BY ScaledDelay
<1>5. d \in Nat /\ d <= s
  BY <1>4
<1>6. now \in Nat /\ now + d < DWORD_MOD
  BY <1>1, <1>2, <1>3, <1>4, <1>5, PendingAssumption
<1> QED BY <1>5, <1>6, DeadlineType

\* What an entry that is left after the maintenance comes from, and how long its
\* packet has waited then.
LEMMA MaintenanceEntry ==
  ASSUME IInv, Maintenance, NEW k \in DOMAIN pending'
  PROVE  \E i \in DOMAIN pending :
           LET q == pending[i].packet.id
           IN  /\ pending'[k] = Retried(pending[i], now)
               /\ pending'[k].packet.id = q
               /\ q \in PacketNr
               /\ waited'[q] = IF IsDue(pending[i], now) THEN 0 ELSE waited[q]
<1>1. PICK n \in Nat : n = Len(pending) /\ DOMAIN pending = 1..n
  BY DEF IInv, Types
<1>2. PICK r : r = [i \in 1..n |-> Retried(pending[i], now)]
  OBVIOUS
<1>3. PICK kept : kept = {i \in 1..n : Retried(pending[i], now).dwAckCount # 0}
  OBVIOUS
<1>4. pending' \in OnlyAt(r, kept) /\ kept \subseteq 1..n
  BY <1>1, <1>2, <1>3 DEF Maintenance, VerifyTimedoutPending
<1>5. PICK m, at : m \in 0..n /\ IsLeft(pending', r, kept, m, at)
  BY <1>4, Survivors
<1>6. PICK i : i \in kept /\ i \in 1..n /\ pending'[k] = r[i]
  BY <1>4, <1>5 DEF IsLeft
<1>7. PICK q : q = pending[i].packet.id
  OBVIOUS
<1>8. pending[i] \in Entry /\ now \in 0..(DWORD_MOD - 1)
  BY <1>1, <1>6 DEF IInv, Types
<1>9. /\ pending'[k] = Retried(pending[i], now)
      /\ pending'[k].packet.id = q /\ q \in PacketNr
  <2>1. pending'[k] = Retried(pending[i], now)
    BY <1>2, <1>6
  <2>2. Retried(pending[i], now).packet = pending[i].packet
    BY <1>8, RetriedEntry
  <2> QED BY <1>7, <1>8, <2>1, <2>2, EntryFields
<1>10. q \in {packet.id : packet \in ReSentPackets(pending, now)} <=>
         IsDue(pending[i], now)
  <2>1. \A j \in DOMAIN pending : pending[j].packet.id = q => j = i
    BY <1>1, <1>6, <1>7 DEF IInv, ListedOnce
  <2> QED BY <1>1, <1>3, <1>6, <1>7, <2>1, ReSentIDs
<1>11. waited'[q] = IF IsDue(pending[i], now) THEN 0 ELSE waited[q]
  BY <1>9, <1>10 DEF Maintenance
<1> QED BY <1>1, <1>6, <1>7, <1>9, <1>11

LEMMA TimeInit == ClockSuffices /\ Init => TInv
<1> SUFFICES ASSUME Init PROVE TInv
  OBVIOUS
<1>1. ClockIsTold
  <2>1. now \in StartTime /\ ticks = 0 /\ now = now + 0
    BY PendingListAssumption, PendingAssumption DEF Init
  <2> QED BY <2>1 DEF ClockIsTold
<1>2. DeadlinesAreTold
  <2>1. DOMAIN pending = {}
    BY DEF Init
  <2> QED BY <2>1 DEF DeadlinesAreTold
<1>3. DelayIsKept
  BY DEF Init, DelayIsKept
<1> QED BY <1>1, <1>2, <1>3 DEF TInv

LEMMA TimeSend ==
  ASSUME ClockSuffices, IInv, TInv, NEW p \in PacketNr, SendSafePacket(p)
  PROVE  TInv'
<1>1. PICK n \in Nat : n = Len(pending) /\ DOMAIN pending = 1..n
  BY DEF IInv, Types
<1>2. /\ tries[p] = 0 /\ idle' = idle /\ ticks' = ticks /\ now' = now
      /\ gaps' = gaps /\ waited' = [waited EXCEPT ![p] = 0]
  BY DEF SendSafePacket
<1>3. ClockIsTold' /\ DelayIsKept'
  BY <1>2 DEF TInv, ClockIsTold, DelayIsKept
<1>4. PICK e : e = [packet     |-> PacketFor(p),
                    dwAckCount |-> MaxAck,
                    dwAckDelay |-> Scaled(AckDelay),
                    dwTimeout  |-> Deadline(now, AckDelay)]
  OBVIOUS
<1>5. pending' = Append(pending, e) \/ pending' = pending
  BY <1>4 DEF SendSafePacket, AddPending, PacketFor
<1>6. \A i \in DOMAIN pending' : (i \in 1..n /\ pending'[i] = pending[i])
                                \/ (i = n + 1 /\ pending'[i] = e)
  BY <1>1, <1>5 DEF IInv, Types
<1>7. DeadlinesAreTold'
  <2> SUFFICES ASSUME NEW i \in DOMAIN pending'
               PROVE  LET w == waited'[pending'[i].packet.id]
                      IN  /\ \E d \in {AckDelay, Scaled(AckDelay)} :
                                pending'[i].dwTimeout + w = now + d
                          /\ w < Scaled(AckDelay) + idle
    BY <1>2 DEF DeadlinesAreTold
  <2>1. CASE i \in 1..n /\ pending'[i] = pending[i]
    <3>1. pending[i].packet.id \in PacketNr
      BY <1>1, <2>1, EntryFields DEF IInv, Types
    <3>2. pending[i].packet.id # p
      BY <1>1, <1>2, <2>1 DEF IInv, ListedIsOpen
    <3>3. waited'[pending'[i].packet.id] = waited[pending[i].packet.id]
      BY <1>2, <2>1, <3>1, <3>2 DEF IInv, Types
    <3> QED BY <1>1, <2>1, <3>3 DEF TInv, DeadlinesAreTold
  <2>2. CASE i = n + 1 /\ pending'[i] = e
    <3>1. pending'[i].packet.id = p /\ pending'[i].dwTimeout = Deadline(now, AckDelay)
      BY <1>4, <2>2 DEF PacketFor
    <3>2. Deadline(now, AckDelay) = now + AckDelay
      BY DeadlineIsSum DEF TInv
    <3>3. waited'[p] = 0
      BY <1>2 DEF IInv, Types
    <3>4. now \in Nat /\ idle \in Nat
      BY DEF IInv, Types
    <3>5. pending'[i].dwTimeout + waited'[p] = now + AckDelay
      BY <3>1, <3>2, <3>3, <3>4, ScaledDelay
    <3>6. waited'[p] < Scaled(AckDelay) + idle
      BY <3>3, <3>4, ScaledDelay
    <3> QED BY <3>1, <3>5, <3>6
  <2> QED BY <1>6, <2>1, <2>2
<1> QED BY <1>3, <1>7 DEF TInv

LEMMA TimeAck ==
  ASSUME IInv, TInv, NEW p \in PacketNr, ReceiveAck(p)
  PROVE  TInv'
<1>1. PICK others : others = {i \in DOMAIN pending : pending[i].packet.id # p}
  OBVIOUS
<1>2. PICK m, at : m \in 0..Len(pending) /\ IsLeft(pending', pending, others, m, at)
  BY <1>1, Destroyed DEF ReceiveAck
<1>3. \A k \in DOMAIN pending' :
        \E i \in DOMAIN pending : pending'[k] = pending[i]
  <2>1. others \subseteq DOMAIN pending
    BY <1>1
  <2>2. ASSUME NEW k \in 1..m PROVE at[k] \in DOMAIN pending /\ pending'[k] = pending[at[k]]
    BY <1>2, <2>1 DEF IsLeft
  <2>3. DOMAIN pending' = 1..m
    BY <1>2 DEF IsLeft
  <2> QED BY <2>2, <2>3
<1>4. gaps' = gaps /\ waited' = waited /\ now' = now /\ idle' = idle /\ ticks' = ticks
  BY DEF ReceiveAck
<1>5. ClockIsTold' /\ DelayIsKept'
  BY <1>4 DEF TInv, ClockIsTold, DelayIsKept
<1>6. DeadlinesAreTold'
  BY <1>3, <1>4 DEF TInv, DeadlinesAreTold
<1> QED BY <1>5, <1>6 DEF TInv

LEMMA TimeMaintenance ==
  ASSUME ClockSuffices, IInv, TInv, Maintenance
  PROVE  TInv'
<1>1. now' = now /\ ticks' = ticks /\ idle' = 0 /\ now \in Nat
  BY DEF Maintenance, IInv, Types
<1>2. ClockIsTold'
  BY <1>1 DEF TInv, ClockIsTold
<1>3. DelayIsKept'
  <2> SUFFICES ASSUME NEW q \in PacketNr, NEW j \in DOMAIN gaps'[q]
               PROVE  gaps'[q][j] >= AckDelay
    BY DEF DelayIsKept
  <2>1. PICK resent : resent = {packet.id : packet \in ReSentPackets(pending, now)}
    OBVIOUS
  <2>2. gaps'[q] = IF q \in resent THEN Append(gaps[q], waited[q]) ELSE gaps[q]
    BY <2>1 DEF Maintenance
  <2>3. gaps[q] \in Seq(Nat) /\ waited[q] \in Nat
    BY DEF IInv, Types
  <2>4. \A i \in DOMAIN gaps[q] : gaps[q][i] >= AckDelay
    BY DEF TInv, DelayIsKept
  <2>5. ASSUME q \in resent PROVE waited[q] >= AckDelay
    <3>1. PICK i \in DOMAIN pending : IsDue(pending[i], now) /\ pending[i].packet.id = q
      BY <2>1, <2>5, ReSentIDs
    <3>2. pending[i].dwTimeout <= now /\ pending[i].dwTimeout \in Nat
      BY <3>1, EntryFields, PendingAssumption DEF IsDue, IInv, Types
    <3>3. PICK d \in {AckDelay, Scaled(AckDelay)} : pending[i].dwTimeout + waited[q] = now + d
      BY <3>1 DEF TInv, DeadlinesAreTold
    <3>4. d \in Nat /\ d >= AckDelay
      BY ScaledDelay
    <3> QED BY <1>1, <2>3, <3>2, <3>3, <3>4, ScaledDelay
  <2> QED BY <2>2, <2>3, <2>4, <2>5
<1>4. DeadlinesAreTold'
  <2> SUFFICES ASSUME NEW k \in DOMAIN pending'
               PROVE  LET w == waited'[pending'[k].packet.id]
                      IN  /\ \E d \in {AckDelay, Scaled(AckDelay)} :
                                pending'[k].dwTimeout + w = now + d
                          /\ w < Scaled(AckDelay) + 0
    BY <1>1 DEF DeadlinesAreTold
  <2>1. PICK i, q :
          /\ i \in DOMAIN pending /\ q = pending[i].packet.id /\ q \in PacketNr
          /\ pending'[k] = Retried(pending[i], now) /\ pending'[k].packet.id = q
          /\ waited'[q] = IF IsDue(pending[i], now) THEN 0 ELSE waited[q]
    BY MaintenanceEntry
  <2>2. pending[i] \in Entry /\ now \in 0..(DWORD_MOD - 1) /\ waited[q] \in Nat
    BY <2>1 DEF IInv, Types
  <2>3. CASE IsDue(pending[i], now)
    <3>1. pending'[k].dwTimeout = Deadline(now, Scaled(AckDelay))
      BY <2>1, <2>2, <2>3, RetriedEntry
    <3>2. Deadline(now, Scaled(AckDelay)) = now + Scaled(AckDelay)
      BY DeadlineIsSum DEF TInv
    <3>3. waited'[q] = 0
      BY <2>1, <2>3
    <3>4. pending'[k].dwTimeout + waited'[q] = now + Scaled(AckDelay)
      BY <1>1, <3>1, <3>2, <3>3, ScaledDelay
    <3>5. waited'[q] < Scaled(AckDelay) + 0
      BY <3>3, ScaledDelay
    <3> QED BY <2>1, <3>4, <3>5
  <2>4. CASE ~ IsDue(pending[i], now)
    <3>1. pending'[k] = pending[i] /\ waited'[q] = waited[q]
      BY <2>1, <2>2, <2>4, RetriedEntry
    <3>2. PICK d \in {AckDelay, Scaled(AckDelay)} : pending[i].dwTimeout + waited[q] = now + d
      BY <2>1 DEF TInv, DeadlinesAreTold
    <3>3. pending[i].dwTimeout \in Nat /\ pending[i].dwTimeout > now
      BY <1>1, <2>2, <2>4, EntryFields, PendingAssumption DEF IsDue
    <3>4. d \in Nat /\ d <= Scaled(AckDelay)
      BY ScaledDelay
    <3>5. waited[q] < Scaled(AckDelay) + 0
      BY <1>1, <2>2, <3>2, <3>3, <3>4, ScaledDelay
    <3> QED BY <2>1, <3>1, <3>2, <3>5
  <2> QED BY <2>3, <2>4
<1> QED BY <1>2, <1>3, <1>4 DEF TInv

LEMMA TimeTick ==
  ASSUME ClockSuffices, IInv, TInv, Tick
  PROVE  TInv'
<1>1. /\ pending' = pending /\ gaps' = gaps
      /\ ticks < MaxTicks /\ ticks' = ticks + 1 /\ idle' = idle + 1
      /\ now' = (now + 1) % DWORD_MOD
      /\ waited' = [p \in PacketNr |-> IF IsPending(pending, p) THEN waited[p] + 1
                                                              ELSE waited[p]]
  BY DEF Tick
<1>2. now \in Nat /\ ticks \in Nat /\ idle \in Nat
  BY DEF IInv, Types
<1>3. PICK t \in StartTime : now = t + ticks
  BY DEF TInv, ClockIsTold
<1>4. t \in Nat /\ t + MaxTicks + Scaled(AckDelay) < DWORD_MOD
  BY PendingListAssumption, PendingAssumption DEF ClockSuffices
<1>5. now' = now + 1
  <2>1. now + 1 < DWORD_MOD
    BY <1>1, <1>2, <1>3, <1>4, ScaledDelay, PendingAssumption, PendingListAssumption
  <2>2. Deadline(now, 1) = now + 1
    BY <1>2, <2>1, DeadlineType
  <2> QED BY <1>1, <2>2 DEF Deadline
<1>6. ClockIsTold'
  <2>1. now' = t + ticks'
    BY <1>1, <1>2, <1>3, <1>4, <1>5
  <2> QED BY <2>1 DEF ClockIsTold
<1>7. DelayIsKept'
  BY <1>1 DEF TInv, DelayIsKept
<1>8. DeadlinesAreTold'
  <2> SUFFICES ASSUME NEW i \in DOMAIN pending
               PROVE  LET w == waited'[pending[i].packet.id]
                      IN  /\ \E d \in {AckDelay, Scaled(AckDelay)} :
                                pending[i].dwTimeout + w = now' + d
                          /\ w < Scaled(AckDelay) + idle'
    BY <1>1 DEF DeadlinesAreTold
  <2>1. PICK q : q = pending[i].packet.id
    OBVIOUS
  <2>2. pending[i] \in Entry
    BY DEF IInv, Types
  <2>3. q \in PacketNr /\ pending[i].dwTimeout \in Nat
    BY <2>1, <2>2, EntryFields, PendingAssumption
  <2>4. waited'[q] = waited[q] + 1 /\ waited[q] \in Nat
    BY <1>1, <2>1, <2>3 DEF IInv, Types, IsPending
  <2>5. PICK d \in {AckDelay, Scaled(AckDelay)} : pending[i].dwTimeout + waited[q] = now + d
    BY <2>1 DEF TInv, DeadlinesAreTold
  <2>6. waited[q] < Scaled(AckDelay) + idle
    BY <2>1 DEF TInv, DeadlinesAreTold
  <2>7. d \in Nat
    BY ScaledDelay
  <2>8. pending[i].dwTimeout + waited'[q] = now' + d
    BY <1>2, <1>5, <2>3, <2>4, <2>5, <2>7
  <2>9. waited'[q] < Scaled(AckDelay) + idle'
    BY <1>1, <1>2, <2>4, <2>6, ScaledDelay
  <2> QED BY <2>1, <2>8, <2>9
<1> QED BY <1>6, <1>7, <1>8 DEF TInv

LEMMA TimeStep == ClockSuffices /\ IInv /\ TInv /\ [Next]_vars => TInv'
<1> SUFFICES ASSUME ClockSuffices, IInv, TInv, [Next]_vars PROVE TInv'
  OBVIOUS
<1>1. CASE UNCHANGED vars
  BY <1>1 DEF vars, TInv, ClockIsTold, DeadlinesAreTold, DelayIsKept
<1> QED BY <1>1, TimeSend, TimeAck, TimeMaintenance, TimeTick DEF Next

-----------------------------------------------------------------------------
(* The theorems.                                                           *)

\* The list never holds more than its limit and its counts and deadlines are
\* DWORDs of their range.
THEOREM TypeCorrect == Spec => []TypeOK
<1>1. IInv => TypeOK
  <2> SUFFICES ASSUME IInv PROVE TypeOK
    OBVIOUS
  <2>1. \A i \in DOMAIN pending : pending[i] \in Entry
    BY DEF IInv, Types
  <2> QED BY <2>1, EntryFields DEF IInv, Types, TypeOK
<1> QED BY <1>1, InvariantHolds, PTL

\* A listed packet has exactly the transmissions left that its budget allows.
THEOREM BudgetStaysExact == Spec => []BudgetIsExact
<1>1. IInv => BudgetIsExact
  BY DEF IInv
<1> QED BY <1>1, InvariantHolds, PTL

\* A packet is retried until it is answered or spent, unless the list was full.
THEOREM RetriedAsAsked == Spec => []RetriedUnlessCrowded
<1>1. IInv => RetriedUnlessCrowded
  BY DEF IInv
<1> QED BY <1>1, InvariantHolds, PTL

\* An acknowledged packet is never sent again.
THEOREM SilentAfterAck == Spec => NoResendAfterAck
<1>1. IInv /\ [Next]_vars =>
        [\A p \in PacketNr : p \in acked => tries'[p] = tries[p]]_vars
  <2> SUFFICES ASSUME IInv, Next, NEW q \in PacketNr, q \in acked
               PROVE  tries'[q] = tries[q]
    OBVIOUS
  <2>1. tries[q] > 0 /\ tries \in [PacketNr -> Nat]
    BY DEF IInv, AckedWasSent, Types
  <2>2. ASSUME NEW p \in PacketNr, SendSafePacket(p) PROVE tries'[q] = tries[q]
    BY <2>1, <2>2 DEF SendSafePacket
  <2>3. ASSUME NEW p \in PacketNr, ReceiveAck(p) PROVE tries'[q] = tries[q]
    BY <2>3 DEF ReceiveAck
  <2>4. CASE Maintenance
    <3>1. q \notin {packet.id : packet \in ReSentPackets(pending, now)}
      BY ReSentIDs DEF IInv, ListedIsOpen
    <3> QED BY <2>4, <3>1 DEF Maintenance
  <2>5. CASE Tick
    BY <2>5 DEF Tick
  <2> QED BY <2>2, <2>3, <2>4, <2>5 DEF Next
<1> QED BY <1>1, InvariantHolds, PTL DEF Spec, NoResendAfterAck

\* While the clock does not wrap, two transmissions of a packet are at least
\* dwAckDelay apart.
THEOREM DelaysAreKept == ASSUME ClockSuffices PROVE Spec => []DelayIsKept
<1>1. Init => TInv
  BY TimeInit
<1>2. IInv /\ TInv /\ [Next]_vars => TInv'
  BY TimeStep
<1>3. TInv => DelayIsKept
  BY DEF TInv
<1> QED BY <1>1, <1>2, <1>3, InvariantHolds, PTL DEF Spec

\* While the clock does not wrap, nobody waits as long as the scaled delay and
\* one period of the maintenance thread.
THEOREM RetriesArePunctual == ASSUME ClockSuffices PROVE Spec => []RetryIsPunctual
<1>1. Init => TInv
  BY TimeInit
<1>2. IInv /\ TInv /\ [Next]_vars => TInv'
  BY TimeStep
<1>3. IInv /\ TInv => RetryIsPunctual
  <2> SUFFICES ASSUME IInv, TInv, NEW p \in PacketNr, IsPending(pending, p)
               PROVE  waited[p] < Scaled(AckDelay) + MaintenancePeriod
    BY DEF RetryIsPunctual
  <2>1. waited[p] < Scaled(AckDelay) + idle /\ waited[p] \in Nat
    BY DEF IsPending, TInv, DeadlinesAreTold, IInv, Types
  <2>2. idle \in 0..MaintenancePeriod
    BY DEF IInv, Types
  <2> QED BY <2>1, <2>2, ScaledDelay, PendingListAssumption
<1> QED BY <1>1, <1>2, <1>3, InvariantHolds, PTL DEF Spec
=============================================================================
