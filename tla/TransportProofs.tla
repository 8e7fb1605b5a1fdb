--------------------------- MODULE TransportProofs ---------------------------
(***************************************************************************)
(* Proofs about two CommCenters, for every set of messages, every size of  *)
(* the rings and lists, every delay, loss and duplication.                 *)
(*                                                                         *)
(* What the transport promises holds while the identifiers, which wrap and *)
(* start again with every connection, do not mix up two messages.  The     *)
(* theorems say so: each names the property of the identifiers it needs.   *)
(***************************************************************************)
EXTENDS Transport, FiniteSetTheorems, WellFoundedInduction, TLAPS

(***************************************************************************)
(* Identifiers.                                                            *)
(***************************************************************************)
\* Division by the size of a group, as multiplication.
LEMMA Quotient ==
  ASSUME NEW b \in Nat \ {0}, NEW q \in Int, NEW r \in 0..(b - 1)
  PROVE  (b * q + r) % b = r /\ (b * q + r) \div b = q
OBVIOUS

LEMMA Division ==
  ASSUME NEW b \in Nat \ {0}, NEW a \in Int
  PROVE  /\ a \div b \in Int /\ a % b \in 0..(b - 1)
         /\ a = (b * (a \div b)) + (a % b)
OBVIOUS

\* A group starts below the identifiers of whole messages and fits there.
LEMMA GroupFits ==
  ASSUME NEW base \in 0..(NONFRAGMENTED_PACKETS_IDOFFSET - 1),
         base % MAX_FRAGMENTS_PER_PACKET = 0, NEW i \in PieceIndex
  PROVE  /\ base + i \in 0..(NONFRAGMENTED_PACKETS_IDOFFSET - 1)
         /\ (base + i) % MAX_FRAGMENTS_PER_PACKET = i
         /\ (base + i) \div MAX_FRAGMENTS_PER_PACKET = base \div MAX_FRAGMENTS_PER_PACKET
<1> DEFINE b == MAX_FRAGMENTS_PER_PACKET
           n == NONFRAGMENTED_PACKETS_IDOFFSET
           q == base \div b
           p == n \div b
<1>1. b \in Nat \ {0} /\ n \in Nat /\ n % b = 0 /\ i \in 0..(b - 1)
  BY PacketIDsAssumption, TransportAssumption DEF PieceIndex
<1>2. base \in Int /\ base < n /\ base >= 0 /\ base % b = 0
  BY <1>1
<1> HIDE DEF b, n
<1>3. q \in Int /\ p \in Int /\ base = b * q /\ n = b * p
  BY <1>1, <1>2, Division
<1> HIDE DEF p, q
<1>4. q + 1 <= p
  BY <1>1, <1>2, <1>3
<1>5. b * (q + 1) <= b * p
  BY <1>1, <1>3, <1>4
<1>6. b * (q + 1) = b * q + b
  BY <1>1, <1>3
<1>7. base + i < n
  BY <1>1, <1>2, <1>3, <1>5, <1>6
<1>8. (b * q + i) % b = i /\ (b * q + i) \div b = q
  BY <1>1, <1>3, Quotient
<1> QED BY <1>1, <1>2, <1>3, <1>7, <1>8 DEF b, n, q

\* The counter of groups stays at the start of a group.
LEMMA NextGroup ==
  ASSUME NEW last \in 0..(NONFRAGMENTED_PACKETS_IDOFFSET - 1),
         last % MAX_FRAGMENTS_PER_PACKET = 0
  PROVE  /\ GetFragmentedPacketID(last) \in 0..(NONFRAGMENTED_PACKETS_IDOFFSET - 1)
         /\ GetFragmentedPacketID(last) % MAX_FRAGMENTS_PER_PACKET = 0
<1> DEFINE b == MAX_FRAGMENTS_PER_PACKET
           q == last \div b
<1>1. b \in Nat \ {0} /\ NONFRAGMENTED_PACKETS_IDOFFSET \in Nat \ {0} /\ last \in Int
  BY PacketIDsAssumption
<1>2. q \in Int /\ last = b * q
  BY <1>1, Division
<1>3. 0 % b = 0
  BY <1>1
<1>4. (last + b) % b = 0
  <2> HIDE DEF b, q
  <2>1. last + b = b * (q + 1) + 0
    BY <1>1, <1>2
  <2>2. (b * (q + 1) + 0) % b = 0
    BY <1>1, <1>2, Quotient
  <2> QED BY <2>1, <2>2
<1> QED BY <1>1, <1>3, <1>4 DEF GetFragmentedPacketID

\* Registering adds one identifier to those the ring remembers.
LEMMA RegisteringAddsOne ==
  ASSUME NEW w \in Window, NEW id \in PacketID
  PROVE  /\ RegisterReceivedPacketID(w, id) \in Window
         /\ \A x : AlreadyReceivedPacket(RegisterReceivedPacketID(w, id), x) =>
                     x = id \/ AlreadyReceivedPacket(w, x)
BY PacketIDsAssumption
DEF Window, Slot, RegisterReceivedPacketID, AlreadyReceivedPacket, NextSlot

\* An empty ring remembers nothing.
LEMMA EmptyRemembersNothing ==
  /\ EmptyWindow \in Window
  /\ \A id \in PacketID : ~ AlreadyReceivedPacket(EmptyWindow, id)
BY PacketIDsAssumption
DEF EmptyWindow, Window, Slot, PacketID, NoID, AlreadyReceivedPacket, NextSlot

-----------------------------------------------------------------------------
(***************************************************************************)
(* One fragmented message.                                                 *)
(***************************************************************************)
\* The index below which the pieces of a list count.
Bound(fl) == IF fl.nOfPieces = 0 THEN MAX_FRAGMENTS_PER_PACKET ELSE fl.nOfPieces

\* receivedPieces is exact, as a fact about any list.
Exact(fl) == fl.receivedPieces = Cardinality(HeldBelow(fl, Bound(fl)))

\* The index of a piece is a slot of fragList.
LEMMA PieceOfType ==
  ASSUME NEW p \in Piece
  PROVE  PieceOf(p) \in PieceIndex
BY PacketIDsAssumption DEF Piece, PieceOf, PieceIndex

\* The slots are finitely many, and so are those that hold a piece.
LEMMA HeldFinite ==
  ASSUME NEW fl, NEW n
  PROVE  /\ IsFiniteSet(HeldBelow(fl, n))
         /\ Cardinality(HeldBelow(fl, n)) \in 0..MAX_FRAGMENTS_PER_PACKET
<1>1. /\ IsFiniteSet(PieceIndex)
      /\ Cardinality(PieceIndex) = MAX_FRAGMENTS_PER_PACKET
  BY FS_Interval, PacketIDsAssumption DEF PieceIndex
<1>2. HeldBelow(fl, n) \in SUBSET PieceIndex
  BY DEF HeldBelow
<1>3. /\ IsFiniteSet(HeldBelow(fl, n))
      /\ Cardinality(HeldBelow(fl, n)) <= MAX_FRAGMENTS_PER_PACKET
  BY <1>1, <1>2, FS_Subset
<1>4. Cardinality(HeldBelow(fl, n)) \in Nat
  BY <1>3, FS_CardinalityType
<1> QED BY <1>3, <1>4, PacketIDsAssumption

\* What StorePiece writes, field by field.
LEMMA StorePieceFields ==
  ASSUME NEW fl \in List, NEW p \in Piece
  PROVE  LET k == PieceOf(p)
             learns == fl.nOfPieces = 0 /\ p.lastFrag
             nl == StorePiece(fl, p)
         IN  /\ nl.id = fl.id
             /\ nl.fragList = [fl.fragList EXCEPT ![k] = p]
             /\ nl.nOfPieces = IF learns THEN k + 1 ELSE fl.nOfPieces
             /\ nl.receivedPieces = IF learns THEN 1 + Cardinality(HeldBelow(fl, k))
                                    ELSE fl.receivedPieces + 1
             /\ nl.timeout = FRAGMENTATION_MAX_WAIT
             /\ nl = [id |-> nl.id, fragList |-> nl.fragList,
                      receivedPieces |-> nl.receivedPieces,
                      nOfPieces |-> nl.nOfPieces, timeout |-> nl.timeout]
<1> DEFINE k  == PieceOf(p)
           n  == fl.nOfPieces
           nl == StorePiece(fl, p)
           learns == n = 0 /\ p.lastFrag
           count == 1 + Cardinality(HeldBelow(fl, k))
<1>1. nl = [fl EXCEPT !.fragList[k] = p,
                      !.nOfPieces = IF learns THEN k + 1 ELSE @,
                      !.receivedPieces = IF learns THEN count ELSE @ + 1,
                      !.timeout = FRAGMENTATION_MAX_WAIT]
  BY Zenon DEF StorePiece
<1> HIDE DEF count, learns, k, nl
<1>2. /\ nl.id = fl.id
      /\ nl.fragList = [fl.fragList EXCEPT ![k] = p]
      /\ nl.nOfPieces = IF learns THEN k + 1 ELSE n
      /\ nl.receivedPieces = IF learns THEN count ELSE fl.receivedPieces + 1
      /\ nl.timeout = FRAGMENTATION_MAX_WAIT
      /\ nl = [id |-> nl.id, fragList |-> nl.fragList,
               receivedPieces |-> nl.receivedPieces,
               nOfPieces |-> nl.nOfPieces, timeout |-> nl.timeout]
  BY <1>1 DEF List
<1> QED BY <1>2 DEF count, learns, k, nl

\* Storing a wanted piece keeps the list a FragmentsList and its count exact.
LEMMA StorePieceExact ==
  ASSUME NEW fl \in List, NEW p \in Piece, Wanted(fl, p), Exact(fl)
  PROVE  StorePiece(fl, p) \in List /\ Exact(StorePiece(fl, p))
<1> DEFINE k  == PieceOf(p)
           n  == fl.nOfPieces
           nl == StorePiece(fl, p)
           learns == n = 0 /\ p.lastFrag
<1> USE PacketIDsAssumption
<1>1. k \in PieceIndex /\ k \in 0..(MAX_FRAGMENTS_PER_PACKET - 1)
  BY PieceOfType DEF PieceIndex
<1>2. /\ nl.id = fl.id
      /\ nl.fragList = [fl.fragList EXCEPT ![k] = p]
      /\ nl.nOfPieces = IF learns THEN k + 1 ELSE n
      /\ nl.receivedPieces = IF learns THEN 1 + Cardinality(HeldBelow(fl, k))
                             ELSE fl.receivedPieces + 1
      /\ nl.timeout = FRAGMENTATION_MAX_WAIT
      /\ nl = [id |-> nl.id, fragList |-> nl.fragList,
               receivedPieces |-> nl.receivedPieces,
               nOfPieces |-> nl.nOfPieces, timeout |-> nl.timeout]
  BY StorePieceFields
<1>3. /\ p # NoPiece
      /\ fl.fragList[k] = NoPiece
      /\ \A i \in PieceIndex : nl.fragList[i] = IF i = k THEN p ELSE fl.fragList[i]
  BY <1>1, <1>2, FragmentsAssumption DEF Wanted, List
<1>4. ASSUME NEW b \in Nat, k < b
      PROVE  Cardinality(HeldBelow(nl, b)) = Cardinality(HeldBelow(fl, b)) + 1
  <2>1. HeldBelow(nl, b) = HeldBelow(fl, b) \cup {k}
    BY <1>1, <1>3, <1>4 DEF HeldBelow
  <2>2. k \notin HeldBelow(fl, b)
    BY <1>3 DEF HeldBelow
  <2> HIDE DEF nl, k
  <2> QED BY <2>1, <2>2, HeldFinite, FS_AddElement
<1>5. HeldBelow(fl, k + 1) = HeldBelow(fl, k)
  BY <1>1, <1>3 DEF HeldBelow, PieceIndex
<1>6. Exact(nl)
  <2>1. CASE learns
    <3>1. Bound(nl) = k + 1
      BY <1>1, <1>2, <2>1 DEF Bound
    <3>2. nl.receivedPieces = 1 + Cardinality(HeldBelow(fl, k))
      BY <1>2, <2>1
    <3>3. Cardinality(HeldBelow(nl, k + 1)) = Cardinality(HeldBelow(fl, k + 1)) + 1
      BY <1>1, <1>4
    <3>4. Cardinality(HeldBelow(fl, k)) \in Nat
      BY HeldFinite
    <3> HIDE DEF nl, k
    <3> QED BY <1>5, <3>1, <3>2, <3>3, <3>4 DEF Exact
  <2>2. CASE ~ learns
    <3>1. Bound(nl) = Bound(fl)
      BY <1>2, <2>2 DEF Bound
    <3>2. Bound(fl) \in Nat /\ k < Bound(fl)
      BY <1>1 DEF Bound, Wanted, List
    <3>3. nl.receivedPieces = fl.receivedPieces + 1
      BY <1>2, <2>2
    <3>4. Cardinality(HeldBelow(nl, Bound(fl))) =
            Cardinality(HeldBelow(fl, Bound(fl))) + 1
      BY <1>4, <3>2
    <3> HIDE DEF nl, k
    <3> QED BY <3>1, <3>3, <3>4 DEF Exact
  <2> QED BY <2>1, <2>2
<1>7. nl \in List
  <2>1. nl.receivedPieces \in 0..MAX_FRAGMENTS_PER_PACKET
    BY <1>6, HeldFinite DEF Exact
  <2>2. nl.nOfPieces \in 0..MAX_FRAGMENTS_PER_PACKET
    BY <1>1, <1>2 DEF List
  <2>3. nl.fragList \in [PieceIndex -> Piece \cup {NoPiece}]
    BY <1>1, <1>2 DEF List
  <2>4. nl.timeout \in 0..FRAGMENTATION_MAX_WAIT /\ nl.id \in Group
    BY <1>2, FragmentsAssumption DEF List
  <2> HIDE DEF nl
  <2> QED BY <1>2, <2>1, <2>2, <2>3, <2>4 DEF List
<1> QED BY <1>6, <1>7

\* Counting is enough: when the count reaches the size, no piece is missing,
\* and when no piece is missing, the count has reached the size.
LEMMA CountDecides ==
  ASSUME NEW fl \in List, Exact(fl), fl.nOfPieces > 1
  PROVE  Complete(fl) <=> HeldBelow(fl, fl.nOfPieces) = 0..(fl.nOfPieces - 1)
<1> DEFINE n == fl.nOfPieces
           all == 0..(n - 1)
<1> USE PacketIDsAssumption
<1>1. n \in Nat /\ n <= MAX_FRAGMENTS_PER_PACKET /\ Bound(fl) = n
  BY DEF List, Bound
<1>2. IsFiniteSet(all) /\ Cardinality(all) = n
  BY <1>1, FS_Interval
<1>3. HeldBelow(fl, n) \in SUBSET all
  BY <1>1 DEF HeldBelow, PieceIndex
<1>4. Cardinality(all) = Cardinality(HeldBelow(fl, n)) => all = HeldBelow(fl, n)
  BY <1>2, <1>3, FS_Subset
<1> QED BY <1>1, <1>2, <1>4 DEF Complete, Exact

\* Every piece sits in the slot its identifier names, in the list of its group,
\* and the size was told by the piece marked as the last.
InPlace(fl) ==
  \A i \in PieceIndex : fl.fragList[i] # NoPiece =>
    PieceOf(fl.fragList[i]) = i /\ GroupOf(fl.fragList[i]) = fl.id

SizeIsTold(fl) ==
  fl.nOfPieces > 0 =>
    /\ fl.fragList[fl.nOfPieces - 1] # NoPiece
    /\ fl.fragList[fl.nOfPieces - 1].lastFrag

\* A list AddPiece may have made.
Sound(fl) == fl \in List /\ Exact(fl) /\ InPlace(fl) /\ SizeIsTold(fl)

\* GroupOf of a piece is a group.
LEMMA GroupOfType ==
  ASSUME NEW p \in Piece
  PROVE  GroupOf(p) \in Group
BY DEF Piece, GroupOf, Group

LEMMA NewListSound ==
  ASSUME NEW g \in Group
  PROVE  Sound(NewList(g)) /\ NewList(g).nOfPieces = 0 /\ NewList(g).id = g
<1> USE PacketIDsAssumption, FragmentsAssumption
<1>1. NewList(g) \in List
  BY DEF NewList, List
<1>2. HeldBelow(NewList(g), MAX_FRAGMENTS_PER_PACKET) = {}
  BY DEF NewList, HeldBelow
<1>3. Exact(NewList(g))
  BY <1>2, FS_EmptySet DEF Exact, Bound, NewList
<1> QED BY <1>1, <1>3 DEF Sound, InPlace, SizeIsTold, NewList

\* Storing a wanted piece keeps a list sound.
LEMMA StorePieceSound ==
  ASSUME NEW fl, Sound(fl), NEW p \in Piece, Wanted(fl, p), GroupOf(p) = fl.id
  PROVE  Sound(StorePiece(fl, p)) /\ StorePiece(fl, p).id = fl.id
<1> DEFINE k == PieceOf(p)
           nl == StorePiece(fl, p)
<1> USE PacketIDsAssumption
<1>0. fl \in List /\ Exact(fl) /\ k \in PieceIndex
  BY PieceOfType DEF Sound
<1>1. nl \in List /\ Exact(nl)
  BY <1>0, StorePieceExact
<1>2. /\ nl.fragList = [fl.fragList EXCEPT ![k] = p]
      /\ nl.id = fl.id
      /\ nl.nOfPieces = IF fl.nOfPieces = 0 /\ p.lastFrag THEN k + 1 ELSE fl.nOfPieces
  BY <1>0, StorePieceFields
<1>3. InPlace(nl)
  BY <1>0, <1>2 DEF InPlace, Sound, List
<1>4. SizeIsTold(nl)
  <2>1. p # NoPiece /\ fl.nOfPieces \in 0..MAX_FRAGMENTS_PER_PACKET
    BY <1>0, FragmentsAssumption DEF List
  <2>2. CASE fl.nOfPieces = 0 /\ p.lastFrag
    BY <1>0, <1>2, <2>1, <2>2 DEF SizeIsTold, List, PieceIndex
  <2>3. CASE fl.nOfPieces = 0 /\ ~ p.lastFrag
    BY <1>2, <2>3 DEF SizeIsTold
  <2>4. CASE fl.nOfPieces > 0
    \* The slot of the last piece is taken: p went elsewhere.
    <3>1. fl.fragList[fl.nOfPieces - 1] # NoPiece /\ fl.fragList[fl.nOfPieces - 1].lastFrag
      BY <2>4 DEF Sound, SizeIsTold
    <3>2. k # fl.nOfPieces - 1
      BY <3>1 DEF Wanted
    <3> QED BY <1>0, <1>2, <2>1, <2>4, <3>1, <3>2 DEF SizeIsTold, List, PieceIndex
  <2> QED BY <2>1, <2>2, <2>3, <2>4
<1> QED BY <1>1, <1>2, <1>3, <1>4 DEF Sound

\* A complete list holds every one of its pieces.
LEMMA CompleteHoldsAll ==
  ASSUME NEW fl, Sound(fl), Complete(fl), NEW k \in 0..(fl.nOfPieces - 1)
  PROVE  k \in PieceIndex /\ fl.fragList[k] \in Piece
<1>1. fl \in List /\ Exact(fl) /\ fl.nOfPieces > 1
  BY DEF Sound, Complete
<1>2. k \in HeldBelow(fl, fl.nOfPieces)
  BY <1>1, CountDecides
<1> QED BY <1>1, <1>2 DEF HeldBelow, List

\* The pieces a list, and all lists of a connection, hold.
HeldBy(fl) == {fl.fragList[k] : k \in PieceIndex} \ {NoPiece}
Held(fps) == UNION {HeldBy(fps[i]) : i \in DOMAIN fps}

\* The lists of a connection are sound, and none is empty.
AllSound(fps) ==
  fps \in Seq(List) /\ \A i \in DOMAIN fps : Sound(fps[i]) /\ HeldBy(fps[i]) # {}

\* A list that is given a piece of its group holds what it held, and that piece
\* if it was wanted.
LEMMA AddPieceHolds ==
  ASSUME NEW fl, Sound(fl), NEW p \in Piece, GroupOf(p) = fl.id
  PROVE  /\ Sound(AddPiece(fl, p)) /\ AddPiece(fl, p) \in List
         /\ HeldBy(AddPiece(fl, p)) \subseteq HeldBy(fl) \cup {p}
         /\ HeldBy(fl) \subseteq HeldBy(AddPiece(fl, p))
         /\ Wanted(fl, p) => AddPiece(fl, p).fragList[PieceOf(p)] = p
         /\ Wanted(fl, p) => p \in HeldBy(AddPiece(fl, p))
<1>1. CASE Wanted(fl, p)
  <2>1. fl \in List /\ PieceOf(p) \in PieceIndex
    BY PieceOfType DEF Sound
  <2>2. AddPiece(fl, p) = StorePiece(fl, p) /\ Sound(StorePiece(fl, p))
    BY <1>1, StorePieceSound DEF AddPiece
  <2>3. StorePiece(fl, p).fragList = [fl.fragList EXCEPT ![PieceOf(p)] = p]
    BY <2>1, StorePieceFields
  <2>4. PICK nl : nl = AddPiece(fl, p)
    OBVIOUS
  <2>5. Sound(nl) /\ nl.fragList = [fl.fragList EXCEPT ![PieceOf(p)] = p]
    BY <2>2, <2>3, <2>4
  <2>6. \A k \in PieceIndex :
          nl.fragList[k] = IF k = PieceOf(p) THEN p ELSE fl.fragList[k]
    BY <2>1, <2>5 DEF List
  <2>7. fl.fragList[PieceOf(p)] = NoPiece /\ p # NoPiece
    BY <1>1, FragmentsAssumption DEF Wanted
  <2>8. /\ HeldBy(nl) \subseteq HeldBy(fl) \cup {p} /\ HeldBy(fl) \subseteq HeldBy(nl)
        /\ p \in HeldBy(nl)
    BY <2>1, <2>6, <2>7 DEF HeldBy
  <2> QED BY <2>1, <2>4, <2>5, <2>6, <2>8 DEF Sound
<1>2. CASE ~ Wanted(fl, p)
  BY <1>2 DEF AddPiece, Sound
<1> QED BY <1>1, <1>2

-----------------------------------------------------------------------------
(***************************************************************************)
(* The lists of a connection.                                              *)
(***************************************************************************)
LEMMA LeastOne ==
  ASSUME NEW T, T \subseteq Nat, T # {}
  PROVE  \E x \in T : \A y \in T : x <= y
<1>1. PICK x \in T : \A y \in T : ~ (<<y, x>> \in OpToRel(<, Nat))
  BY NatLessThanWellFounded, WFMin
<1>2. \A y \in T : ~ (y < x)
  BY <1>1 DEF OpToRel
<1> QED BY <1>2

\* The interval from 1 is finite.
LEMMA UpTo ==
  ASSUME NEW n \in Nat
  PROVE  IsFiniteSet(1..n) /\ Cardinality(1..n) = n
<1>1. 1 \in Int /\ n \in Int
  OBVIOUS
<1>2. IsFiniteSet(1..n) /\ Cardinality(1..n) = IF 1 > n THEN 0 ELSE n - 1 + 1
  BY <1>1, FS_Interval
<1> QED BY <1>2

\* A loop that erases leaves no more than there was, and nothing new.
LEMMA ErasingAddsNothing ==
  ASSUME NEW S, NEW list \in Seq(S), NEW kept, kept \subseteq DOMAIN list,
         NEW left \in OnlyAt(list, kept)
  PROVE  /\ left \in Seq(S) /\ Len(left) <= Len(list)
         /\ \A k \in DOMAIN left : \E i \in kept : left[k] = list[i]
<1>1. PICK n \in Nat : n = Len(list) /\ DOMAIN list = 1..n
  OBVIOUS
<1>2. IsFiniteSet(kept) /\ Cardinality(kept) <= n /\ Cardinality(kept) \in Nat
  BY <1>1, UpTo, FS_Subset, FS_CardinalityType
<1>3. PICK m \in Nat : m = Cardinality(kept) /\ m <= n
  BY <1>2
<1>4. PICK at \in [1..m -> kept] : left = [k \in 1..m |-> list[at[k]]]
  BY <1>3 DEF OnlyAt
<1>5. \A k \in 1..m : at[k] \in kept /\ left[k] = list[at[k]] /\ list[at[k]] \in S
  BY <1>1, <1>4
<1> QED BY <1>1, <1>3, <1>4, <1>5

\* A list of the group is found, and taken out.
LEMMA FirstOfFound ==
  ASSUME NEW fps \in Seq(List), NEW g, IsKnown(fps, g)
  PROVE  FirstOf(fps, g) \in DOMAIN fps /\ fps[FirstOf(fps, g)].id = g
<1> DEFINE T == {i \in DOMAIN fps : fps[i].id = g}
<1>1. T \subseteq Nat /\ T # {}
  BY DEF IsKnown
<1>2. PICK x \in T : \A y \in T : x <= y
  BY <1>1, LeastOne
<1> QED BY <1>2 DEF FirstOf

LEMMA FirstPendingFound ==
  ASSUME NEW S, NEW q \in Seq(S), NEW id, IsPending(q, id)
  PROVE  FirstPending(q, id) \in DOMAIN q /\ q[FirstPending(q, id)].packet.id = id
<1> DEFINE T == {i \in DOMAIN q : q[i].packet.id = id}
<1>1. T \subseteq Nat /\ T # {}
  BY DEF IsPending
<1>2. PICK x \in T : \A y \in T : x <= y
  BY <1>1, LeastOne
<1> QED BY <1>2 DEF FirstPending

LEMMA TakenOut ==
  ASSUME NEW S, NEW list \in Seq(S), NEW i \in DOMAIN list, NEW new,
         new = [k \in 1..(Len(list) - 1) |-> IF k < i THEN list[k] ELSE list[k + 1]]
  PROVE  /\ new \in Seq(S) /\ Len(new) <= Len(list)
         /\ \A k \in DOMAIN new : \E j \in DOMAIN list : new[k] = list[j]
<1>1. PICK n \in Nat : n = Len(list) /\ DOMAIN list = 1..n /\ n - 1 \in Nat
  OBVIOUS
<1>2. \A k \in 1..(n - 1) : k \in DOMAIN list /\ k + 1 \in DOMAIN list
  BY <1>1
<1>3. \A k \in 1..(n - 1) : \E j \in DOMAIN list : new[k] = list[j]
  BY <1>1, <1>2
<1>4. DOMAIN new = 1..(n - 1) /\ \A k \in 1..(n - 1) : new[k] \in S
  BY <1>1, <1>3
<1> QED BY <1>1, <1>3, <1>4

\* What RegisterFragment leaves holds what was held and the piece, and what it
\* completes is built from those.
LEMMA FragmentRegistered ==
  ASSUME NEW fps, AllSound(fps), NEW p \in Piece, NEW r, r = RegisterFragment(fps, p)
  PROVE  /\ AllSound(r.packets)
         /\ Held(r.packets) \subseteq Held(fps) \cup {p}
         /\ r.completed # <<>> =>
              \E fl : /\ Sound(fl) /\ Complete(fl)
                      /\ HeldBy(fl) \subseteq Held(fps) \cup {p}
                      /\ fl.fragList[PieceOf(p)] = p /\ PieceOf(p) < fl.nOfPieces
                      /\ r.completed = BuildCompletedPacket(fl)
<1> DEFINE g == GroupOf(p)
<1>0. g \in Group /\ fps \in Seq(List) /\ PieceOf(p) \in PieceIndex
  BY GroupOfType, PieceOfType DEF AllSound
<1>1. CASE ~ IsKnown(fps, g)
  <2>1. PICK new : new = AddPiece(NewList(g), p)
    OBVIOUS
  <2>2. r.packets = Append(MakeRoom(fps), new) /\ r.completed = <<>>
    BY <1>1, <2>1 DEF RegisterFragment, RegisterFirstPiece
  <2>3. Sound(NewList(g)) /\ NewList(g).id = g
    BY <1>0, NewListSound
  <2>4. HeldBy(NewList(g)) = {}
    BY DEF NewList, HeldBy
  <2>9. Wanted(NewList(g), p)
    BY <1>0 DEF Wanted, NewList
  <2>5. Sound(new) /\ new \in List /\ HeldBy(new) \subseteq {p} /\ p \in HeldBy(new)
    BY <2>1, <2>3, <2>4, <2>9, AddPieceHolds
  <2>6. PICK q : q = MakeRoom(fps)
    OBVIOUS
  <2>7. q \in Seq(List) /\ \A i \in DOMAIN q : \E j \in DOMAIN fps : q[i] = fps[j]
    <3>1. CASE Len(fps) >= MAX_INCOMPLETE_FRAGMENTED_LIST
      <4>1. Len(fps) > 0 /\ q = Tail(fps)
        BY <1>0, <2>6, <3>1, FragmentsAssumption DEF MakeRoom
      <4>2. /\ q \in Seq(List)
            /\ \A i \in DOMAIN q : i + 1 \in DOMAIN fps /\ q[i] = fps[i + 1]
        BY <1>0, <4>1
      <4> QED BY <4>2
    <3>2. CASE ~ (Len(fps) >= MAX_INCOMPLETE_FRAGMENTED_LIST)
      BY <1>0, <2>6, <3>2 DEF MakeRoom
    <3> QED BY <3>1, <3>2
  <2>8. /\ r.packets \in Seq(List)
        /\ \A i \in DOMAIN r.packets :
             r.packets[i] = new \/ \E j \in DOMAIN fps : r.packets[i] = fps[j]
    <3>1. r.packets = Append(q, new)
      BY <2>2, <2>6
    <3>2. PICK n \in Nat : n = Len(q) /\ DOMAIN q = 1..n
      BY <2>7
    <3>3. /\ Append(q, new) \in Seq(List) /\ DOMAIN Append(q, new) = 1..(n + 1)
          /\ \A i \in 1..n : Append(q, new)[i] = q[i]
          /\ Append(q, new)[n + 1] = new
      BY <2>5, <2>7, <3>2
    <3>4. \A i \in 1..(n + 1) : i \in 1..n \/ i = n + 1
      BY <3>2
    <3> QED BY <2>7, <3>1, <3>2, <3>3, <3>4
  <2> QED BY <2>2, <2>5, <2>8 DEF AllSound, Held
<1>2. CASE IsKnown(fps, g)
  <2>1. PICK i \in DOMAIN fps : i = FirstOf(fps, g) /\ fps[i].id = g
    BY <1>0, <1>2, FirstOfFound
  <2>2. PICK fl : fl = AddPiece(fps[i], p)
    OBVIOUS
  <2>3. Sound(fps[i]) /\ HeldBy(fps[i]) \subseteq Held(fps)
    BY <2>1 DEF AllSound, Held
  <2>4. /\ Sound(fl) /\ fl \in List
        /\ HeldBy(fl) \subseteq Held(fps) \cup {p} /\ HeldBy(fps[i]) \subseteq HeldBy(fl)
        /\ Wanted(fps[i], p) => fl.fragList[PieceOf(p)] = p
    BY <2>1, <2>2, <2>3, AddPieceHolds
  <2>5. CASE Wanted(fps[i], p) /\ Complete(fl)
    <3>1. /\ r.packets = Without(fps, i)
          /\ r.completed = BuildCompletedPacket(fl)
      BY <1>2, <2>1, <2>2, <2>5 DEF RegisterFragment, RegisterNextPiece
    <3>2. PICK q : q = Without(fps, i)
      OBVIOUS
    <3>3. /\ q \in Seq(List)
          /\ \A k \in DOMAIN q : \E j \in DOMAIN fps : q[k] = fps[j]
      BY <1>0, <2>1, <3>2, TakenOut DEF Without
    <3>4. PieceOf(p) < fl.nOfPieces
      <4>1. fps[i] \in List /\ fl = StorePiece(fps[i], p)
        BY <2>2, <2>3, <2>5 DEF AddPiece, Sound
      <4>2. fl.nOfPieces = IF fps[i].nOfPieces = 0 /\ p.lastFrag
                           THEN PieceOf(p) + 1 ELSE fps[i].nOfPieces
        BY <4>1, StorePieceFields
      <4>3. fl.nOfPieces > 1
        BY <2>5 DEF Complete
      <4>4. PieceOf(p) \in Int
        BY <1>0 DEF PieceIndex
      <4> QED BY <2>5, <4>2, <4>3, <4>4 DEF Wanted
    <3> QED BY <2>4, <2>5, <3>1, <3>2, <3>3, <3>4 DEF AllSound, Held
  <2>6. CASE ~ (Wanted(fps[i], p) /\ Complete(fl))
    <3>1. r.packets = [fps EXCEPT ![i] = fl] /\ r.completed = <<>>
      BY <1>2, <2>1, <2>2, <2>6 DEF RegisterFragment, RegisterNextPiece
    <3>2. /\ r.packets \in Seq(List)
          /\ DOMAIN r.packets = DOMAIN fps
          /\ \A k \in DOMAIN fps : r.packets[k] = IF k = i THEN fl ELSE fps[k]
      BY <1>0, <2>1, <2>4, <3>1
    <3>3. \A k \in DOMAIN fps : Sound(r.packets[k]) /\ HeldBy(r.packets[k]) # {}
      BY <2>4, <3>2 DEF AllSound
    <3>4. \A k \in DOMAIN fps : HeldBy(r.packets[k]) \subseteq Held(fps) \cup {p}
      BY <2>4, <3>2 DEF Held
    <3> QED BY <3>1, <3>2, <3>3, <3>4 DEF AllSound, Held
  <2> QED BY <2>5, <2>6
<1> QED BY <1>1, <1>2

\* The maintenance keeps some of the lists as they are.
LEMMA StaleOnesGo ==
  ASSUME NEW fps, AllSound(fps), NEW left \in VerifyTimedoutFragments(fps)
  PROVE  AllSound(left) /\ Held(left) \subseteq Held(fps)
<1>1. PICK kept : kept = {i \in DOMAIN fps : fps[i].timeout > 0}
  OBVIOUS
<1>2. left \in OnlyAt(fps, kept) /\ kept \subseteq DOMAIN fps /\ fps \in Seq(List)
  BY <1>1 DEF VerifyTimedoutFragments, AllSound
<1>3. left \in Seq(List) /\ \A k \in DOMAIN left : \E i \in kept : left[k] = fps[i]
  BY <1>2, ErasingAddsNothing
<1> QED BY <1>2, <1>3 DEF AllSound, Held

\* Time changes nothing but the time left.
LEMMA AgeingHolds ==
  ASSUME NEW fps, AllSound(fps)
  PROVE  AllSound(AgeFragments(fps)) /\ Held(AgeFragments(fps)) = Held(fps)
<1>1. PICK new : new = AgeFragments(fps)
  OBVIOUS
<1>2. ASSUME NEW i \in DOMAIN fps
      PROVE  Sound(new[i]) /\ new[i] \in List /\ HeldBy(new[i]) = HeldBy(fps[i])
  <2>1. PICK fl, nl : fl = fps[i] /\ nl = new[i]
    OBVIOUS
  <2>2. Sound(fl) /\ fl \in List
    BY <2>1 DEF AllSound, Sound
  <2>3. nl = [fl EXCEPT !.timeout = IF @ > 0 THEN @ - 1 ELSE 0]
    BY <1>1, <2>1 DEF AgeFragments
  <2>4. /\ nl \in List /\ nl.id = fl.id /\ nl.fragList = fl.fragList
        /\ nl.receivedPieces = fl.receivedPieces /\ nl.nOfPieces = fl.nOfPieces
    BY <2>2, <2>3, FragmentsAssumption DEF List
  <2>5. Bound(nl) = Bound(fl) /\ HeldBelow(nl, Bound(fl)) = HeldBelow(fl, Bound(fl))
    BY <2>4 DEF Bound, HeldBelow
  <2>6. Exact(nl) /\ InPlace(nl) /\ SizeIsTold(nl)
    BY <2>2, <2>4, <2>5 DEF Sound, Exact, InPlace, SizeIsTold
  <2>7. Sound(nl) /\ HeldBy(nl) = HeldBy(fl)
    BY <2>4, <2>6 DEF Sound, HeldBy
  <2> QED BY <2>1, <2>4, <2>7
<1>3. DOMAIN new = DOMAIN fps /\ fps \in Seq(List) /\ new \in Seq(List)
  BY <1>1, <1>2 DEF AgeFragments, AllSound
<1> QED BY <1>1, <1>2, <1>3 DEF AllSound, Held

-----------------------------------------------------------------------------
(***************************************************************************)
(* Types.                                                                  *)
(***************************************************************************)
\* What is sent to endpoint o, and what a connection to o keeps.
PacketTo(o) ==
  [kind : {"data"}, to : {o}, id : PacketID, safe : BOOLEAN, lastFrag : BOOLEAN,
   body : Body, dwAckDelay : Int, dwAckCount : Int]

AckTo(o) == [kind : {"ack"}, to : {o}, id : PacketID]

Entry(o) ==
  [packet : PacketTo(o), dwAckCount : Int, dwAckDelay : Int, dwTimeout : Int]

GroupStart ==
  {id \in 0..(NONFRAGMENTED_PACKETS_IDOFFSET - 1) : id % MAX_FRAGMENTS_PER_PACKET = 0}

ConnectionTo(o) ==
  [fragmentedID : GroupStart, unfragmentedID : PacketID, window : Window,
   pending : Seq(Entry(o)), fragments : Seq(List), idle : 0..PACKET_BACKLOG_TIMEOUT]

Good(c, o) ==
  /\ c \in ConnectionTo(o)
  /\ Len(c.pending) <= MAX_PACKET_PENDING_LIST
  /\ AllSound(c.fragments)

GoodConnections ==
  /\ connection = [e \in Endpoint |-> connection[e]]
  /\ \A e \in Endpoint : connection[e] # NoConnection => Good(connection[e], Other(e))

GoodQueues ==
  /\ preSend = [e \in Endpoint |-> preSend[e]]
  /\ \A e \in Endpoint : preSend[e] \in Seq(PacketTo(Other(e)))

GoodNet ==
  /\ net = [d \in DOMAIN net |-> net[d]]
  /\ \A d \in DOMAIN net : /\ net[d] \in 0..MaxTransit
                           /\ d.to \in Endpoint
                           /\ d \in PacketTo(d.to) \cup AckTo(d.to)

TInv == GoodConnections /\ GoodQueues /\ GoodNet

\* There are two endpoints.
LEMMA TwoEndpoints ==
  ASSUME NEW e \in Endpoint
  PROVE  /\ Other(e) \in Endpoint /\ Other(e) # e /\ Other(Other(e)) = e
         /\ \A x \in Endpoint : x = e \/ x = Other(e)
<1>1. PICK a \in Endpoint, b \in Endpoint : a # b /\ Endpoint = {a, b}
  BY TransportAssumption
<1>2. Other(a) = b /\ Other(b) = a
  BY <1>1 DEF Other
<1> QED BY <1>1, <1>2

LEMMA NewIsGood ==
  ASSUME NEW o
  PROVE  Good(NewConnection, o)
<1>1. 0 \in GroupStart
  <2>1. MAX_FRAGMENTS_PER_PACKET \in Nat \ {0} /\ NONFRAGMENTED_PACKETS_IDOFFSET \in Nat \ {0}
    BY PacketIDsAssumption
  <2>2. 0 % MAX_FRAGMENTS_PER_PACKET = 0
    BY <2>1
  <2> QED BY <2>1, <2>2 DEF GroupStart
<1>2. 0 \in PacketID /\ PACKET_BACKLOG_TIMEOUT \in 0..PACKET_BACKLOG_TIMEOUT
  BY PacketIDsAssumption, TransportAssumption DEF PacketID
<1>3. AllSound(<<>>) /\ <<>> \in Seq(Entry(o)) /\ Len(<<>>) = 0
  BY DEF AllSound
<1> QED BY <1>1, <1>2, <1>3, EmptyRemembersNothing, PendingAssumption
        DEF Good, NewConnection, ConnectionTo

LEMMA GoodIsSome ==
  ASSUME NEW c, NEW o, Good(c, o)
  PROVE  c # NoConnection
<1>1. DOMAIN c = {"fragmentedID", "unfragmentedID", "window", "pending", "fragments", "idle"}
  BY DEF Good, ConnectionTo
<1>2. DOMAIN NoConnection = {"none"}
  BY DEF NoConnection
<1> QED BY <1>1, <1>2

LEMMA GetConnectionGood ==
  ASSUME GoodConnections, NEW e \in Endpoint
  PROVE  Good(GetConnection(e), Other(e))
BY NewIsGood DEF GoodConnections, GetConnection

\* One connection is replaced.
LEMMA ReplacedIsGood ==
  ASSUME GoodConnections, NEW e \in Endpoint, NEW c, Good(c, Other(e)) \/ c = NoConnection,
         connection' = [connection EXCEPT ![e] = c]
  PROVE  GoodConnections'
<1>1. \A x \in Endpoint : connection'[x] = IF x = e THEN c ELSE connection[x]
  BY DEF GoodConnections
<1>2. connection' = [x \in Endpoint |-> connection'[x]]
  BY DEF GoodConnections
<1> QED BY <1>1, <1>2 DEF GoodConnections

LEMMA SendingIsGood ==
  ASSUME NEW n, NEW ds,
         \A d \in DOMAIN n \cup ds : /\ d.to \in Endpoint
                                     /\ d \in PacketTo(d.to) \cup AckTo(d.to),
         \A d \in DOMAIN n : n[d] \in 0..MaxTransit,
         net' = Sending(n, ds)
  PROVE  GoodNet' /\ DOMAIN net' = DOMAIN n \cup ds
<1>1. MaxTransit \in 0..MaxTransit
  BY TransportAssumption
<1> QED BY <1>1 DEF Sending, GoodNet

LEMMA ArrivalIsGood ==
  ASSUME GoodNet, NEW d, NEW n \in Arrivals(d)
  PROVE  /\ n = [x \in DOMAIN n |-> n[x]] /\ DOMAIN n \subseteq DOMAIN net
         /\ \A x \in DOMAIN n : n[x] = net[x]
BY DEF GoodNet, Arrivals, Without1

\* A list of pending packets: adding, taking out, retrying.
LEMMA PendingAdded ==
  ASSUME NEW o, NEW q \in Seq(Entry(o)), Len(q) <= MAX_PACKET_PENDING_LIST,
         NEW d \in PacketTo(o), NEW new, new = AddPending(q, d, 0)
  PROVE  /\ new \in Seq(Entry(o)) /\ Len(new) <= MAX_PACKET_PENDING_LIST
         /\ \A k \in DOMAIN new :
              new[k].packet = d \/ \E j \in DOMAIN q : new[k] = q[j]
<1>1. PICK x : x = [packet |-> d, dwAckCount |-> d.dwAckCount,
                    dwAckDelay |-> Scaled(d.dwAckDelay),
                    dwTimeout |-> Deadline(0, d.dwAckDelay)]
  OBVIOUS
<1>2. x \in Entry(o) /\ x.packet = d
  <2>1. d.dwAckCount \in Int /\ d.dwAckDelay \in Int
    BY DEF PacketTo
  <2>2. Scaled(d.dwAckDelay) \in Int /\ Deadline(0, d.dwAckDelay) \in Int
    BY <2>1, PendingAssumption DEF Scaled, Deadline
  <2> QED BY <1>1, <2>1, <2>2 DEF Entry
<1>3. CASE Len(q) < MAX_PACKET_PENDING_LIST
  <2>1. new = Append(q, x)
    BY <1>1, <1>3 DEF AddPending
  <2>2. PICK n \in Nat : n = Len(q) /\ DOMAIN q = 1..n
    OBVIOUS
  <2>3. /\ new \in Seq(Entry(o)) /\ Len(new) = n + 1 /\ DOMAIN new = 1..(n + 1)
        /\ new[n + 1] = x /\ \A k \in 1..n : new[k] = q[k]
    BY <1>2, <2>1, <2>2
  <2>4. n + 1 <= MAX_PACKET_PENDING_LIST
    BY <1>3, <2>2, PendingAssumption
  <2>5. \A k \in 1..(n + 1) : k \in 1..n \/ k = n + 1
    BY <2>2
  <2> QED BY <1>2, <2>2, <2>3, <2>4, <2>5
<1>4. CASE ~ (Len(q) < MAX_PACKET_PENDING_LIST)
  BY <1>4 DEF AddPending
<1> QED BY <1>3, <1>4

LEMMA PendingDestroyed ==
  ASSUME NEW o, NEW q \in Seq(Entry(o)), NEW id, NEW new, new = DestroyPending(q, id)
  PROVE  /\ new \in Seq(Entry(o)) /\ Len(new) <= Len(q)
         /\ \A k \in DOMAIN new : \E j \in DOMAIN q : new[k] = q[j]
<1>1. CASE IsPending(q, id)
  <2>1. PICK i \in DOMAIN q : i = FirstPending(q, id)
    BY <1>1, FirstPendingFound
  <2>2. new = [k \in 1..(Len(q) - 1) |-> IF k < i THEN q[k] ELSE q[k + 1]]
    BY <1>1, <2>1 DEF DestroyPending
  <2> QED BY <2>2, TakenOut
<1>2. CASE ~ IsPending(q, id)
  BY <1>2 DEF DestroyPending
<1> QED BY <1>1, <1>2

LEMMA RetriedKeepsPacket ==
  ASSUME NEW o, NEW x \in Entry(o)
  PROVE  Retried(x, 0) \in Entry(o) /\ Retried(x, 0).packet = x.packet
<1>1. /\ (x.dwAckCount + DWORD_MOD - 1) % DWORD_MOD \in Int
      /\ Deadline(0, x.dwAckDelay) \in Int
  <2>1. DWORD_MOD \in Nat \ {0} /\ x.dwAckCount \in Int /\ x.dwAckDelay \in Int
    BY PendingAssumption DEF Entry
  <2> QED BY <2>1 DEF Deadline
<1>2. CASE IsDue(x, 0)
  BY <1>1, <1>2 DEF Retried, Entry
<1>3. CASE ~ IsDue(x, 0)
  BY <1>3 DEF Retried
<1> QED BY <1>2, <1>3

LEMMA PendingVerified ==
  ASSUME NEW o, NEW q \in Seq(Entry(o)), NEW new \in VerifyTimedoutPending(q, 0)
  PROVE  /\ new \in Seq(Entry(o)) /\ Len(new) <= Len(q)
         /\ \A k \in DOMAIN new : \E j \in DOMAIN q : new[k].packet = q[j].packet
<1>1. PICK all : all = [i \in DOMAIN q |-> Retried(q[i], 0)]
  OBVIOUS
<1>2. /\ all \in Seq(Entry(o)) /\ Len(all) = Len(q) /\ DOMAIN all = DOMAIN q
      /\ \A i \in DOMAIN q : all[i].packet = q[i].packet
  <2>1. PICK n \in Nat : n = Len(q) /\ DOMAIN q = 1..n
    OBVIOUS
  <2>2. \A i \in 1..n : all[i] \in Entry(o) /\ all[i].packet = q[i].packet
    BY <1>1, <2>1, RetriedKeepsPacket
  <2> QED BY <1>1, <2>1, <2>2
<1>3. PICK kept : /\ kept \subseteq DOMAIN all
                  /\ new \in OnlyAt(all, kept)
  BY <1>1 DEF VerifyTimedoutPending
<1>4. /\ new \in Seq(Entry(o)) /\ Len(new) <= Len(all)
      /\ \A k \in DOMAIN new : \E i \in kept : new[k] = all[i]
  BY <1>2, <1>3, ErasingAddsNothing
<1> QED BY <1>2, <1>3, <1>4

\* What is sent again is what is pending, but for the count.
LEMMA ReSentIsPending ==
  ASSUME NEW o, NEW q \in Seq(Entry(o)), NEW d \in ReSentPackets(q, 0)
  PROVE  /\ d \in PacketTo(o)
         /\ \E i \in DOMAIN q : /\ d.id = q[i].packet.id /\ d.body = q[i].packet.body
                                /\ d.lastFrag = q[i].packet.lastFrag
<1>1. PICK i \in DOMAIN q :
        d = [q[i].packet EXCEPT !.dwAckCount = Retried(q[i], 0).dwAckCount]
  BY DEF ReSentPackets
<1>2. q[i] \in Entry(o) /\ Retried(q[i], 0) \in Entry(o)
  BY RetriedKeepsPacket
<1>3. PICK p \in PacketTo(o), n \in Int : p = q[i].packet /\ n = Retried(q[i], 0).dwAckCount
  BY <1>2 DEF Entry
<1>4. d = [p EXCEPT !.dwAckCount = n]
  BY <1>1, <1>3
<1>5. d \in PacketTo(o) /\ d.id = p.id /\ d.body = p.body /\ d.lastFrag = p.lastFrag
  BY <1>4 DEF PacketTo
<1> QED BY <1>3, <1>5

-----------------------------------------------------------------------------
(***************************************************************************)
(* What there is of each endpoint's packets, and what a step adds to it.   *)
(***************************************************************************)
\* What a packet says, as the peer keeps it.
Image(p) == [id |-> p.id, lastFrag |-> p.lastFrag, body |-> p.body]

\* The pieces of incomplete messages at endpoint e.
Pieces(e) == Held(GetConnection(e).fragments)

\* Every packet of e that is queued, pending, in flight or held by the peer.
Copies(e) ==
  {Image(preSend[e][i]) : i \in DOMAIN preSend[e]}
    \cup {Image(GetConnection(e).pending[i].packet) :
            i \in DOMAIN GetConnection(e).pending}
    \cup {Image(d) : d \in {x \in DOMAIN net : x.kind = "data" /\ x.to = Other(e)}}
    \cup Pieces(Other(e))

\* The identifiers of e the peer remembers or has acknowledged.
Known(e) ==
  {id \in PacketID : AlreadyReceivedPacket(GetConnection(Other(e)).window, id)}
    \cup {d.id : d \in {x \in DOMAIN net : x.kind = "ack" /\ x.to = e}}

\* A step makes no packet, lets the peers know no identifiers but ids of those
\* e received, and hold no pieces but ps.
Only(e, ids, ps) ==
  \A x \in Endpoint :
    /\ Copies(x)' \subseteq Copies(x)
    /\ Known(x)' \subseteq Known(x) \cup (IF x = Other(e) THEN ids ELSE {})
    /\ Pieces(x)' \subseteq Pieces(x) \cup (IF x = e THEN ps ELSE {})

\* The connections after one was replaced.
LEMMA ConnectionNow ==
  ASSUME GoodConnections, NEW e \in Endpoint, NEW c,
         connection' = [connection EXCEPT ![e] = c]
  PROVE  /\ GetConnection(e)' = IF c = NoConnection THEN NewConnection ELSE c
         /\ \A x \in Endpoint : x # e => GetConnection(x)' = GetConnection(x)
BY DEF GoodConnections, GetConnection

\* A handler of e that replaces its connection.
LEMMA HandlerAddsOnly ==
  ASSUME GoodConnections, NEW e \in Endpoint, NEW c, NEW ids, NEW ps,
         connection' = [connection EXCEPT ![e] = c],
         NEW n, n = GetConnection(e)',
         \A x \in Endpoint : \A i \in DOMAIN preSend'[x] :
           \E j \in DOMAIN preSend[x] : preSend'[x][i] = preSend[x][j],
         \A i \in DOMAIN n.pending : Image(n.pending[i].packet) \in Copies(e),
         \A d \in DOMAIN net' :
           \/ d \in DOMAIN net
           \/ \E x \in Endpoint : d.kind = "data" /\ d.to = Other(x) /\ Image(d) \in Copies(x)
           \/ d.kind = "ack" /\ d.to = Other(e) /\ d.id \in Known(d.to) \cup ids,
         Held(n.fragments) \subseteq Pieces(e) \cup ps, ps \subseteq Copies(Other(e)),
         \A id \in PacketID : AlreadyReceivedPacket(n.window, id) =>
           AlreadyReceivedPacket(GetConnection(e).window, id) \/ id \in ids
  PROVE  Only(e, ids, ps)
<1> SUFFICES ASSUME NEW x \in Endpoint
             PROVE  /\ Copies(x)' \subseteq Copies(x)
                    /\ Known(x)' \subseteq Known(x) \cup (IF x = Other(e) THEN ids ELSE {})
                    /\ Pieces(x)' \subseteq Pieces(x) \cup (IF x = e THEN ps ELSE {})
  BY DEF Only
<1>1. \A y \in Endpoint : y # e => GetConnection(y)' = GetConnection(y)
  BY ConnectionNow
<1>2. /\ Other(x) \in Endpoint /\ Other(e) \in Endpoint /\ Other(x) # x /\ Other(e) # e
      /\ Other(Other(x)) = x /\ Other(Other(e)) = e
  BY TwoEndpoints
<1>3. Pieces(x)' \subseteq Pieces(x) \cup (IF x = e THEN ps ELSE {})
  BY <1>1 DEF Pieces
<1>4. Pieces(Other(x))' \subseteq Copies(x)
  <2>1. CASE Other(x) = e
    <3>1. Pieces(e)' = Held(n.fragments)
      BY DEF Pieces
    <3>2. Pieces(e) \subseteq Copies(x)
      BY <2>1 DEF Copies
    <3>3. x = Other(e)
      BY <1>2, <2>1
    <3> QED BY <2>1, <3>1, <3>2, <3>3
  <2>2. CASE Other(x) # e
    <3>1. GetConnection(Other(x))' = GetConnection(Other(x))
      BY <1>1, <1>2, <2>2
    <3> QED BY <3>1 DEF Pieces, Copies
  <2> QED BY <2>1, <2>2
<1>5. ASSUME NEW t \in Copies(x)' PROVE t \in Copies(x)
  <2>1. CASE \E i \in DOMAIN preSend'[x] : t = Image(preSend'[x][i])
    BY <2>1 DEF Copies
  <2>2. CASE \E i \in DOMAIN (GetConnection(x)').pending :
               t = Image((GetConnection(x)').pending[i].packet)
    BY <1>1, <2>2 DEF Copies
  <2>3. CASE \E d \in DOMAIN net' : d.kind = "data" /\ d.to = Other(x) /\ t = Image(d)
    <3>1. PICK d \in DOMAIN net' : d.kind = "data" /\ d.to = Other(x) /\ t = Image(d)
      BY <2>3
    <3>2. CASE d \in DOMAIN net
      BY <3>1, <3>2 DEF Copies
    <3>3. CASE \E y \in Endpoint : d.to = Other(y) /\ Image(d) \in Copies(y)
      <4>1. PICK y \in Endpoint : d.to = Other(y) /\ Image(d) \in Copies(y)
        BY <3>3
      <4>2. y = x
        BY <1>2, <3>1, <4>1, TwoEndpoints
      <4> QED BY <3>1, <4>1, <4>2
    <3> QED BY <3>1, <3>2, <3>3
  <2>4. CASE t \in Pieces(Other(x))'
    BY <1>4, <2>4
  <2>5. Copies(x)' =
          {Image(preSend'[x][i]) : i \in DOMAIN preSend'[x]}
            \cup {Image((GetConnection(x)').pending[i].packet) :
                    i \in DOMAIN (GetConnection(x)').pending}
            \cup {Image(d) : d \in {y \in DOMAIN net' : y.kind = "data" /\ y.to = Other(x)}}
            \cup Pieces(Other(x))'
    BY DEF Copies
  <2> QED BY <2>1, <2>2, <2>3, <2>4, <2>5
<1>6. ASSUME NEW id \in Known(x)'
      PROVE  id \in Known(x) \cup (IF x = Other(e) THEN ids ELSE {})
  <2>1. CASE id \in PacketID /\ AlreadyReceivedPacket((GetConnection(Other(x))').window, id)
    <3>1. CASE Other(x) = e
      <4>1. x = Other(e)
        BY <1>2, <3>1
      <4>2. AlreadyReceivedPacket(GetConnection(e).window, id) \/ id \in ids
        BY <2>1, <3>1
      <4> QED BY <2>1, <3>1, <4>1, <4>2 DEF Known
    <3>2. CASE Other(x) # e
      <4>1. GetConnection(Other(x))' = GetConnection(Other(x))
        BY <1>1, <1>2, <3>2
      <4> QED BY <2>1, <4>1 DEF Known
    <3> QED BY <3>1, <3>2
  <2>2. CASE \E d \in DOMAIN net' : d.kind = "ack" /\ d.to = x /\ id = d.id
    BY <2>2 DEF Known
  <2>3. Known(x)' =
          {y \in PacketID : AlreadyReceivedPacket((GetConnection(Other(x))').window, y)}
            \cup {d.id : d \in {y \in DOMAIN net' : y.kind = "ack" /\ y.to = x}}
    BY DEF Known
  <2> QED BY <2>1, <2>2, <2>3
<1> QED BY <1>3, <1>5, <1>6

-----------------------------------------------------------------------------
(* The handlers, one by one.                                               *)

\* UDPSendPacketThread moves a packet from the queue to the network and, a safe
\* one, to the pending list.
LEMMA SendThreadStep ==
  ASSUME TInv, NEW e \in Endpoint, UDPSendPacketThread(e)
  PROVE  TInv' /\ Only(e, {}, {})
<1> DEFINE o == Other(e)
           c == GetConnection(e)
           d == Head(preSend[e])
<1>1. PICK c2 : /\ c2 = IF d.safe THEN [c EXCEPT !.pending = AddPending(@, d, 0)] ELSE c
                /\ connection' = [connection EXCEPT ![e] = c2]
  BY DEF UDPSendPacketThread
<1>2. /\ net' = Sending(net, {d}) /\ preSend[e] # <<>>
      /\ preSend' = [preSend EXCEPT ![e] = Tail(@)]
  BY DEF UDPSendPacketThread
<1>3. /\ preSend[e] \in Seq(PacketTo(o)) /\ 1 \in DOMAIN preSend[e] /\ d = preSend[e][1]
      /\ d \in PacketTo(o)
      /\ Tail(preSend[e]) \in Seq(PacketTo(o))
      /\ \A i \in DOMAIN Tail(preSend[e]) :
           i + 1 \in DOMAIN preSend[e] /\ Tail(preSend[e])[i] = preSend[e][i + 1]
  BY <1>2 DEF TInv, GoodQueues
<1>4. o \in Endpoint /\ d.kind = "data" /\ d.to = o
  BY <1>3, TwoEndpoints DEF PacketTo
<1>5. Good(c, o)
  BY GetConnectionGood DEF TInv
<1> HIDE DEF c, d
<1>6. /\ Good(c2, o) /\ c2.window = c.window /\ c2.fragments = c.fragments
      /\ \A k \in DOMAIN c2.pending :
           c2.pending[k].packet = d \/ \E j \in DOMAIN c.pending : c2.pending[k] = c.pending[j]
  <2>1. CASE d.safe
    <3>1. PICK q : q = AddPending(c.pending, d, 0)
      OBVIOUS
    <3>2. /\ q \in Seq(Entry(o)) /\ Len(q) <= MAX_PACKET_PENDING_LIST
          /\ \A k \in DOMAIN q : q[k].packet = d \/ \E j \in DOMAIN c.pending : q[k] = c.pending[j]
      <4>1. c.pending \in Seq(Entry(o)) /\ Len(c.pending) <= MAX_PACKET_PENDING_LIST
        BY <1>5 DEF Good, ConnectionTo
      <4>2. d \in PacketTo(o)
        BY <1>3
      <4> HIDE DEF o
      <4>3. PICK old : old = c.pending
        OBVIOUS
      <4>4. old \in Seq(Entry(o)) /\ Len(old) <= MAX_PACKET_PENDING_LIST /\ q = AddPending(old, d, 0)
        BY <3>1, <4>1, <4>3
      <4>5. /\ q \in Seq(Entry(o)) /\ Len(q) <= MAX_PACKET_PENDING_LIST
            /\ \A k \in DOMAIN q : q[k].packet = d \/ \E j \in DOMAIN old : q[k] = old[j]
        BY <4>2, <4>4, PendingAdded
      <4> QED BY <4>3, <4>5
    <3>3. c2 = [c EXCEPT !.pending = q]
      BY <1>1, <2>1, <3>1
    <3>4. c2 \in ConnectionTo(o) /\ c2.pending = q /\ c2.window = c.window
          /\ c2.fragments = c.fragments
      BY <1>5, <3>2, <3>3 DEF Good, ConnectionTo
    <3> QED BY <1>5, <3>2, <3>4 DEF Good
  <2>2. CASE ~ d.safe
    BY <1>1, <1>5, <2>2
  <2> QED BY <2>1, <2>2
<1>7. GoodConnections'
  BY <1>1, <1>6, ReplacedIsGood DEF TInv
<1>8. GoodQueues'
  BY <1>2, <1>3 DEF TInv, GoodQueues
<1>9. GoodNet' /\ DOMAIN net' = DOMAIN net \cup {d}
  <2>1. \A x \in DOMAIN net \cup {d} : x.to \in Endpoint /\ x \in PacketTo(x.to) \cup AckTo(x.to)
    BY <1>3, <1>4 DEF TInv, GoodNet
  <2>2. \A x \in DOMAIN net : net[x] \in 0..MaxTransit
    BY DEF TInv, GoodNet
  <2> QED BY <1>2, <2>1, <2>2, SendingIsGood
<1>10. Image(d) \in Copies(e)
  BY <1>3 DEF Copies
<1>11. Only(e, {}, {})
  <2>1. GetConnection(e)' = c2
    BY <1>1, <1>6, ConnectionNow, GoodIsSome DEF TInv
  <2>2. \A x \in Endpoint : \A i \in DOMAIN preSend'[x] :
          \E j \in DOMAIN preSend[x] : preSend'[x][i] = preSend[x][j]
    BY <1>2, <1>3 DEF TInv, GoodQueues
  <2>3. \A i \in DOMAIN c2.pending : Image(c2.pending[i].packet) \in Copies(e)
    BY <1>6, <1>10 DEF Copies, c
  <2>4. \A x \in DOMAIN net' :
           \/ x \in DOMAIN net
           \/ \E y \in Endpoint : x.kind = "data" /\ x.to = Other(y) /\ Image(x) \in Copies(y)
    BY <1>4, <1>9, <1>10
  <2>5. Held(c2.fragments) \subseteq Pieces(e)
    BY <1>6 DEF Pieces, c
  <2>6. \A id \in PacketID : AlreadyReceivedPacket(c2.window, id) =>
          AlreadyReceivedPacket(GetConnection(e).window, id)
    BY <1>6 DEF c
  <2>7. GoodConnections
    BY DEF TInv
  <2> HIDE DEF o
  <2> QED BY <1>1, <2>1, <2>2, <2>3, <2>4, <2>5, <2>6, <2>7, HandlerAddsOnly
<1> QED BY <1>7, <1>8, <1>9, <1>11 DEF TInv

\* A handler that leaves the queues alone and whose connection holds nothing new
\* but what it received.
LEMMA ReceiverStep ==
  ASSUME TInv, NEW e \in Endpoint, NEW c, NEW ids, NEW ps,
         Good(c, Other(e)), connection' = [connection EXCEPT ![e] = c],
         preSend' = preSend, GoodNet',
         \A i \in DOMAIN c.pending :
           \E j \in DOMAIN GetConnection(e).pending :
             c.pending[i].packet = GetConnection(e).pending[j].packet,
         \A d \in DOMAIN net' :
           \/ d \in DOMAIN net
           \/ d.kind = "ack" /\ d.to = Other(e) /\ d.id \in Known(d.to) \cup ids,
         Held(c.fragments) \subseteq Pieces(e) \cup ps, ps \subseteq Copies(Other(e)),
         \A id \in PacketID : AlreadyReceivedPacket(c.window, id) =>
           AlreadyReceivedPacket(GetConnection(e).window, id) \/ id \in ids
  PROVE  TInv' /\ Only(e, ids, ps)
<1>1. GoodConnections' /\ GoodConnections
  BY ReplacedIsGood DEF TInv
<1>2. GoodQueues'
  BY DEF TInv, GoodQueues
<1>3. GetConnection(e)' = c
  BY <1>1, ConnectionNow, GoodIsSome
<1>4. \A x \in Endpoint : \A i \in DOMAIN preSend'[x] :
        \E j \in DOMAIN preSend[x] : preSend'[x][i] = preSend[x][j]
  OBVIOUS
<1>5. \A i \in DOMAIN c.pending : Image(c.pending[i].packet) \in Copies(e)
  BY DEF Copies
<1>6. Only(e, ids, ps)
  BY <1>1, <1>3, <1>4, <1>5, HandlerAddsOnly
<1> QED BY <1>1, <1>2, <1>6 DEF TInv

\* What recvfrom and SendAck leave in flight.
LEMMA ReceivedNet ==
  ASSUME TInv, NEW e \in Endpoint, NEW d \in DOMAIN net, ReceiveData(e, d)
  PROVE  /\ GoodNet' /\ preSend' = preSend /\ d \in PacketTo(e)
         /\ Image(d) \in Copies(Other(e))
         /\ \A x \in DOMAIN net' :
              x \in DOMAIN net \/ (x.kind = "ack" /\ x.to = Other(e) /\ x.id = d.id)
<1>1. d.kind = "data" /\ d.to = e /\ preSend' = preSend
  BY DEF ReceiveData
<1>2. d \in PacketTo(e)
  BY <1>1 DEF TInv, GoodNet, AckTo
<1>3. Other(e) \in Endpoint /\ Other(Other(e)) = e
  BY TwoEndpoints
<1>4. Image(d) \in Copies(Other(e))
  BY <1>1, <1>3 DEF Copies
<1>5. PICK acks : /\ acks = IF d.safe THEN {Ack(d)} ELSE {}
                  /\ \E n \in Arrivals(d) : net' = Sending(n, acks)
  BY DEF ReceiveData
<1>9. PICK n \in Arrivals(d) : net' = Sending(n, acks)
  BY <1>5
<1>6. \A x \in acks : /\ x.kind = "ack" /\ x.to = Other(e) /\ x.id = d.id
                      /\ x \in AckTo(Other(e))
  BY <1>1, <1>2, <1>5 DEF Ack, AckTo, PacketTo
<1>7. DOMAIN n \subseteq DOMAIN net /\ \A x \in DOMAIN n : n[x] = net[x]
  BY ArrivalIsGood DEF TInv
<1>8. GoodNet' /\ DOMAIN net' = DOMAIN n \cup acks
  <2>1. \A x \in DOMAIN n \cup acks : x.to \in Endpoint /\ x \in PacketTo(x.to) \cup AckTo(x.to)
    BY <1>3, <1>6, <1>7 DEF TInv, GoodNet
  <2>2. \A x \in DOMAIN n : n[x] \in 0..MaxTransit
    BY <1>7 DEF TInv, GoodNet
  <2> QED BY <1>9, <2>1, <2>2, SendingIsGood
<1> QED BY <1>1, <1>2, <1>4, <1>6, <1>7, <1>8

LEMMA DropStep ==
  ASSUME TInv, NEW e \in Endpoint, NEW d \in DOMAIN net, ReceiveData(e, d),
         DropDuplicate(e, d)
  PROVE  TInv' /\ Only(e, {}, {}) /\ d.id \in Known(Other(e))
<1> DEFINE c == GetConnection(e)
<1>1. Good(c, Other(e))
  BY GetConnectionGood DEF TInv
<1>2. d.id \in PacketID /\ Other(Other(e)) = e
  BY ReceivedNet, TwoEndpoints DEF PacketTo
<1>3. d.id \in Known(Other(e))
  BY <1>2 DEF DropDuplicate, Known
<1>4. connection' = [connection EXCEPT ![e] = c]
  BY DEF DropDuplicate
<1>5. \A x \in DOMAIN net' :
        \/ x \in DOMAIN net
        \/ x.kind = "ack" /\ x.to = Other(e) /\ x.id \in Known(x.to) \cup {}
  BY <1>3, ReceivedNet
<1>6. Held(c.fragments) \subseteq Pieces(e) \cup {}
  BY DEF Pieces
<1>7. preSend' = preSend /\ GoodNet'
  BY ReceivedNet
<1>8. TInv' /\ Only(e, {}, {})
  <2> HIDE DEF c
  <2>1. \A i \in DOMAIN c.pending :
          \E j \in DOMAIN GetConnection(e).pending :
             c.pending[i].packet = GetConnection(e).pending[j].packet
    BY DEF c
  <2>2. \A id \in PacketID : AlreadyReceivedPacket(c.window, id) =>
           AlreadyReceivedPacket(GetConnection(e).window, id) \/ id \in {}
    BY DEF c
  <2> QED BY <1>1, <1>4, <1>5, <1>6, <1>7, <2>1, <2>2, ReceiverStep
<1> QED BY <1>3, <1>8

\* The connection that registered a packet.
LEMMA RegisteredIsGood ==
  ASSUME NEW c, NEW o, Good(c, o), NEW id \in PacketID, NEW n, n = Registered(c, id)
  PROVE  /\ Good(n, o) /\ n.pending = c.pending /\ n.fragments = c.fragments
         /\ \A x : AlreadyReceivedPacket(n.window, x) =>
                     AlreadyReceivedPacket(c.window, x) \/ x \in {id}
<1>1. PICK w : w = RegisterReceivedPacketID(c.window, id)
  OBVIOUS
<1>2. c.window \in Window /\ c \in ConnectionTo(o)
  BY DEF Good, ConnectionTo
<1>3. w \in Window /\ \A x : AlreadyReceivedPacket(w, x) =>
                               AlreadyReceivedPacket(c.window, x) \/ x \in {id}
  BY <1>1, <1>2, RegisteringAddsOne
<1>4. n = [c EXCEPT !.window = w, !.idle = PACKET_BACKLOG_TIMEOUT]
  BY <1>1 DEF Registered
<1>5. /\ n \in ConnectionTo(o) /\ n.pending = c.pending /\ n.fragments = c.fragments
      /\ n.window = w
  <2>1. PACKET_BACKLOG_TIMEOUT \in 0..PACKET_BACKLOG_TIMEOUT
    BY TransportAssumption
  <2>2. PICK b : b = PACKET_BACKLOG_TIMEOUT
    OBVIOUS
  <2>3. n = [c EXCEPT !.window = w, !.idle = b] /\ b \in 0..PACKET_BACKLOG_TIMEOUT
    BY <1>4, <2>1, <2>2
  <2> QED BY <1>2, <1>3, <2>3 DEF ConnectionTo
<1> QED BY <1>2, <1>3, <1>5 DEF Good

LEMMA AcceptWholeStep ==
  ASSUME TInv, NEW e \in Endpoint, NEW d \in DOMAIN net, ReceiveData(e, d),
         AcceptUnfragmented(e, d)
  PROVE  TInv' /\ Only(e, {d.id}, {})
<1>1. PICK n : n = Registered(GetConnection(e), d.id) /\ connection' = [connection EXCEPT ![e] = n]
  BY DEF AcceptUnfragmented
<1>2. d.id \in PacketID /\ Good(GetConnection(e), Other(e))
  BY ReceivedNet, GetConnectionGood DEF TInv, PacketTo
<1>3. /\ Good(n, Other(e)) /\ n.pending = GetConnection(e).pending
      /\ n.fragments = GetConnection(e).fragments
      /\ \A x : AlreadyReceivedPacket(n.window, x) =>
                  AlreadyReceivedPacket(GetConnection(e).window, x) \/ x \in {d.id}
  BY <1>1, <1>2, RegisteredIsGood
<1>4. Held(n.fragments) \subseteq Pieces(e) \cup {}
  BY <1>3 DEF Pieces
<1>5. \A x \in DOMAIN net' :
        \/ x \in DOMAIN net
        \/ x.kind = "ack" /\ x.to = Other(e) /\ x.id \in Known(x.to) \cup {d.id}
  BY ReceivedNet
<1>6. preSend' = preSend /\ GoodNet'
  BY ReceivedNet
<1>7. \A i \in DOMAIN n.pending :
        \E j \in DOMAIN GetConnection(e).pending :
          n.pending[i].packet = GetConnection(e).pending[j].packet
  BY <1>3
<1> QED BY <1>1, <1>3, <1>4, <1>5, <1>6, <1>7, ReceiverStep

\* The piece a datagram carries.
LEMMA ImageIsPiece ==
  ASSUME NEW o, NEW d \in PacketTo(o), d.id < NONFRAGMENTED_PACKETS_IDOFFSET
  PROVE  Image(d) \in Piece
<1>1. d.id \in 0..(NONFRAGMENTED_PACKETS_IDOFFSET - 1)
  BY PacketIDsAssumption DEF PacketTo, PacketID
<1> QED BY <1>1 DEF PacketTo, Image, Piece

LEMMA AcceptFragmentStep ==
  ASSUME TInv, NEW e \in Endpoint, NEW d \in DOMAIN net, ReceiveData(e, d),
         AcceptFragment(e, d)
  PROVE  TInv' /\ Only(e, {d.id}, {Image(d)})
<1> DEFINE fps == GetConnection(e).fragments
<1>1. PICK n : n = Registered(GetConnection(e), d.id)
  OBVIOUS
<1>2. d \in PacketTo(e) /\ d.id \in PacketID /\ Good(GetConnection(e), Other(e))
  BY ReceivedNet, GetConnectionGood DEF TInv, PacketTo
<1>3. /\ Good(n, Other(e)) /\ n.pending = GetConnection(e).pending
      /\ n.fragments = GetConnection(e).fragments
      /\ \A x : AlreadyReceivedPacket(n.window, x) =>
                  AlreadyReceivedPacket(GetConnection(e).window, x) \/ x \in {d.id}
  BY <1>1, <1>2, RegisteredIsGood
<1>4. PICK r : r = RegisterFragment(fps, Image(d))
  OBVIOUS
<1>5. /\ connection' = [connection EXCEPT ![e] = [n EXCEPT !.fragments = r.packets]]
      /\ d.id < NONFRAGMENTED_PACKETS_IDOFFSET
  BY <1>1, <1>3, <1>4 DEF AcceptFragment, Image
<1>6. AllSound(fps) /\ Image(d) \in Piece
  BY <1>2, <1>5, ImageIsPiece DEF Good
<1>7. AllSound(r.packets) /\ Held(r.packets) \subseteq Held(fps) \cup {Image(d)}
  <2> HIDE DEF fps
  <2> QED BY <1>4, <1>6, FragmentRegistered
<1>8. PICK m : m = [n EXCEPT !.fragments = r.packets]
  OBVIOUS
<1>9. /\ Good(m, Other(e)) /\ m.pending = GetConnection(e).pending
      /\ m.fragments = r.packets /\ m.window = n.window
  <2>1. n \in ConnectionTo(Other(e)) /\ r.packets \in Seq(List)
    BY <1>3, <1>7 DEF Good, AllSound
  <2>2. m \in ConnectionTo(Other(e)) /\ m.pending = n.pending
        /\ m.fragments = r.packets /\ m.window = n.window
    BY <1>8, <2>1 DEF ConnectionTo
  <2> QED BY <1>3, <1>7, <2>2 DEF Good
<1>10. Held(m.fragments) \subseteq Pieces(e) \cup {Image(d)}
  BY <1>7, <1>9 DEF Pieces
<1>11. /\ {Image(d)} \subseteq Copies(Other(e)) /\ preSend' = preSend /\ GoodNet'
       /\ \A x \in DOMAIN net' :
            \/ x \in DOMAIN net
            \/ x.kind = "ack" /\ x.to = Other(e) /\ x.id \in Known(x.to) \cup {d.id}
  BY ReceivedNet
<1>12. connection' = [connection EXCEPT ![e] = m]
  BY <1>5, <1>8
<1>13. \A id \in PacketID : AlreadyReceivedPacket(m.window, id) =>
         AlreadyReceivedPacket(GetConnection(e).window, id) \/ id \in {d.id}
  BY <1>3, <1>9
<1>14. \A i \in DOMAIN m.pending :
         \E j \in DOMAIN GetConnection(e).pending :
           m.pending[i].packet = GetConnection(e).pending[j].packet
  BY <1>9
<1> HIDE DEF fps
<1> QED BY <1>9, <1>10, <1>11, <1>12, <1>13, <1>14, ReceiverStep

LEMMA ReceiveAckStep ==
  ASSUME TInv, NEW e \in Endpoint, NEW d \in DOMAIN net, ReceiveAck(e, d)
  PROVE  TInv' /\ Only(e, {}, {})
<1>1. PICK c : c = GetConnection(e)
  OBVIOUS
<1>2. PICK q : q = DestroyPending(c.pending, d.id)
  OBVIOUS
<1>3. PICK n : n = [c EXCEPT !.pending = q]
  OBVIOUS
<1>4. connection' = [connection EXCEPT ![e] = n] /\ preSend' = preSend
  BY <1>1, <1>2, <1>3 DEF ReceiveAck
<1>5. Good(c, Other(e))
  BY <1>1, GetConnectionGood DEF TInv
<1>6. c \in ConnectionTo(Other(e)) /\ c.pending \in Seq(Entry(Other(e)))
  BY <1>5 DEF Good, ConnectionTo
<1>7. /\ q \in Seq(Entry(Other(e))) /\ Len(q) <= Len(c.pending)
      /\ \A k \in DOMAIN q : \E j \in DOMAIN c.pending : q[k] = c.pending[j]
  BY <1>2, <1>6, PendingDestroyed
<1>8. /\ n \in ConnectionTo(Other(e)) /\ n.pending = q
      /\ n.window = c.window /\ n.fragments = c.fragments
  BY <1>3, <1>6, <1>7 DEF ConnectionTo
<1>9. Len(n.pending) <= MAX_PACKET_PENDING_LIST
  <2>1. Len(q) \in Nat /\ Len(c.pending) \in Nat /\ MAX_PACKET_PENDING_LIST \in Nat
    BY <1>6, <1>7, PendingAssumption
  <2> QED BY <1>5, <1>7, <1>8, <2>1 DEF Good
<1>10. Good(n, Other(e))
  BY <1>5, <1>8, <1>9 DEF Good
<1>11. GoodNet' /\ \A x \in DOMAIN net' : x \in DOMAIN net
  <2>1. net' \in Arrivals(d)
    BY DEF ReceiveAck
  <2>2. /\ net' = [x \in DOMAIN net' |-> net'[x]] /\ DOMAIN net' \subseteq DOMAIN net
        /\ \A x \in DOMAIN net' : net'[x] = net[x]
    BY <2>1, ArrivalIsGood DEF TInv
  <2> QED BY <2>2 DEF TInv, GoodNet
<1>12. \A i \in DOMAIN n.pending :
         \E j \in DOMAIN GetConnection(e).pending :
           n.pending[i].packet = GetConnection(e).pending[j].packet
  BY <1>1, <1>7, <1>8
<1>13. Held(n.fragments) \subseteq Pieces(e) \cup {}
  BY <1>1, <1>8 DEF Pieces
<1>14. \A id \in PacketID : AlreadyReceivedPacket(n.window, id) =>
         AlreadyReceivedPacket(GetConnection(e).window, id) \/ id \in {}
  BY <1>1, <1>8
<1>15. \A x \in DOMAIN net' :
         \/ x \in DOMAIN net
         \/ x.kind = "ack" /\ x.to = Other(e) /\ x.id \in Known(x.to) \cup {}
  BY <1>11
<1> QED BY <1>4, <1>10, <1>11, <1>12, <1>13, <1>14, <1>15, ReceiverStep

\* What the maintenance leaves of a connection.
LEMMA MaintainedIsGood ==
  ASSUME NEW c, NEW o, Good(c, o), NEW n \in Maintained(c)
  PROVE  /\ Good(n, o) /\ n.window = c.window
         /\ Held(n.fragments) \subseteq Held(c.fragments)
         /\ \A k \in DOMAIN n.pending :
              \E j \in DOMAIN c.pending : n.pending[k].packet = c.pending[j].packet
<1>0. PICK left \in VerifyTimedoutPending(c.pending, 0),
           kept \in VerifyTimedoutFragments(c.fragments) : n = LeftWith(c, left, kept)
  BY SMT DEF Maintained
<1>1. n = [c EXCEPT !.pending = left, !.fragments = kept]
  BY <1>0 DEF LeftWith
<1>2. c \in ConnectionTo(o) /\ c.pending \in Seq(Entry(o)) /\ AllSound(c.fragments)
  BY DEF Good, ConnectionTo
<1>3. /\ left \in Seq(Entry(o)) /\ Len(left) <= Len(c.pending)
      /\ \A k \in DOMAIN left : \E j \in DOMAIN c.pending : left[k].packet = c.pending[j].packet
  BY <1>2, PendingVerified
<1>4. AllSound(kept) /\ Held(kept) \subseteq Held(c.fragments)
  BY <1>2, StaleOnesGo
<1>5. /\ n \in ConnectionTo(o) /\ n.pending = left /\ n.fragments = kept
      /\ n.window = c.window
  <2>1. kept \in Seq(List)
    BY <1>4 DEF AllSound
  <2> QED BY <1>1, <1>2, <1>3, <2>1 DEF ConnectionTo
<1>6. Len(n.pending) <= MAX_PACKET_PENDING_LIST
  <2>1. Len(left) \in Nat /\ Len(c.pending) \in Nat /\ MAX_PACKET_PENDING_LIST \in Nat
    BY <1>2, <1>3, PendingAssumption
  <2> QED BY <1>3, <1>5, <2>1 DEF Good
<1> QED BY <1>3, <1>4, <1>5, <1>6 DEF Good

\* UDPMaintenancePacket sends again what is pending; a connection it deletes
\* remembers nothing.
LEMMA MaintenanceStep ==
  ASSUME TInv, NEW e \in Endpoint, Maintenance(e)
  PROVE  TInv' /\ Only(e, {}, {})
<1>1. PICK old : old = connection[e] /\ old = GetConnection(e)
  BY DEF Maintenance, GetConnection
<1>2. PICK m \in Maintained(old) : \E c :
        /\ c = IF ConnectionHasTimedout(m) THEN NoConnection ELSE m
        /\ connection' = [connection EXCEPT ![e] = c]
  BY <1>1 DEF Maintenance
<1>15. PICK c : /\ c = IF ConnectionHasTimedout(m) THEN NoConnection ELSE m
               /\ connection' = [connection EXCEPT ![e] = c]
  BY <1>2
<1>3. /\ net' = Sending(net, ReSentPackets(old.pending, 0)) /\ preSend' = preSend
  BY <1>1 DEF Maintenance
<1>4. Good(old, Other(e)) /\ Other(e) \in Endpoint
  BY <1>1, GetConnectionGood, TwoEndpoints DEF TInv
<1>5. /\ Good(m, Other(e)) /\ m.window = old.window
      /\ Held(m.fragments) \subseteq Held(old.fragments)
      /\ \A k \in DOMAIN m.pending :
           \E j \in DOMAIN old.pending : m.pending[k].packet = old.pending[j].packet
  BY <1>4, MaintainedIsGood
<1>6. GoodConnections /\ GoodConnections'
  BY <1>5, <1>15, ReplacedIsGood DEF TInv
<1>7. PICK n : n = GetConnection(e)'
  OBVIOUS
<1>8. n = m \/ n = NewConnection
  <2>1. n = IF c = NoConnection THEN NewConnection ELSE c
    BY <1>6, <1>7, <1>15, ConnectionNow
  <2> QED BY <1>15, <2>1
<1>9. /\ Held(n.fragments) \subseteq Held(old.fragments)
      /\ \A k \in DOMAIN n.pending :
           \E j \in DOMAIN old.pending : n.pending[k].packet = old.pending[j].packet
      /\ \A id \in PacketID : AlreadyReceivedPacket(n.window, id) =>
                                AlreadyReceivedPacket(old.window, id)
  <2>1. CASE n = m
    BY <1>5, <2>1
  <2>2. CASE n = NewConnection
    BY <2>2, EmptyRemembersNothing DEF NewConnection, Held
  <2> QED BY <1>8, <2>1, <2>2
<1>10. PICK ds : ds = ReSentPackets(old.pending, 0)
  OBVIOUS
<1>11. \A d \in ds : d \in PacketTo(Other(e)) /\ Image(d) \in Copies(e)
  <2> SUFFICES ASSUME NEW d \in ds PROVE d \in PacketTo(Other(e)) /\ Image(d) \in Copies(e)
    OBVIOUS
  <2>1. old.pending \in Seq(Entry(Other(e)))
    BY <1>4 DEF Good, ConnectionTo
  <2>2. /\ d \in PacketTo(Other(e))
        /\ \E i \in DOMAIN old.pending :
             /\ d.id = old.pending[i].packet.id /\ d.body = old.pending[i].packet.body
             /\ d.lastFrag = old.pending[i].packet.lastFrag
    BY <1>10, <2>1, ReSentIsPending
  <2>3. \E i \in DOMAIN old.pending : Image(d) = Image(old.pending[i].packet)
    BY <2>2 DEF Image
  <2> QED BY <1>1, <2>2, <2>3 DEF Copies
<1>12. GoodNet' /\ DOMAIN net' = DOMAIN net \cup ds
  <2>1. \A d \in ds : d.to = Other(e) /\ d.kind = "data"
    BY <1>11 DEF PacketTo
  <2>2. \A x \in DOMAIN net \cup ds : x.to \in Endpoint /\ x \in PacketTo(x.to) \cup AckTo(x.to)
    BY <1>4, <1>11, <2>1 DEF TInv, GoodNet
  <2>3. \A x \in DOMAIN net : net[x] \in 0..MaxTransit
    BY DEF TInv, GoodNet
  <2> QED BY <1>3, <1>10, <2>2, <2>3, SendingIsGood
<1>13. Only(e, {}, {})
  <2>1. \A x \in Endpoint : \A i \in DOMAIN preSend'[x] :
          \E j \in DOMAIN preSend[x] : preSend'[x][i] = preSend[x][j]
    BY <1>3
  <2>2. \A i \in DOMAIN n.pending : Image(n.pending[i].packet) \in Copies(e)
    BY <1>1, <1>9 DEF Copies
  <2>3. \A d \in ds : d.to = Other(e) /\ d.kind = "data"
    BY <1>11 DEF PacketTo
  <2>4. \A x \in DOMAIN net' :
           \/ x \in DOMAIN net
           \/ \E y \in Endpoint : x.kind = "data" /\ x.to = Other(y) /\ Image(x) \in Copies(y)
    BY <1>11, <1>12, <2>3
  <2>5. Held(n.fragments) \subseteq Pieces(e) \cup {}
    BY <1>1, <1>9 DEF Pieces
  <2>6. \A id \in PacketID : AlreadyReceivedPacket(n.window, id) =>
          AlreadyReceivedPacket(GetConnection(e).window, id) \/ id \in {}
    BY <1>1, <1>9
  <2>7. {} \subseteq Copies(Other(e))
    OBVIOUS
  <2> QED BY <1>6, <1>7, <1>15, <2>1, <2>2, <2>4, <2>5, <2>6, <2>7, HandlerAddsOnly
<1>14. GoodQueues'
  BY <1>3 DEF TInv, GoodQueues
<1> QED BY <1>6, <1>12, <1>13, <1>14 DEF TInv

\* A step that makes nothing.
Quiet ==
  \A x \in Endpoint : /\ Copies(x)' \subseteq Copies(x)
                      /\ Known(x)' \subseteq Known(x)
                      /\ Pieces(x)' \subseteq Pieces(x)

\* A step after which the queues are what they were, nothing new is in flight, and
\* the connections keep the packets, the pieces and the memory they had.
LEMMA QuietStep ==
  ASSUME TInv, preSend' = preSend, DOMAIN net' \subseteq DOMAIN net,
         \A x \in Endpoint :
           /\ Held((GetConnection(x)').fragments) \subseteq Pieces(x)
           /\ (GetConnection(x)').window = GetConnection(x).window
           /\ \A i \in DOMAIN (GetConnection(x)').pending :
                \E j \in DOMAIN GetConnection(x).pending :
                  (GetConnection(x)').pending[i].packet = GetConnection(x).pending[j].packet
  PROVE  Quiet
<1> SUFFICES ASSUME NEW x \in Endpoint
             PROVE  /\ Copies(x)' \subseteq Copies(x)
                    /\ Known(x)' \subseteq Known(x)
                    /\ Pieces(x)' \subseteq Pieces(x)
  BY DEF Quiet
<1>1. Other(x) \in Endpoint
  BY TwoEndpoints
<1>2. Pieces(x)' \subseteq Pieces(x) /\ Pieces(Other(x))' \subseteq Pieces(Other(x))
  BY <1>1 DEF Pieces
<1>3. Known(x)' \subseteq Known(x)
  BY <1>1 DEF Known
<1>4. Copies(x)' \subseteq Copies(x)
  <2>1. Copies(x)' =
          {Image(preSend'[x][i]) : i \in DOMAIN preSend'[x]}
            \cup {Image((GetConnection(x)').pending[i].packet) :
                    i \in DOMAIN (GetConnection(x)').pending}
            \cup {Image(d) : d \in {y \in DOMAIN net' : y.kind = "data" /\ y.to = Other(x)}}
            \cup Pieces(Other(x))'
    BY DEF Copies
  <2>2. \A i \in DOMAIN (GetConnection(x)').pending :
          \E j \in DOMAIN GetConnection(x).pending :
            Image((GetConnection(x)').pending[i].packet) = Image(GetConnection(x).pending[j].packet)
    BY DEF Image
  <2> QED BY <1>2, <2>1, <2>2 DEF Copies
<1> QED BY <1>2, <1>3, <1>4

\* A connection that is a unit of time older.
LEMMA OlderIsGood ==
  ASSUME NEW c, NEW o, Good(c, o), NEW n, n = Older(c)
  PROVE  /\ Good(n, o) /\ n.window = c.window
         /\ Held(n.fragments) = Held(c.fragments)
         /\ DOMAIN n.pending = DOMAIN c.pending
         /\ \A k \in DOMAIN c.pending : n.pending[k].packet = c.pending[k].packet
<1>1. /\ c \in ConnectionTo(o) /\ c.pending \in Seq(Entry(o)) /\ AllSound(c.fragments)
      /\ c.idle \in 0..PACKET_BACKLOG_TIMEOUT
  BY DEF Good, ConnectionTo
<1> DEFINE q == AgePending(c.pending)
           fps == AgeFragments(c.fragments)
           t == IF c.idle > 0 THEN c.idle - 1 ELSE 0
<1>3. /\ DOMAIN q = DOMAIN c.pending
      /\ \A k \in DOMAIN c.pending : q[k] = [c.pending[k] EXCEPT !.dwTimeout = @ - 1]
  BY DEF AgePending
<1>4. (c.idle > 0 => t = c.idle - 1) /\ (~ (c.idle > 0) => t = 0)
  OBVIOUS
<1>5. n = [c EXCEPT !.idle = t, !.pending = q, !.fragments = fps]
  BY Zenon DEF Older
<1>10. AllSound(fps) /\ Held(fps) = Held(c.fragments) /\ fps \in Seq(List)
  BY <1>1, AgeingHolds DEF AllSound
<1> HIDE DEF q, t, fps
<1>6. t \in 0..PACKET_BACKLOG_TIMEOUT
  BY <1>1, <1>4, TransportAssumption
<1>7. /\ q \in Seq(Entry(o)) /\ Len(q) = Len(c.pending) /\ DOMAIN q = DOMAIN c.pending
      /\ \A k \in DOMAIN c.pending : q[k].packet = c.pending[k].packet
  <2>1. ASSUME NEW k \in DOMAIN c.pending
        PROVE  q[k] \in Entry(o) /\ q[k].packet = c.pending[k].packet
    <3>1. PICK x \in Entry(o) : x = c.pending[k]
      BY <1>1
    <3>2. q[k] = [x EXCEPT !.dwTimeout = @ - 1]
      BY <1>3, <3>1
    <3> QED BY <3>1, <3>2 DEF Entry
  <2>2. PICK len \in Nat : len = Len(c.pending) /\ DOMAIN c.pending = 1..len
    BY <1>1
  <2>3. q = [k \in 1..len |-> q[k]]
    BY <1>3, <2>2 DEF q, AgePending
  <2>4. \A k \in 1..len : q[k] \in Entry(o)
    BY <2>1, <2>2
  <2>5. q \in [1..len -> Entry(o)]
    BY <2>3, <2>4
  <2>6. q \in Seq(Entry(o)) /\ Len(q) = len
    BY <2>2, <2>5
  <2> QED BY <1>3, <2>1, <2>2, <2>6
<1>9. /\ n \in ConnectionTo(o) /\ n.pending = q /\ n.fragments = fps
      /\ n.window = c.window
  BY <1>1, <1>5, <1>6, <1>7, <1>10 DEF ConnectionTo
<1> QED BY <1>1, <1>7, <1>9, <1>10 DEF Good

LEMMA TickStep ==
  ASSUME TInv, Tick
  PROVE  TInv' /\ Quiet
<1>1. /\ connection' = [e \in Endpoint |-> IF connection[e] = NoConnection
                                           THEN NoConnection ELSE Older(connection[e])]
      /\ net' = [d \in {x \in DOMAIN net : net[x] > 0} |-> net[d] - 1]
      /\ preSend' = preSend
  BY DEF Tick
<1>2. GoodNet' /\ DOMAIN net' \subseteq DOMAIN net
  <2>1. \A d \in DOMAIN net' : d \in DOMAIN net /\ net[d] > 0 /\ net'[d] = net[d] - 1
    BY <1>1
  <2>2. \A d \in DOMAIN net' : net'[d] \in 0..MaxTransit
    BY <2>1, TransportAssumption DEF TInv, GoodNet
  <2>3. net' = [d \in DOMAIN net' |-> net'[d]]
    BY <1>1
  <2> QED BY <2>1, <2>2, <2>3 DEF TInv, GoodNet
<1>3. ASSUME NEW x \in Endpoint
      PROVE  /\ connection'[x] # NoConnection => Good(connection'[x], Other(x))
             /\ Held((GetConnection(x)').fragments) \subseteq Pieces(x)
             /\ (GetConnection(x)').window = GetConnection(x).window
             /\ \A i \in DOMAIN (GetConnection(x)').pending :
                  \E j \in DOMAIN GetConnection(x).pending :
                    (GetConnection(x)').pending[i].packet = GetConnection(x).pending[j].packet
  <2>1. CASE connection[x] = NoConnection
    BY <1>1, <2>1 DEF GetConnection, Pieces
  <2>2. CASE connection[x] # NoConnection
    <3>1. PICK c, n : c = connection[x] /\ n = Older(c)
      OBVIOUS
    <3>2. Good(c, Other(x)) /\ connection'[x] = n
      BY <1>1, <2>2, <3>1 DEF TInv, GoodConnections
    <3>3. /\ Good(n, Other(x)) /\ n.window = c.window
          /\ Held(n.fragments) = Held(c.fragments)
          /\ DOMAIN n.pending = DOMAIN c.pending
          /\ \A k \in DOMAIN c.pending : n.pending[k].packet = c.pending[k].packet
      BY <3>1, <3>2, OlderIsGood
    <3>4. GetConnection(x)' = n /\ GetConnection(x) = c
      BY <2>2, <3>1, <3>2, <3>3, GoodIsSome DEF GetConnection
    <3> QED BY <3>2, <3>3, <3>4 DEF Pieces
  <2> QED BY <2>1, <2>2
<1>4. GoodConnections'
  <2>1. connection' = [e \in Endpoint |-> connection'[e]]
    BY <1>1
  <2> QED BY <1>3, <2>1 DEF GoodConnections
<1>5. GoodQueues'
  BY <1>1 DEF TInv, GoodQueues
<1>6. Quiet
  BY <1>1, <1>2, <1>3, QuietStep
<1> QED BY <1>2, <1>4, <1>5, <1>6 DEF TInv

LEMMA LoseStep ==
  ASSUME TInv, NEW d \in DOMAIN net, Lose(d)
  PROVE  TInv' /\ Quiet
<1>1. net' = Without1(net, d) /\ connection' = connection /\ preSend' = preSend
  BY DEF Lose
<1>2. GoodNet' /\ DOMAIN net' \subseteq DOMAIN net
  BY <1>1 DEF Without1, TInv, GoodNet
<1>3. GoodConnections' /\ GoodQueues'
  BY <1>1 DEF TInv, GoodConnections, GoodQueues
<1>4. \A x \in Endpoint : GetConnection(x)' = GetConnection(x)
  BY <1>1 DEF GetConnection
<1>5. Quiet
  BY <1>1, <1>2, <1>4, QuietStep DEF Pieces
<1> QED BY <1>2, <1>3, <1>5 DEF TInv

\* What a piece is called: a piece of a cut message has its place in a group, a
\* whole message an identifier of its own.
Numbered(t) ==
  LET m == t.body.msg
      i == t.body.piece
  IN  /\ m \in Msg /\ i \in PieceIndex /\ t.body = [msg |-> m, piece |-> i]
      /\ t.id \in PacketID
      /\ MsgPieces[m] > 1 =>
           /\ t.id < NONFRAGMENTED_PACKETS_IDOFFSET
           /\ t.id % MAX_FRAGMENTS_PER_PACKET = i
           /\ t.lastFrag <=> i = MsgPieces[m] - 1
      /\ ~ (MsgPieces[m] > 1) => t.id >= NONFRAGMENTED_PACKETS_IDOFFSET /\ i = 0

\* What SendPacket queues.
LEMMA DataIsNumbered ==
  ASSUME NEW e \in Endpoint, NEW m \in Msg, NEW c, Good(c, Other(e)),
         NEW i \in 1..MsgPieces[m], NEW base, NEW unf, NEW d, NEW cut \in BOOLEAN,
         cut <=> MsgPieces[m] > 1,
         base = GetFragmentedPacketID(c.fragmentedID),
         unf = GetUnfragmentedPacketID(c.unfragmentedID),
         d = Data(e, m, IF cut THEN base + i - 1 ELSE unf, i - 1)
  PROVE  /\ d \in PacketTo(Other(e)) /\ Numbered(Image(d)) /\ d.body.msg = m
         /\ UseOf(d.id) = UseOf(IF cut THEN base ELSE unf)
<1> DEFINE n == MsgPieces[m]
           k == i - 1
           id == IF cut THEN base + k ELSE unf
<1>1. /\ n \in 1..MAX_FRAGMENTS_PER_PACKET /\ MAX_FRAGMENTS_PER_PACKET \in Nat \ {0}
      /\ Body = [msg : Msg, piece : PieceIndex]
      /\ MsgMaxAck[m] \in Int /\ AckDelay \in Int
  BY PacketIDsAssumption, TransportAssumption
<1>2. k \in 0..(n - 1) /\ k \in PieceIndex
  BY <1>1 DEF PieceIndex
<1>3. c.fragmentedID \in GroupStart /\ c.unfragmentedID \in PacketID
  BY DEF Good, ConnectionTo
<1>4. base \in 0..(NONFRAGMENTED_PACKETS_IDOFFSET - 1) /\ base % MAX_FRAGMENTS_PER_PACKET = 0
  BY <1>3, NextGroup DEF GroupStart
<1>5. /\ base + k \in 0..(NONFRAGMENTED_PACKETS_IDOFFSET - 1)
      /\ (base + k) % MAX_FRAGMENTS_PER_PACKET = k
      /\ (base + k) \div MAX_FRAGMENTS_PER_PACKET = base \div MAX_FRAGMENTS_PER_PACKET
  BY <1>2, <1>4, GroupFits
<1>6. unf \in PacketID /\ unf >= NONFRAGMENTED_PACKETS_IDOFFSET
  BY <1>3, PacketIDsAssumption DEF GetUnfragmentedPacketID, PacketID
<1>7. /\ id \in PacketID
      /\ cut => id < NONFRAGMENTED_PACKETS_IDOFFSET /\ id % MAX_FRAGMENTS_PER_PACKET = k
      /\ ~ cut => id >= NONFRAGMENTED_PACKETS_IDOFFSET
  <2>1. CASE cut
    BY <1>5, <2>1, PacketIDsAssumption DEF PacketID
  <2>2. CASE ~ cut
    BY <1>6, <2>2
  <2> QED BY <2>1, <2>2
<1>8. d = Data(e, m, id, k)
  <2>1. base + i - 1 = base + k
    BY <1>4
  <2> QED BY <2>1
<1>9. UseOf(id) = UseOf(IF cut THEN base ELSE unf)
  <2>1. CASE cut
    <3>1. UseOf(base + k) = (base + k) \div MAX_FRAGMENTS_PER_PACKET
      BY <1>5, PacketIDsAssumption DEF UseOf
    <3>2. UseOf(base) = base \div MAX_FRAGMENTS_PER_PACKET
      BY <1>4, PacketIDsAssumption DEF UseOf
    <3> QED BY <1>5, <2>1, <3>1, <3>2
  <2>2. CASE ~ cut
    BY <2>2
  <2> QED BY <2>1, <2>2
<1> HIDE DEF id, k
<1>10. /\ d.kind = "data" /\ d.to = Other(e) /\ d.id = id
       /\ d.lastFrag = (n > 1 /\ k = n - 1) /\ d.body = [msg |-> m, piece |-> k]
  BY <1>8 DEF Data
<1>11. d \in PacketTo(Other(e))
  <2>1. PICK safe, last, body : /\ safe = (MsgMaxAck[m] # 0)
                                /\ last = (n > 1 /\ k = n - 1)
                                /\ body = [msg |-> m, piece |-> k]
    OBVIOUS
  <2>2. safe \in BOOLEAN /\ last \in BOOLEAN
    BY <2>1
  <2>3. body \in Body
    BY <1>1, <1>2, <2>1
  <2>4. d = [kind |-> "data", to |-> Other(e), id |-> id, safe |-> safe,
             lastFrag |-> last, body |-> body, dwAckDelay |-> AckDelay,
             dwAckCount |-> MsgMaxAck[m]]
    BY <1>8, <2>1, Zenon DEF Data
  <2> QED BY <1>1, <1>7, <2>2, <2>3, <2>4 DEF PacketTo
<1>12. ~ cut => k = 0
  BY <1>1, <1>2
<1>13. Numbered(Image(d))
  <2>1. PICK t : t = Image(d)
    OBVIOUS
  <2>2. t.id = id /\ t.lastFrag = d.lastFrag /\ t.body = [msg |-> m, piece |-> k]
    BY <1>10, <2>1 DEF Image
  <2>3. t.body.msg = m /\ t.body.piece = k
    BY <2>2
  <2>4. n > 1 => (t.lastFrag <=> k = n - 1)
    BY <1>10, <2>2
  <2>5. Numbered(t)
    BY <1>2, <1>7, <1>12, <2>2, <2>3, <2>4 DEF Numbered
  <2> QED BY <2>1, <2>5
<1> QED BY <1>9, <1>10, <1>11, <1>13

\* SendPacket queues packets that say where they belong, and nothing else changes.
LEMMA SendPacketStep ==
  ASSUME TInv, NEW e \in Endpoint, NEW m \in Msg, SendPacket(e, m)
  PROVE  /\ TInv'
         /\ \A x \in Endpoint :
              /\ Known(x)' \subseteq Known(x) /\ Pieces(x)' \subseteq Pieces(x)
              /\ \A t \in Copies(x)' :
                   t \in Copies(x) \/ /\ x = e /\ Numbered(t) /\ t.body.msg = m
                                      /\ UseOf(t.id) = NewUse(m)
<1>1. PICK c : c = GetConnection(e)
  OBVIOUS
<1>2. PICK cut \in BOOLEAN : cut <=> MsgPieces[m] > 1
  OBVIOUS
<1>3. PICK base, unf : /\ base = GetFragmentedPacketID(c.fragmentedID)
                       /\ unf = GetUnfragmentedPacketID(c.unfragmentedID)
  OBVIOUS
<1>4. PICK new : new = [i \in 1..MsgPieces[m] |->
                          Data(e, m, IF cut THEN base + i - 1 ELSE unf, i - 1)]
  OBVIOUS
<1>5. PICK c2 : c2 = IF cut THEN [c EXCEPT !.fragmentedID = base]
                            ELSE [c EXCEPT !.unfragmentedID = unf]
  OBVIOUS
<1>6. /\ connection' = [connection EXCEPT ![e] = c2] /\ MsgFrom[m] = e /\ net' = net
      /\ preSend' = [preSend EXCEPT ![e] = @ \o new]
  <2>1. /\ connection' = [connection EXCEPT ![e] =
             IF MsgPieces[m] > 1 THEN [c EXCEPT !.fragmentedID = base]
                                 ELSE [c EXCEPT !.unfragmentedID = unf]]
        /\ preSend' = [preSend EXCEPT ![e] = @ \o
             [i \in 1..MsgPieces[m] |->
                Data(e, m, IF MsgPieces[m] > 1 THEN base + i - 1 ELSE unf, i - 1)]]
        /\ MsgFrom[m] = e /\ net' = net
    BY <1>1, <1>3 DEF SendPacket
  <2> QED BY <1>2, <1>4, <1>5, <2>1
<1>7. Good(c, Other(e)) /\ GoodConnections
  BY <1>1, GetConnectionGood DEF TInv
<1>8. ASSUME NEW i \in 1..MsgPieces[m]
      PROVE  /\ new[i] \in PacketTo(Other(e)) /\ Numbered(Image(new[i]))
             /\ new[i].body.msg = m /\ UseOf(new[i].id) = NewUse(m)
  <2>1. new[i] = Data(e, m, IF cut THEN base + i - 1 ELSE unf, i - 1)
    BY <1>4
  <2>2. /\ new[i] \in PacketTo(Other(e)) /\ Numbered(Image(new[i]))
        /\ new[i].body.msg = m /\ UseOf(new[i].id) = UseOf(IF cut THEN base ELSE unf)
    BY <1>2, <1>3, <1>7, <2>1, DataIsNumbered
  <2>3. NewUse(m) = UseOf(IF cut THEN base ELSE unf)
    BY <1>1, <1>2, <1>3, <1>6 DEF NewUse
  <2> QED BY <2>2, <2>3
<1>9. /\ Good(c2, Other(e)) /\ c2.window = c.window /\ c2.pending = c.pending
      /\ c2.fragments = c.fragments
  <2>1. c \in ConnectionTo(Other(e))
    BY <1>7 DEF Good
  <2>2. base \in GroupStart
    BY <1>3, <2>1, NextGroup DEF ConnectionTo, GroupStart
  <2>3. unf \in PacketID
    BY <1>3, <2>1, PacketIDsAssumption DEF ConnectionTo, GetUnfragmentedPacketID, PacketID
  <2>4. /\ c2 \in ConnectionTo(Other(e)) /\ c2.window = c.window /\ c2.pending = c.pending
        /\ c2.fragments = c.fragments
    BY <1>5, <2>1, <2>2, <2>3 DEF ConnectionTo
  <2> QED BY <1>7, <2>4 DEF Good
<1>10. GoodConnections'
  BY <1>6, <1>7, <1>9, ReplacedIsGood
<1>11. /\ new \in Seq(PacketTo(Other(e))) /\ DOMAIN new = 1..MsgPieces[m]
       /\ Len(new) = MsgPieces[m]
  <2>1. PICK n \in Nat : n = MsgPieces[m]
    BY TransportAssumption
  <2>2. new = [i \in 1..n |-> new[i]] /\ \A i \in 1..n : new[i] \in PacketTo(Other(e))
    BY <1>4, <1>8, <2>1
  <2>3. new \in [1..n -> PacketTo(Other(e))]
    BY <2>2
  <2> HIDE <1>4
  <2> QED BY <2>1, <2>3
<1>12. preSend[e] \in Seq(PacketTo(Other(e)))
  BY DEF TInv, GoodQueues
<1>13. /\ preSend[e] \o new \in Seq(PacketTo(Other(e)))
       /\ \A i \in DOMAIN (preSend[e] \o new) :
            \/ \E j \in DOMAIN preSend[e] : (preSend[e] \o new)[i] = preSend[e][j]
            \/ \E j \in DOMAIN new : (preSend[e] \o new)[i] = new[j]
  <2>4. PICK q : q = preSend[e] /\ q \in Seq(PacketTo(Other(e)))
    BY <1>12
  <2>1. PICK a \in Nat, b \in Nat :
          a = Len(q) /\ b = Len(new) /\ DOMAIN q = 1..a /\ DOMAIN new = 1..b
    BY <1>11, <2>4
  <2>2. /\ q \o new \in Seq(PacketTo(Other(e))) /\ DOMAIN (q \o new) = 1..(a + b)
        /\ \A i \in 1..(a + b) : (q \o new)[i] = IF i <= a THEN q[i] ELSE new[i - a]
    BY <1>11, <2>1, <2>4
  <2>3. \A i \in 1..(a + b) : (i <= a /\ i \in 1..a) \/ (~ (i <= a) /\ i - a \in 1..b)
    BY <2>1
  <2> QED BY <2>1, <2>2, <2>3, <2>4
<1>14. GoodQueues'
  BY <1>6, <1>13 DEF TInv, GoodQueues
<1>15. TInv'
  BY <1>6, <1>10, <1>14 DEF TInv, GoodNet
<1>16. /\ GetConnection(e)' = c2
       /\ \A x \in Endpoint : x # e => GetConnection(x)' = GetConnection(x)
  BY <1>6, <1>7, <1>9, ConnectionNow, GoodIsSome
<1>17. \A x \in Endpoint :
         /\ (GetConnection(x)').window = GetConnection(x).window
         /\ (GetConnection(x)').pending = GetConnection(x).pending
         /\ (GetConnection(x)').fragments = GetConnection(x).fragments
  BY <1>1, <1>9, <1>16
<1>18. ASSUME NEW x \in Endpoint
       PROVE  /\ Known(x)' \subseteq Known(x) /\ Pieces(x)' = Pieces(x)
              /\ Pieces(Other(x))' = Pieces(Other(x))
  <2>1. Other(x) \in Endpoint
    BY TwoEndpoints
  <2> QED BY <1>6, <1>17, <2>1 DEF Known, Pieces
<1>19. ASSUME NEW x \in Endpoint, NEW t \in Copies(x)'
       PROVE  t \in Copies(x) \/ /\ x = e /\ Numbered(t) /\ t.body.msg = m
                                 /\ UseOf(t.id) = NewUse(m)
  <2>1. CASE \E i \in DOMAIN preSend'[x] : t = Image(preSend'[x][i])
    <3>1. PICK i \in DOMAIN preSend'[x] : t = Image(preSend'[x][i])
      BY <2>1
    <3>2. CASE x = e
      <4>1. preSend'[e] = preSend[e] \o new
        BY <1>6 DEF TInv, GoodQueues
      <4>2. CASE \E j \in DOMAIN preSend[e] : preSend'[x][i] = preSend[e][j]
        BY <3>1, <3>2, <4>2 DEF Copies
      <4>3. CASE \E j \in DOMAIN new : preSend'[x][i] = new[j]
        <5>1. PICK j \in 1..MsgPieces[m] : t = Image(new[j])
          BY <1>11, <3>1, <4>3
        <5>2. t.body = new[j].body /\ t.id = new[j].id
          BY <5>1 DEF Image
        <5> QED BY <1>8, <3>2, <5>1, <5>2
      <4> QED BY <1>13, <3>1, <3>2, <4>1, <4>2, <4>3
    <3>3. CASE x # e
      <4>1. preSend'[x] = preSend[x]
        BY <1>6, <3>3 DEF TInv, GoodQueues
      <4> QED BY <3>1, <4>1 DEF Copies
    <3> QED BY <3>2, <3>3
  <2>2. CASE \E i \in DOMAIN (GetConnection(x)').pending :
               t = Image((GetConnection(x)').pending[i].packet)
    BY <1>17, <2>2 DEF Copies
  <2>3. CASE t \in {Image(d) : d \in {y \in DOMAIN net' : y.kind = "data" /\ y.to = Other(x)}}
    BY <1>6, <2>3 DEF Copies
  <2>4. CASE t \in Pieces(Other(x))'
    BY <1>18, <2>4 DEF Copies
  <2>5. Copies(x)' =
          {Image(preSend'[x][i]) : i \in DOMAIN preSend'[x]}
            \cup {Image((GetConnection(x)').pending[i].packet) :
                    i \in DOMAIN (GetConnection(x)').pending}
            \cup {Image(d) : d \in {y \in DOMAIN net' : y.kind = "data" /\ y.to = Other(x)}}
            \cup Pieces(Other(x))'
    BY DEF Copies
  <2> QED BY <2>1, <2>2, <2>3, <2>4, <2>5
<1> QED BY <1>15, <1>18, <1>19

-----------------------------------------------------------------------------
(***************************************************************************)
(* The types, and the packets there are.                                   *)
(***************************************************************************)
\* Every packet anywhere is a piece of a message its sender has sent, under a
\* number that says which piece.
AllNumbered ==
  \A e \in Endpoint : \A t \in Copies(e) :
    Numbered(t) /\ MsgFrom[t.body.msg] = e /\ t.body.msg \in sent

\* What a received datagram does is one of three things.
LEMMA ReceiveDataStep ==
  ASSUME TInv, NEW e \in Endpoint, NEW d \in DOMAIN net, ReceiveData(e, d)
  PROVE  \/ DropDuplicate(e, d) /\ TInv' /\ Only(e, {}, {}) /\ d.id \in Known(Other(e))
         \/ AcceptUnfragmented(e, d) /\ TInv' /\ Only(e, {d.id}, {})
         \/ AcceptFragment(e, d) /\ TInv' /\ Only(e, {d.id}, {Image(d)})
<1>1. DropDuplicate(e, d) \/ AcceptUnfragmented(e, d) \/ AcceptFragment(e, d)
  BY DEF ReceiveData
<1> QED BY <1>1, DropStep, AcceptWholeStep, AcceptFragmentStep

LEMMA OnlyIsNothingNew ==
  ASSUME NEW e, NEW ids, NEW ps, Only(e, ids, ps)
  PROVE  \A x \in Endpoint : Copies(x)' \subseteq Copies(x)
BY DEF Only

LEMMA OnlyNothingIsQuiet ==
  ASSUME NEW e, Only(e, {}, {})
  PROVE  Quiet
BY DEF Only, Quiet

\* The steps: SendPacket makes packets, a received datagram is remembered, every
\* other step is quiet.
LEMMA Steps ==
  ASSUME TInv, [Next]_vars
  PROVE  /\ TInv'
         /\ \/ \E e \in Endpoint, m \in Msg : SendPacket(e, m)
            \/ \E e \in Endpoint : \E d \in DOMAIN net : ReceiveData(e, d)
            \/ \E e \in Endpoint : \E d \in DOMAIN net : ReceiveAck(e, d) /\ Quiet
            \/ Quiet /\ UNCHANGED <<sent, analysed, repeated, registered, refused, acked>>
<1>1. ASSUME NEW e \in Endpoint, NEW m \in Msg, SendPacket(e, m) PROVE TInv'
  BY <1>1, SendPacketStep
<1>2. ASSUME NEW e \in Endpoint, NEW d \in DOMAIN net, ReceiveData(e, d) PROVE TInv'
  BY <1>2, ReceiveDataStep
<1>3. ASSUME NEW e \in Endpoint, NEW d \in DOMAIN net, ReceiveAck(e, d) PROVE TInv' /\ Quiet
  BY <1>3, ReceiveAckStep, OnlyNothingIsQuiet
<1>4. ASSUME NEW e \in Endpoint, UDPSendPacketThread(e)
      PROVE  /\ TInv' /\ Quiet
             /\ UNCHANGED <<sent, analysed, repeated, registered, refused, acked>>
  <2>1. TInv' /\ Quiet
    BY <1>4, SendThreadStep, OnlyNothingIsQuiet
  <2>2. UNCHANGED <<sent, analysed, repeated, registered, refused, acked>>
    BY <1>4 DEF UDPSendPacketThread
  <2> QED BY <2>1, <2>2
<1>5. ASSUME NEW e \in Endpoint, Maintenance(e)
      PROVE  /\ TInv' /\ Quiet
             /\ UNCHANGED <<sent, analysed, repeated, registered, refused, acked>>
  <2>1. TInv' /\ Quiet
    BY <1>5, MaintenanceStep, OnlyNothingIsQuiet
  <2>2. UNCHANGED <<sent, analysed, repeated, registered, refused, acked>>
    BY <1>5 DEF Maintenance
  <2> QED BY <2>1, <2>2
<1>6. ASSUME Tick
      PROVE  /\ TInv' /\ Quiet
             /\ UNCHANGED <<sent, analysed, repeated, registered, refused, acked>>
  <2>1. UNCHANGED <<sent, analysed, repeated, registered, refused, acked>>
    BY <1>6 DEF Tick
  <2> QED BY <1>6, <2>1, TickStep
<1>7. ASSUME NEW d \in DOMAIN net, Lose(d)
      PROVE  /\ TInv' /\ Quiet
             /\ UNCHANGED <<sent, analysed, repeated, registered, refused, acked>>
  <2>1. UNCHANGED <<sent, analysed, repeated, registered, refused, acked>>
    BY <1>7 DEF Lose
  <2> QED BY <1>7, <2>1, LoseStep
<1>8. ASSUME UNCHANGED vars
      PROVE  /\ TInv' /\ Quiet
             /\ UNCHANGED <<sent, analysed, repeated, registered, refused, acked>>
  <2>1. /\ connection' = connection /\ preSend' = preSend /\ net' = net
        /\ UNCHANGED <<sent, analysed, repeated, registered, refused, acked>>
    BY <1>8 DEF vars
  <2>2. TInv'
    BY <2>1 DEF TInv, GoodConnections, GoodQueues, GoodNet
  <2>3. Quiet
    BY <2>1 DEF Quiet, Copies, Known, Pieces, GetConnection
  <2> QED BY <2>1, <2>2, <2>3
<1> QED BY <1>1, <1>2, <1>3, <1>4, <1>5, <1>6, <1>7, <1>8 DEF Next, Handle

LEMMA InitIsGood == Init => TInv /\ \A e \in Endpoint : Copies(e) = {} /\ Pieces(e) = {}
<1> SUFFICES ASSUME Init PROVE TInv /\ \A e \in Endpoint : Copies(e) = {} /\ Pieces(e) = {}
  OBVIOUS
<1>1. /\ connection = [e \in Endpoint |-> NoConnection] /\ net = <<>>
      /\ preSend = [e \in Endpoint |-> <<>>]
  BY DEF Init
<1>2. TInv
  BY <1>1 DEF TInv, GoodConnections, GoodQueues, GoodNet
<1>3. \A e \in Endpoint : GetConnection(e) = NewConnection
  BY <1>1 DEF GetConnection
<1>4. NewConnection.pending = <<>> /\ NewConnection.fragments = <<>>
  BY DEF NewConnection
<1>5. \A e \in Endpoint : Pieces(e) = {}
  BY <1>3, <1>4 DEF Pieces, Held
<1>6. \A e \in Endpoint : Copies(e) = {}
  BY <1>1, <1>3, <1>4, <1>5, TwoEndpoints DEF Copies
<1> QED BY <1>2, <1>5, <1>6

LEMMA NumberedStep ==
  ASSUME TInv, AllNumbered, [Next]_vars
  PROVE  AllNumbered'
<1>1. ASSUME NEW e \in Endpoint, NEW m \in Msg, SendPacket(e, m) PROVE AllNumbered'
  <2>1. sent' = sent \cup {m} /\ MsgFrom[m] = e
    BY <1>1 DEF SendPacket
  <2>2. \A x \in Endpoint : \A t \in Copies(x)' :
          t \in Copies(x) \/ (x = e /\ Numbered(t) /\ t.body.msg = m)
    BY <1>1, SendPacketStep
  <2>3. \A x \in Endpoint : \A t \in Copies(x)' :
          Numbered(t) /\ MsgFrom[t.body.msg] = x /\ t.body.msg \in sent'
    <3> TAKE x \in Endpoint
    <3> TAKE t \in Copies(x)'
    <3>1. CASE t \in Copies(x)
      BY <2>1, <3>1 DEF AllNumbered
    <3>2. CASE x = e /\ Numbered(t) /\ t.body.msg = m
      BY <2>1, <3>2
    <3> QED BY <2>2, <3>1, <3>2
  <2> QED BY <2>3 DEF AllNumbered, Numbered
<1>2. ASSUME \A x \in Endpoint : Copies(x)' \subseteq Copies(x), sent' = sent
      PROVE  AllNumbered'
  BY <1>2 DEF AllNumbered, Numbered
<1>3. ASSUME NEW e \in Endpoint, NEW d \in DOMAIN net, ReceiveData(e, d) PROVE AllNumbered'
  <2>1. \A x \in Endpoint : Copies(x)' \subseteq Copies(x)
    BY <1>3, ReceiveDataStep, OnlyIsNothingNew
  <2>2. sent' = sent
    BY <1>3 DEF ReceiveData
  <2> QED BY <1>2, <2>1, <2>2
<1>4. ASSUME NEW e \in Endpoint, NEW d \in DOMAIN net, ReceiveAck(e, d), Quiet
      PROVE  AllNumbered'
  BY <1>2, <1>4 DEF Quiet, ReceiveAck
<1>5. ASSUME Quiet, sent' = sent PROVE AllNumbered'
  BY <1>2, <1>5 DEF Quiet
<1> QED BY <1>1, <1>3, <1>4, <1>5, Steps

\* What holds however the identifiers are used.
LEMMA TypesHold == Spec => [](TInv /\ AllNumbered)
<1>1. Init => TInv /\ AllNumbered
  BY InitIsGood DEF AllNumbered
<1>2. TInv /\ AllNumbered /\ [Next]_vars => (TInv /\ AllNumbered)'
  BY Steps, NumberedStep
<1> QED BY <1>1, <1>2, PTL DEF Spec

\* The connections, queues and datagrams are what their types say: no list grows
\* beyond its limit, the counters stay in their ranges.
THEOREM TypeCorrect == Spec => []TypeOK
<1>1. TInv => TypeOK
  <2> SUFFICES ASSUME TInv PROVE TypeOK
    OBVIOUS
  <2>1. ASSUME NEW e \in Endpoint, connection[e] # NoConnection
        PROVE  LET c == connection[e]
               IN  /\ c.fragmentedID \in 0..(NONFRAGMENTED_PACKETS_IDOFFSET - 1)
                   /\ c.unfragmentedID \in PacketID
                   /\ c.window \in Window
                   /\ Len(c.pending) <= MAX_PACKET_PENDING_LIST
                   /\ \A i \in DOMAIN c.fragments : c.fragments[i] \in List
                   /\ c.idle \in 0..PACKET_BACKLOG_TIMEOUT
    <3>1. PICK c : c = connection[e] /\ Good(c, Other(e))
      BY <2>1 DEF TInv, GoodConnections
    <3>2. /\ c.fragmentedID \in GroupStart /\ c.unfragmentedID \in PacketID
          /\ c.window \in Window /\ c.fragments \in Seq(List)
          /\ c.idle \in 0..PACKET_BACKLOG_TIMEOUT
      BY <3>1 DEF Good, ConnectionTo
    <3>3. \A i \in DOMAIN c.fragments : c.fragments[i] \in List
      BY <3>2
    <3>4. c.fragmentedID \in 0..(NONFRAGMENTED_PACKETS_IDOFFSET - 1)
      BY <3>2 DEF GroupStart
    <3>5. Len(c.pending) <= MAX_PACKET_PENDING_LIST
      BY <3>1 DEF Good
    <3>6. c = connection[e]
      BY <3>1
    <3> QED BY <3>2, <3>3, <3>4, <3>5, <3>6
  <2>2. \A d \in DOMAIN net : net[d] \in 0..MaxTransit
    BY DEF TInv, GoodNet
  <2> QED BY <2>1, <2>2 DEF TypeOK
<1> QED BY <1>1, TypesHold, PTL


-----------------------------------------------------------------------------
(***************************************************************************)
(* At most once.                                                           *)
(***************************************************************************)
\* What a received fragment completes is the message of a complete list that
\* holds it.
LEMMA FragmentAccepted ==
  ASSUME TInv, NEW e \in Endpoint, NEW d \in DOMAIN net, ReceiveData(e, d),
         AcceptFragment(e, d)
  PROVE  \/ UNCHANGED <<analysed, repeated>>
         \/ \E fl, payload :
              /\ Sound(fl) /\ Complete(fl)
              /\ HeldBy(fl) \subseteq Pieces(e) \cup {Image(d)}
              /\ PieceOf(Image(d)) \in DOMAIN payload
              /\ fl.fragList[PieceOf(Image(d))] = Image(d)
              /\ payload = [i \in 0..(fl.nOfPieces - 1) |-> fl.fragList[i].body]
              /\ PostAnalysePacket(payload)
<1> DEFINE g == GetConnection(e)
           c == Registered(g, d.id)
           r == RegisterFragment(c.fragments, Image(d))
<1>1. d \in PacketTo(e)
  BY ReceivedNet
<1>2. /\ d.id < NONFRAGMENTED_PACKETS_IDOFFSET
      /\ IF r.completed = <<>>
         THEN UNCHANGED <<analysed, repeated>>
         ELSE PostAnalysePacket([i \in DOMAIN r.completed |-> r.completed[i].body])
  BY DEF AcceptFragment, Image
<1>3. Image(d) \in Piece
  BY <1>1, <1>2, ImageIsPiece
<1>4. Good(g, Other(e)) /\ d.id \in PacketID
  BY <1>1, GetConnectionGood DEF TInv, PacketTo
<1>5. c.fragments = g.fragments /\ Good(c, Other(e))
  BY <1>4, RegisteredIsGood
<1>6. AllSound(c.fragments) /\ Held(c.fragments) = Pieces(e)
  BY <1>5 DEF Good, Pieces
<1>7. CASE r.completed = <<>>
  BY <1>2, <1>7
<1>8. CASE r.completed # <<>>
  <2>1. PICK fl : /\ Sound(fl) /\ Complete(fl)
                  /\ HeldBy(fl) \subseteq Held(c.fragments) \cup {Image(d)}
                  /\ fl.fragList[PieceOf(Image(d))] = Image(d)
                  /\ PieceOf(Image(d)) < fl.nOfPieces
                  /\ r.completed = BuildCompletedPacket(fl)
    BY <1>3, <1>6, <1>8, FragmentRegistered
  <2> DEFINE payload == [i \in 0..(fl.nOfPieces - 1) |-> fl.fragList[i].body]
  <2>2. [i \in DOMAIN r.completed |-> r.completed[i].body] = payload
    BY <2>1 DEF BuildCompletedPacket
  <2>3. PostAnalysePacket(payload)
    BY <1>2, <1>8, <2>2
  <2>4. PieceOf(Image(d)) \in 0..(fl.nOfPieces - 1)
    <3>1. PieceOf(Image(d)) \in PieceIndex
      BY <1>3, PieceOfType
    <3>2. fl.nOfPieces \in Nat
      BY <2>1 DEF Sound, List
    <3> QED BY <2>1, <3>1, <3>2 DEF PieceIndex
  <2>5. PieceOf(Image(d)) \in DOMAIN payload
    BY <2>4
  <2> HIDE DEF payload
  <2>6. payload = [i \in 0..(fl.nOfPieces - 1) |-> fl.fragList[i].body]
    BY DEF payload
  <2> QED BY <1>6, <2>1, <2>3, <2>5, <2>6
<1> QED BY <1>7, <1>8

\* A complete list's message, piece by piece.
LEMMA CompletedPiece ==
  ASSUME NEW fl, Sound(fl), Complete(fl), NEW i \in 0..(fl.nOfPieces - 1)
  PROVE  i \in PieceIndex /\ fl.fragList[i] \in Piece /\ fl.fragList[i] \in HeldBy(fl)
<1>1. i \in PieceIndex /\ fl.fragList[i] \in Piece
  BY CompleteHoldsAll
<1>2. fl.fragList[i] # NoPiece
  BY <1>1, FragmentsAssumption
<1> QED BY <1>1, <1>2 DEF HeldBy

\* What was given to the program, and what is held for it, was registered: a
\* message that is given again has a piece that is registered again.
GivenWasRegistered ==
  /\ \A payload \in analysed : \A i \in DOMAIN payload : payload[i] \in registered
  /\ \A e \in Endpoint : \A p \in Pieces(e) : p.body \in registered

\* A payload of registered pieces and a new one is given for the first time.
LEMMA GivenOnce ==
  ASSUME AtMostOnce, GivenWasRegistered, NEW payload, PostAnalysePacket(payload),
         NEW b, b \notin registered, registered' = registered \cup {b},
         \A i \in DOMAIN payload : payload[i] \in registered \cup {b},
         \E i \in DOMAIN payload : payload[i] = b
  PROVE  /\ AtMostOnce'
         /\ \A q \in analysed' : \A i \in DOMAIN q : q[i] \in registered'
<1>1. payload \notin analysed
  BY DEF GivenWasRegistered
<1>2. analysed' = analysed \cup {payload} /\ repeated' = repeated
  BY <1>1 DEF PostAnalysePacket
<1> QED BY <1>2 DEF AtMostOnce, GivenWasRegistered

LEMMA AtMostOnceStep ==
  ASSUME TInv, AtMostOnce, GivenWasRegistered, NoLateCopy, [Next]_vars
  PROVE  AtMostOnce' /\ GivenWasRegistered'
<1>1. ASSUME \A x \in Endpoint : Pieces(x)' \subseteq Pieces(x),
             UNCHANGED <<analysed, repeated, registered>>
      PROVE  AtMostOnce' /\ GivenWasRegistered'
  BY <1>1 DEF AtMostOnce, GivenWasRegistered
<1>2. ASSUME NEW e \in Endpoint, NEW m \in Msg, SendPacket(e, m)
      PROVE  AtMostOnce' /\ GivenWasRegistered'
  <2>1. \A x \in Endpoint : Pieces(x)' \subseteq Pieces(x)
    BY <1>2, SendPacketStep
  <2>2. UNCHANGED <<analysed, repeated, registered>>
    BY <1>2 DEF SendPacket
  <2> QED BY <1>1, <2>1, <2>2
<1>3. ASSUME NEW e \in Endpoint, NEW d \in DOMAIN net, ReceiveData(e, d)
      PROVE  AtMostOnce' /\ GivenWasRegistered'
  <2>1. CASE DropDuplicate(e, d) /\ Only(e, {}, {})
    <3>1. \A x \in Endpoint : Pieces(x)' \subseteq Pieces(x)
      BY <2>1, OnlyNothingIsQuiet DEF Quiet
    <3>2. UNCHANGED <<analysed, repeated, registered>>
      BY <2>1 DEF DropDuplicate
    <3> QED BY <1>1, <3>1, <3>2
  <2>2. d.kind = "data" /\ d.to = e
    BY <1>3 DEF ReceiveData
  <2>3. ASSUME ~ AlreadyReceivedPacket(GetConnection(e).window, d.id)
        PROVE  d.body \notin registered
    BY <2>2, <2>3 DEF NoLateCopy
  <2>4. CASE AcceptUnfragmented(e, d) /\ Only(e, {d.id}, {})
    <3> DEFINE payload == [i \in {0} |-> d.body]
    <3>1. /\ d.body \notin registered /\ registered' = registered \cup {d.body}
          /\ PostAnalysePacket(payload)
      BY <2>3, <2>4 DEF AcceptUnfragmented
    <3>2. /\ \A i \in DOMAIN payload : payload[i] = d.body
          /\ \E i \in DOMAIN payload : payload[i] = d.body
      OBVIOUS
    <3> HIDE DEF payload
    <3>3. /\ AtMostOnce'
          /\ \A q \in analysed' : \A i \in DOMAIN q : q[i] \in registered'
      BY <3>1, <3>2, GivenOnce
    <3>4. \A x \in Endpoint : Pieces(x)' \subseteq Pieces(x)
      BY <2>4 DEF Only
    <3> QED BY <3>1, <3>3, <3>4 DEF GivenWasRegistered
  <2>5. CASE AcceptFragment(e, d) /\ Only(e, {d.id}, {Image(d)})
    <3>1. d.body \notin registered /\ registered' = registered \cup {d.body}
      BY <2>3, <2>5 DEF AcceptFragment
    <3>2. \A x \in Endpoint : \A p \in Pieces(x)' : p.body \in registered'
      <4>1. \A x \in Endpoint : Pieces(x)' \subseteq Pieces(x) \cup {Image(d)}
        BY <2>5 DEF Only
      <4>2. Image(d).body = d.body
        BY DEF Image
      <4> QED BY <3>1, <4>1, <4>2 DEF GivenWasRegistered
    <3>3. CASE UNCHANGED <<analysed, repeated>>
      BY <3>1, <3>2, <3>3 DEF AtMostOnce, GivenWasRegistered
    <3>4. ASSUME NEW fl, NEW payload, Sound(fl), Complete(fl),
                 HeldBy(fl) \subseteq Pieces(e) \cup {Image(d)},
                 PieceOf(Image(d)) \in DOMAIN payload,
                 fl.fragList[PieceOf(Image(d))] = Image(d),
                 payload = [i \in 0..(fl.nOfPieces - 1) |-> fl.fragList[i].body],
                 PostAnalysePacket(payload)
          PROVE  AtMostOnce' /\ GivenWasRegistered'
      <4>1. ASSUME NEW i \in DOMAIN payload
            PROVE  payload[i] \in registered \cup {d.body}
        <5>1. i \in 0..(fl.nOfPieces - 1) /\ payload[i] = fl.fragList[i].body
          BY <3>4
        <5>2. fl.fragList[i] \in Pieces(e) \cup {Image(d)}
          BY <3>4, <5>1, CompletedPiece
        <5>3. Image(d).body = d.body
          BY DEF Image
        <5> QED BY <5>1, <5>2, <5>3 DEF GivenWasRegistered
      <4>2. payload[PieceOf(Image(d))] = d.body
        <5>1. payload[PieceOf(Image(d))] = fl.fragList[PieceOf(Image(d))].body
          BY <3>4
        <5> QED BY <3>4, <5>1 DEF Image
      <4>3. /\ AtMostOnce'
            /\ \A q \in analysed' : \A i \in DOMAIN q : q[i] \in registered'
        BY <3>1, <3>4, <4>1, <4>2, GivenOnce
      <4> QED BY <3>2, <4>3 DEF GivenWasRegistered
    <3> QED BY <1>3, <2>5, <3>3, <3>4, FragmentAccepted
  <2> QED BY <1>3, <2>1, <2>4, <2>5, ReceiveDataStep
<1>4. ASSUME NEW e \in Endpoint, NEW d \in DOMAIN net, ReceiveAck(e, d), Quiet
      PROVE  AtMostOnce' /\ GivenWasRegistered'
  BY <1>1, <1>4 DEF ReceiveAck, Quiet
<1>5. ASSUME Quiet, UNCHANGED <<sent, analysed, repeated, registered, refused, acked>>
      PROVE  AtMostOnce' /\ GivenWasRegistered'
  BY <1>1, <1>5 DEF Quiet
<1> QED BY <1>2, <1>3, <1>4, <1>5, Steps

\* No message is given to the program twice, whatever is lost, duplicated or
\* retransmitted, as long as no copy of a registered packet outlives the peer's
\* memory of it: a ring that wraps or goes with its connection is the only way.
THEOREM GivenAtMostOnce == Spec /\ []NoLateCopy => []AtMostOnce
<1>1. Init => AtMostOnce /\ GivenWasRegistered
  BY InitIsGood DEF Init, AtMostOnce, GivenWasRegistered
<1>2. TInv /\ AtMostOnce /\ GivenWasRegistered /\ NoLateCopy /\ [Next]_vars
        => AtMostOnce' /\ GivenWasRegistered'
  BY AtMostOnceStep
<1> QED BY <1>1, <1>2, TypesHold, PTL DEF Spec


-----------------------------------------------------------------------------
(***************************************************************************)
(* Numbers that are free.                                                  *)
(***************************************************************************)
\* What InUse collects, one place after the other.
LEMMA InUsePlaces ==
  ASSUME NEW e \in Endpoint
  PROVE  /\ \A i \in DOMAIN preSend[e] : UseOf(preSend[e][i].id) \in InUse(e)
         /\ \A i \in DOMAIN GetConnection(e).pending :
              UseOf(GetConnection(e).pending[i].packet.id) \in InUse(e)
         /\ \A d \in DOMAIN net :
              d.to = (IF d.kind = "data" THEN Other(e) ELSE e) => UseOf(d.id) \in InUse(e)
         /\ \A id \in PacketID :
              AlreadyReceivedPacket(GetConnection(Other(e)).window, id) => UseOf(id) \in InUse(e)
         /\ \A i \in DOMAIN GetConnection(Other(e)).fragments :
              GetConnection(Other(e)).fragments[i].id \in InUse(e)
<1>1. \A i \in DOMAIN preSend[e] : UseOf(preSend[e][i].id) \in InUse(e)
  BY DEF InUse
<1>2. \A i \in DOMAIN GetConnection(e).pending :
        UseOf(GetConnection(e).pending[i].packet.id) \in InUse(e)
  BY DEF InUse
<1>3. \A d \in DOMAIN net :
        d.to = (IF d.kind = "data" THEN Other(e) ELSE e) => UseOf(d.id) \in InUse(e)
  BY DEF InUse
<1>4. \A id \in PacketID :
        AlreadyReceivedPacket(GetConnection(Other(e)).window, id) => UseOf(id) \in InUse(e)
  BY DEF InUse
<1>5. \A i \in DOMAIN GetConnection(Other(e)).fragments :
        GetConnection(Other(e)).fragments[i].id \in InUse(e)
  BY DEF InUse
<1> QED BY <1>1, <1>2, <1>3, <1>4, <1>5

\* A list's pieces are used as the list's group.
LEMMA HeldUse ==
  ASSUME NEW fl, Sound(fl), NEW t \in HeldBy(fl)
  PROVE  /\ UseOf(t.id) = fl.id /\ t \in Piece
         /\ t.id < NONFRAGMENTED_PACKETS_IDOFFSET
<1>1. PICK k \in PieceIndex : t = fl.fragList[k] /\ t # NoPiece
  BY DEF HeldBy
<1>2. t \in Piece /\ GroupOf(t) = fl.id
  BY <1>1 DEF Sound, List, InPlace
<1>3. t.id < NONFRAGMENTED_PACKETS_IDOFFSET
  BY <1>2, PacketIDsAssumption DEF Piece
<1> QED BY <1>2, <1>3 DEF UseOf, GroupOf

\* The packets there are, and what the peer knows, are in use.
LEMMA CopiesAreInUse ==
  ASSUME TInv, NEW e \in Endpoint
  PROVE  /\ \A t \in Copies(e) : UseOf(t.id) \in InUse(e)
         /\ \A id \in Known(e) : UseOf(id) \in InUse(e)
<1>1. ASSUME NEW t \in Copies(e) PROVE UseOf(t.id) \in InUse(e)
  <2>1. CASE t \in {Image(preSend[e][i]) : i \in DOMAIN preSend[e]}
    <3>1. PICK i \in DOMAIN preSend[e] : t = Image(preSend[e][i])
      BY <2>1
    <3>2. t.id = preSend[e][i].id
      BY <3>1 DEF Image
    <3> QED BY <3>2, InUsePlaces
  <2>2. CASE t \in {Image(GetConnection(e).pending[i].packet) :
                      i \in DOMAIN GetConnection(e).pending}
    <3>1. PICK i \in DOMAIN GetConnection(e).pending :
            t = Image(GetConnection(e).pending[i].packet)
      BY <2>2
    <3>2. t.id = GetConnection(e).pending[i].packet.id
      BY <3>1 DEF Image
    <3> QED BY <3>2, InUsePlaces
  <2>3. CASE t \in {Image(d) : d \in {x \in DOMAIN net : x.kind = "data" /\ x.to = Other(e)}}
    <3>1. PICK d \in DOMAIN net : t = Image(d) /\ d.kind = "data" /\ d.to = Other(e)
      BY <2>3
    <3>2. t.id = d.id
      BY <3>1 DEF Image
    <3> QED BY <3>1, <3>2, InUsePlaces
  <2>4. CASE t \in Pieces(Other(e))
    <3> DEFINE fps == GetConnection(Other(e)).fragments
    <3>1. PICK i \in DOMAIN fps : t \in HeldBy(fps[i])
      BY <2>4 DEF Pieces, Held
    <3>2. Sound(fps[i])
      <4>1. Good(GetConnection(Other(e)), e)
        BY GetConnectionGood, TwoEndpoints DEF TInv
      <4> QED BY <3>1, <4>1 DEF Good, AllSound
    <3>3. UseOf(t.id) = fps[i].id
      BY <3>1, <3>2, HeldUse
    <3> QED BY <3>1, <3>3, InUsePlaces
  <2> QED BY <2>1, <2>2, <2>3, <2>4 DEF Copies
<1>2. ASSUME NEW id \in Known(e) PROVE UseOf(id) \in InUse(e)
  <2>1. CASE id \in PacketID /\ AlreadyReceivedPacket(GetConnection(Other(e)).window, id)
    BY <2>1, InUsePlaces
  <2>2. CASE \E d \in DOMAIN net : d.kind = "ack" /\ d.to = e /\ id = d.id
    BY <2>2, InUsePlaces
  <2> QED BY <1>2, <2>1, <2>2 DEF Known
<1> QED BY <1>1, <1>2

\* Packets of an endpoint that are used alike are of one message.
UsesAreKeptApart ==
  \A e \in Endpoint : \A s, t \in Copies(e) :
    UseOf(s.id) = UseOf(t.id) => s.body.msg = t.body.msg

\* A packet whose identifier the peer knows was registered there.
KnownWasRegistered ==
  \A e \in Endpoint : \A t \in Copies(e) : t.id \in Known(e) => t.body \in registered

\* Two packets of one message under one identifier are one piece.
LEMMA SameNumberSameBody ==
  ASSUME NEW s, NEW t, Numbered(s), Numbered(t), s.id = t.id, s.body.msg = t.body.msg
  PROVE  s.body = t.body
BY DEF Numbered

LEMMA SameIdentifierSameBody ==
  ASSUME AllNumbered, UsesAreKeptApart, NEW e \in Endpoint,
         NEW s \in Copies(e), NEW t \in Copies(e), s.id = t.id
  PROVE  s.body = t.body
<1>1. Numbered(s) /\ Numbered(t)
  BY DEF AllNumbered
<1>2. s.body.msg = t.body.msg
  BY DEF UsesAreKeptApart
<1> QED BY <1>1, <1>2, SameNumberSameBody

\* A whole message is what its packet carries.
LEMMA WholeIsSent ==
  ASSUME AllNumbered, NEW e \in Endpoint, NEW t \in Copies(e),
         t.id >= NONFRAGMENTED_PACKETS_IDOFFSET
  PROVE  \E m \in sent : [i \in {0} |-> t.body] = Payload(m)
<1> DEFINE m == t.body.msg
<1>1. Numbered(t) /\ m \in sent /\ m \in Msg
  BY DEF AllNumbered, Numbered
<1>2. t.id \in Int /\ NONFRAGMENTED_PACKETS_IDOFFSET \in Int
  BY <1>1, PacketIDsAssumption DEF Numbered, PacketID
<1>3. ~ (MsgPieces[m] > 1) /\ t.body = [msg |-> m, piece |-> 0]
  BY <1>1, <1>2 DEF Numbered
<1>4. MsgPieces[m] \in 1..MAX_FRAGMENTS_PER_PACKET
  BY <1>1, TransportAssumption
<1>5. MsgPieces[m] = 1
  BY <1>3, <1>4, PacketIDsAssumption
<1>6. Payload(m) = [i \in {0} |-> t.body]
  <2>1. 0..(MsgPieces[m] - 1) = {0}
    BY <1>5
  <2>2. \A i \in {0} : [msg |-> m, piece |-> i] = t.body
    BY <1>3
  <2> QED BY <2>1, <2>2 DEF Payload
<1> QED BY <1>1, <1>6

\* A complete list of packets that are kept apart holds the message that was sent.
LEMMA CompletedIsSent ==
  ASSUME AllNumbered, UsesAreKeptApart, NEW e \in Endpoint, NEW fl, Sound(fl), Complete(fl),
         HeldBy(fl) \subseteq Copies(e)
  PROVE  \E m \in sent : [i \in 0..(fl.nOfPieces - 1) |-> fl.fragList[i].body] = Payload(m)
<1> DEFINE n == fl.nOfPieces
           last == fl.fragList[n - 1]
           m == last.body.msg
<1>1. n \in Nat /\ n > 1
  BY DEF Sound, List, Complete
<1>2. n - 1 \in 0..(n - 1)
  BY <1>1
<1>3. last \in HeldBy(fl) /\ last \in Piece /\ n - 1 \in PieceIndex
  BY <1>2, CompletedPiece
<1>4. PieceOf(last) = n - 1 /\ last.lastFrag
  BY <1>1, <1>3, FragmentsAssumption DEF Sound, InPlace, SizeIsTold
<1>5. Numbered(last) /\ m \in sent /\ m \in Msg
  BY <1>3 DEF AllNumbered, Numbered
<1>6. last.id < NONFRAGMENTED_PACKETS_IDOFFSET
  BY <1>3, HeldUse
<1>7. MsgPieces[m] \in 1..MAX_FRAGMENTS_PER_PACKET
  BY <1>5, TransportAssumption
<1>8. n = MsgPieces[m]
  <2>1. last.id \in Int /\ NONFRAGMENTED_PACKETS_IDOFFSET \in Int
    BY <1>5, PacketIDsAssumption DEF Numbered, PacketID
  <2>2. MsgPieces[m] > 1
    BY <1>5, <1>6, <2>1 DEF Numbered
  <2>3. last.body.piece = MsgPieces[m] - 1 /\ last.body.piece = n - 1
    BY <1>4, <1>5, <2>2 DEF Numbered, PieceOf
  <2> QED BY <1>1, <1>7, <2>3
<1>9. ASSUME NEW i \in 0..(n - 1)
      PROVE  fl.fragList[i].body = [msg |-> m, piece |-> i]
  <2> DEFINE t == fl.fragList[i]
  <2>1. t \in HeldBy(fl) /\ t \in Piece /\ i \in PieceIndex
    BY CompletedPiece
  <2>2. PieceOf(t) = i
    BY <2>1, FragmentsAssumption DEF Sound, InPlace
  <2>3. UseOf(t.id) = UseOf(last.id)
    BY <1>3, <2>1, HeldUse
  <2>4. t.body.msg = m /\ Numbered(t)
    BY <1>3, <2>1, <2>3 DEF UsesAreKeptApart, AllNumbered
  <2>5. t.id < NONFRAGMENTED_PACKETS_IDOFFSET
    BY <2>1, HeldUse
  <2>6. t.id \in Int /\ NONFRAGMENTED_PACKETS_IDOFFSET \in Int
    BY <2>4, PacketIDsAssumption DEF Numbered, PacketID
  <2>7. MsgPieces[m] > 1
    BY <1>1, <1>8
  <2>8. t.body.piece = i
    BY <2>2, <2>4, <2>7 DEF Numbered, PieceOf
  <2>9. t.body = [msg |-> t.body.msg, piece |-> t.body.piece]
    BY <2>4 DEF Numbered
  <2> QED BY <2>4, <2>8, <2>9
<1> HIDE DEF n, m
<1>10. [i \in 0..(n - 1) |-> fl.fragList[i].body] = Payload(m)
  BY <1>8, <1>9 DEF Payload
<1> QED BY <1>5, <1>10 DEF n


-----------------------------------------------------------------------------
(* What follows while SendPacket gives free numbers only.                  *)
FreeStep == \A m \in sent' \ sent : NewUse(m) \notin InUse(MsgFrom[m])

\* The packets of SendPacket are used like no packet there is.
LEMMA SendPacketKeepsApart ==
  ASSUME TInv, UsesAreKeptApart, KnownWasRegistered, FreeStep,
         NEW e \in Endpoint, NEW m \in Msg, SendPacket(e, m)
  PROVE  UsesAreKeptApart' /\ KnownWasRegistered'
<1>1. /\ sent' = sent \cup {m} /\ m \notin sent /\ MsgFrom[m] = e
      /\ registered' = registered
  BY DEF SendPacket
<1>2. NewUse(m) \notin InUse(e)
  BY <1>1 DEF FreeStep
<1>3. \A x \in Endpoint :
        /\ Known(x)' \subseteq Known(x)
        /\ \A t \in Copies(x)' :
             t \in Copies(x) \/ (x = e /\ t.body.msg = m /\ UseOf(t.id) = NewUse(m))
  BY SendPacketStep
<1>4. \A t \in Copies(e) : UseOf(t.id) # NewUse(m)
  BY <1>2, CopiesAreInUse
<1>5. \A id \in Known(e) : UseOf(id) # NewUse(m)
  BY <1>2, CopiesAreInUse
<1>6. \A x \in Endpoint : \A s, t \in Copies(x)' :
        UseOf(s.id) = UseOf(t.id) => s.body.msg = t.body.msg
  BY <1>3, <1>4 DEF UsesAreKeptApart
<1>7. \A x \in Endpoint : \A t \in Copies(x)' : t.id \in Known(x)' => t.body \in registered'
  BY <1>1, <1>3, <1>5 DEF KnownWasRegistered
<1>8. UsesAreKeptApart'
  BY <1>6 DEF UsesAreKeptApart, UseOf
<1> QED BY <1>7, <1>8 DEF KnownWasRegistered

LEMMA KeptApartByOthers ==
  ASSUME UsesAreKeptApart, \A x \in Endpoint : Copies(x)' \subseteq Copies(x)
  PROVE  UsesAreKeptApart'
BY DEF UsesAreKeptApart, UseOf

\* A packet that is accepted is registered with its identifier.
LEMMA AcceptedIsRegistered ==
  ASSUME AllNumbered, UsesAreKeptApart, KnownWasRegistered, NEW e \in Endpoint, NEW d, NEW ps,
         Only(e, {d.id}, ps), Image(d) \in Copies(Other(e)),
         registered' = registered \cup {d.body}
  PROVE  UsesAreKeptApart' /\ KnownWasRegistered'
<1>1. UsesAreKeptApart'
  BY OnlyIsNothingNew, KeptApartByOthers
<1>2. ASSUME NEW x \in Endpoint, NEW t \in Copies(x)', t.id \in Known(x)'
      PROVE  t.body \in registered'
  <2>1. t \in Copies(x)
    BY OnlyIsNothingNew
  <2>2. CASE t.id \in Known(x)
    BY <2>1, <2>2 DEF KnownWasRegistered
  <2>3. CASE x = Other(e) /\ t.id = d.id
    <3>1. Image(d).id = d.id /\ Image(d).body = d.body
      BY DEF Image
    <3>2. t.body = d.body
      BY <2>1, <2>3, <3>1, SameIdentifierSameBody
    <3> QED BY <3>2
  <2>4. t.id \in Known(x) \/ (x = Other(e) /\ t.id = d.id)
    BY <1>2 DEF Only
  <2> QED BY <2>2, <2>3, <2>4
<1>3. KnownWasRegistered'
  BY <1>2 DEF KnownWasRegistered
<1> QED BY <1>1, <1>3

LEMMA QuietKeepsApart ==
  ASSUME UsesAreKeptApart, KnownWasRegistered, Quiet, registered' = registered
  PROVE  UsesAreKeptApart' /\ KnownWasRegistered'
<1>1. UsesAreKeptApart'
  BY KeptApartByOthers DEF Quiet
<1>2. \A x \in Endpoint : \A t \in Copies(x)' : t.id \in Known(x)' => t.body \in registered'
  BY DEF Quiet, KnownWasRegistered
<1> QED BY <1>1, <1>2 DEF KnownWasRegistered

\* What the transport promises, and what it rests on.
Kept ==
  /\ UsesAreKeptApart /\ KnownWasRegistered
  /\ OnlySentMessages /\ OnlyDuplicatesRefused /\ AckedWasRegistered

LEMMA DropKeeps ==
  ASSUME TInv, AllNumbered, Kept, NEW e \in Endpoint, NEW d \in DOMAIN net,
         ReceiveData(e, d), DropDuplicate(e, d), Only(e, {}, {}), d.id \in Known(Other(e))
  PROVE  Kept'
<1>1. /\ UNCHANGED <<sent, analysed, registered, acked>> /\ refused' = refused \cup {d.body}
  BY DEF ReceiveData, DropDuplicate
<1>2. UsesAreKeptApart' /\ KnownWasRegistered'
  BY <1>1, OnlyNothingIsQuiet, QuietKeepsApart DEF Kept
<1>3. Image(d) \in Copies(Other(e)) /\ Other(e) \in Endpoint
  BY ReceivedNet, TwoEndpoints
<1>4. Image(d).id = d.id /\ Image(d).body = d.body
  BY DEF Image
<1>5. d.body \in registered
  BY <1>3, <1>4 DEF Kept, KnownWasRegistered
<1> QED BY <1>1, <1>2, <1>5
        DEF Kept, OnlySentMessages, OnlyDuplicatesRefused, AckedWasRegistered

\* A payload of a message that was sent may be given to the program.
LEMMA GivenKeeps ==
  ASSUME OnlySentMessages, sent' = sent, NEW payload,
         \E m \in sent : payload = Payload(m),
         PostAnalysePacket(payload) \/ UNCHANGED <<analysed, repeated>>
  PROVE  OnlySentMessages'
BY DEF OnlySentMessages, PostAnalysePacket, Payload

LEMMA AcceptKeeps ==
  ASSUME TInv, AllNumbered, Kept, NEW e \in Endpoint, NEW d \in DOMAIN net,
         ReceiveData(e, d),
         \/ AcceptUnfragmented(e, d) /\ Only(e, {d.id}, {})
         \/ AcceptFragment(e, d) /\ Only(e, {d.id}, {Image(d)})
  PROVE  Kept'
<1>1. Image(d) \in Copies(Other(e)) /\ Other(e) \in Endpoint
  BY ReceivedNet, TwoEndpoints
<1>2. /\ UNCHANGED <<sent, refused, acked>> /\ registered' = registered \cup {d.body}
  BY DEF ReceiveData, AcceptUnfragmented, AcceptFragment
<1>3. UsesAreKeptApart' /\ KnownWasRegistered'
  BY <1>1, <1>2, AcceptedIsRegistered DEF Kept
<1>4. CASE AcceptUnfragmented(e, d)
  <2>1. PostAnalysePacket([i \in {0} |-> d.body]) /\ d.id >= NONFRAGMENTED_PACKETS_IDOFFSET
    BY <1>4 DEF AcceptUnfragmented
  <2>2. Image(d).id = d.id /\ Image(d).body = d.body
    BY DEF Image
  <2>3. \E m \in sent : [i \in {0} |-> d.body] = Payload(m)
    BY <1>1, <2>1, <2>2, WholeIsSent
  <2>4. OnlySentMessages'
    BY <1>2, <2>1, <2>3, GivenKeeps DEF Kept
  <2> QED BY <1>2, <1>3, <2>4 DEF Kept, OnlyDuplicatesRefused, AckedWasRegistered
<1>5. CASE AcceptFragment(e, d)
  <2>1. CASE UNCHANGED <<analysed, repeated>>
    BY <1>2, <1>3, <2>1
       DEF Kept, OnlyDuplicatesRefused, AckedWasRegistered, OnlySentMessages
  <2>2. ASSUME NEW fl, NEW payload, Sound(fl), Complete(fl),
               HeldBy(fl) \subseteq Pieces(e) \cup {Image(d)},
               payload = [i \in 0..(fl.nOfPieces - 1) |-> fl.fragList[i].body],
               PostAnalysePacket(payload)
        PROVE  Kept'
    <3>1. Pieces(e) \subseteq Copies(Other(e))
      BY TwoEndpoints DEF Copies
    <3>2. HeldBy(fl) \subseteq Copies(Other(e))
      BY <1>1, <2>2, <3>1
    <3>3. \E m \in sent : payload = Payload(m)
      BY <1>1, <2>2, <3>2, CompletedIsSent DEF Kept
    <3>4. OnlySentMessages'
      BY <1>2, <2>2, <3>3, GivenKeeps DEF Kept
    <3> QED BY <1>2, <1>3, <3>4 DEF Kept, OnlyDuplicatesRefused, AckedWasRegistered
  <2> QED BY <1>5, <2>1, <2>2, FragmentAccepted
<1> QED BY <1>4, <1>5

LEMMA AckKeeps ==
  ASSUME TInv, Kept, NEW e \in Endpoint, NEW d \in DOMAIN net, ReceiveAck(e, d), Quiet
  PROVE  Kept'
<1> DEFINE c == GetConnection(e)
           i == FirstPending(c.pending, d.id)
<1>1. /\ UNCHANGED <<sent, analysed, registered, refused>> /\ d.kind = "ack" /\ d.to = e
      /\ acked' = IF IsPending(c.pending, d.id)
                  THEN acked \cup {c.pending[i].packet.body} ELSE acked
  BY DEF ReceiveAck
<1>2. UsesAreKeptApart' /\ KnownWasRegistered'
  BY <1>1, QuietKeepsApart DEF Kept
<1>3. d.id \in Known(e)
  BY <1>1 DEF Known
<1>4. ASSUME IsPending(c.pending, d.id) PROVE c.pending[i].packet.body \in registered
  <2>1. c.pending \in Seq(Entry(Other(e)))
    BY GetConnectionGood DEF TInv, Good, ConnectionTo
  <2>2. i \in DOMAIN c.pending /\ c.pending[i].packet.id = d.id
    BY <1>4, <2>1, FirstPendingFound
  <2>3. Image(c.pending[i].packet) \in Copies(e)
    BY <2>2 DEF Copies
  <2>4. /\ Image(c.pending[i].packet).id = d.id
        /\ Image(c.pending[i].packet).body = c.pending[i].packet.body
    BY <2>2 DEF Image
  <2> QED BY <1>3, <2>3, <2>4 DEF Kept, KnownWasRegistered
<1>5. acked' \subseteq registered
  BY <1>1, <1>4 DEF Kept, AckedWasRegistered
<1> QED BY <1>1, <1>2, <1>5
        DEF Kept, OnlySentMessages, OnlyDuplicatesRefused, AckedWasRegistered

LEMMA KeptStep ==
  ASSUME TInv, AllNumbered, Kept, FreeStep, [Next]_vars
  PROVE  Kept'
<1>1. ASSUME NEW e \in Endpoint, NEW m \in Msg, SendPacket(e, m) PROVE Kept'
  <2>1. UsesAreKeptApart' /\ KnownWasRegistered'
    BY <1>1, SendPacketKeepsApart DEF Kept
  <2>2. /\ UNCHANGED <<analysed, registered, refused, acked>> /\ sent' = sent \cup {m}
    BY <1>1 DEF SendPacket
  <2>3. OnlySentMessages'
    BY <2>2 DEF Kept, OnlySentMessages, Payload
  <2> QED BY <2>1, <2>2, <2>3 DEF Kept, OnlyDuplicatesRefused, AckedWasRegistered
<1>2. ASSUME NEW e \in Endpoint, NEW d \in DOMAIN net, ReceiveData(e, d) PROVE Kept'
  BY <1>2, ReceiveDataStep, DropKeeps, AcceptKeeps
<1>3. ASSUME NEW e \in Endpoint, NEW d \in DOMAIN net, ReceiveAck(e, d), Quiet PROVE Kept'
  BY <1>3, AckKeeps
<1>4. ASSUME Quiet, UNCHANGED <<sent, analysed, repeated, registered, refused, acked>>
      PROVE  Kept'
  <2>1. UsesAreKeptApart' /\ KnownWasRegistered'
    BY <1>4, QuietKeepsApart DEF Kept
  <2> QED BY <1>4, <2>1
          DEF Kept, OnlySentMessages, OnlyDuplicatesRefused, AckedWasRegistered
<1> QED BY <1>1, <1>2, <1>3, <1>4, Steps

LEMMA KeptHolds == Spec /\ NumbersAreFree => []Kept
<1>1. Init => Kept
  BY InitIsGood DEF Init, Kept, UsesAreKeptApart, KnownWasRegistered, OnlySentMessages,
     OnlyDuplicatesRefused, AckedWasRegistered
<1>2. TInv /\ AllNumbered /\ Kept /\ [Next]_vars /\ [FreeStep]_vars => Kept'
  <2>1. ASSUME UNCHANGED vars, Kept PROVE FreeStep
    BY <2>1 DEF vars, FreeStep
  <2> QED BY <2>1, KeptStep
<1>3. NumbersAreFree => [][FreeStep]_vars
  BY PTL DEF NumbersAreFree, FreeStep
<1> QED BY <1>1, <1>2, <1>3, TypesHold, PTL DEF Spec

\* No message is put together from pieces of two messages, as long as SendPacket
\* gives no message a group that something still stands for.
THEOREM GivenWasSent == Spec /\ NumbersAreFree => []OnlySentMessages
<1>1. Kept => OnlySentMessages
  BY DEF Kept
<1> QED BY <1>1, KeptHolds, PTL

\* No packet is taken for a duplicate that is not one, as long as SendPacket gives
\* no message an identifier that something still stands for.
THEOREM RefusedWasRegistered == Spec /\ NumbersAreFree => []OnlyDuplicatesRefused
<1>1. Kept => OnlyDuplicatesRefused
  BY DEF Kept
<1> QED BY <1>1, KeptHolds, PTL

\* A packet stops being retransmitted only when the peer registered it, as long as
\* SendPacket gives no message an identifier that something still stands for.
THEOREM AcknowledgedWasRegistered == Spec /\ NumbersAreFree => []AckedWasRegistered
<1>1. Kept => AckedWasRegistered
  BY DEF Kept
<1> QED BY <1>1, KeptHolds, PTL


-----------------------------------------------------------------------------
(***************************************************************************)
(* Why no copy is late.                                                    *)
(***************************************************************************)
\* The peer forgets an identifier only when no copy of its packet is left.  It
\* forgets where its ring wraps and where its connection is deleted.
Remember ==
  \A e \in Endpoint : \A t \in Copies(e)' :
    AlreadyReceivedPacket(GetConnection(Other(e)).window, t.id) =>
      AlreadyReceivedPacket((GetConnection(Other(e))').window, t.id)

RingsRemember == [][Remember]_vars

\* What is registered is remembered at first.
LEMMA RegisteredIsRemembered ==
  ASSUME NEW w \in Window, NEW id \in PacketID
  PROVE  AlreadyReceivedPacket(RegisterReceivedPacketID(w, id), id)
<1>1. PICK v : v = RegisterReceivedPacketID(w, id)
  OBVIOUS
<1>2. w.offset \in Slot /\ NextSlot(w.offset) \in Slot
  BY PacketIDsAssumption DEF Window, Slot, NextSlot
<1>3. v.offset = NextSlot(w.offset) /\ v.ids[v.offset] = id
  BY <1>1, <1>2 DEF RegisterReceivedPacketID, Window
<1>4. NextSlot(v.offset) # v.offset
  BY <1>2, <1>3, PacketIDsAssumption DEF Slot, NextSlot
<1> QED BY <1>1, <1>2, <1>3, <1>4 DEF AlreadyReceivedPacket

\* The copies of a piece have one identifier, a piece is registered after its message
\* was sent, and of a registered piece that has copies left the peer knows the
\* identifier.
OneIdentifier ==
  \A e \in Endpoint : \A s, t \in Copies(e) : s.body = t.body => s.id = t.id

RegisteredWasSent == \A b \in registered : b.msg \in sent

CopiesAreKnown ==
  \A e \in Endpoint : \A t \in Copies(e) :
    t.body \in registered => AlreadyReceivedPacket(GetConnection(Other(e)).window, t.id)

Remembered == OneIdentifier /\ RegisteredWasSent /\ CopiesAreKnown

\* Packets that are numbered alike are the same piece under the same identifier.
LEMMA OneUseOneIdentifier ==
  ASSUME NEW s, NEW t, Numbered(s), Numbered(t), UseOf(s.id) = UseOf(t.id), s.body = t.body
  PROVE  s.id = t.id
<1> DEFINE k == MAX_FRAGMENTS_PER_PACKET
           m == s.body.msg
<1>1. /\ s.id \in PacketID /\ t.id \in PacketID /\ s.id \in Int /\ t.id \in Int
      /\ k \in Nat \ {0} /\ NONFRAGMENTED_PACKETS_IDOFFSET \in Int
  BY PacketIDsAssumption DEF Numbered, PacketID
<1>2. CASE MsgPieces[m] > 1
  <2>1. /\ s.id < NONFRAGMENTED_PACKETS_IDOFFSET /\ t.id < NONFRAGMENTED_PACKETS_IDOFFSET
        /\ s.id % k = t.id % k
    BY <1>2 DEF Numbered
  <2>2. s.id \div k = t.id \div k
    BY <2>1 DEF UseOf
  <2>3. s.id = k * (s.id \div k) + (s.id % k)
    BY <1>1, Division
  <2>4. t.id = k * (t.id \div k) + (t.id % k)
    BY <1>1, Division
  <2> QED BY <2>1, <2>2, <2>3, <2>4
<1>3. CASE ~ (MsgPieces[m] > 1)
  <2>1. ~ (s.id < NONFRAGMENTED_PACKETS_IDOFFSET) /\ ~ (t.id < NONFRAGMENTED_PACKETS_IDOFFSET)
    BY <1>1, <1>3 DEF Numbered
  <2> QED BY <2>1 DEF UseOf
<1> QED BY <1>2, <1>3

\* The peer still knows what it knew, as far as copies are left.
LEMMA KnownStayKnown ==
  ASSUME CopiesAreKnown, Remember, NEW x \in Endpoint, NEW t \in Copies(x)', t \in Copies(x),
         t.body \in registered
  PROVE  AlreadyReceivedPacket((GetConnection(Other(x))').window, t.id)
BY DEF CopiesAreKnown, Remember

LEMMA QuietRemembers ==
  ASSUME Remembered, Remember, Quiet, UNCHANGED <<sent, registered>>
  PROVE  Remembered'
<1>1. \A x \in Endpoint : Copies(x)' \subseteq Copies(x)
  BY DEF Quiet
<1>2. \A x \in Endpoint : \A s, t \in Copies(x)' : s.body = t.body => s.id = t.id
  BY <1>1 DEF Remembered, OneIdentifier
<1>3. \A x \in Endpoint : \A t \in Copies(x)' : t.body \in registered =>
        AlreadyReceivedPacket((GetConnection(Other(x))').window, t.id)
  BY <1>1, KnownStayKnown DEF Remembered
<1>4. CopiesAreKnown'
  BY <1>3 DEF CopiesAreKnown, AlreadyReceivedPacket, Other
<1> QED BY <1>2, <1>4 DEF Remembered, OneIdentifier, RegisteredWasSent

LEMMA SendRemembers ==
  ASSUME TInv, AllNumbered, Remembered, Remember,
         NEW e \in Endpoint, NEW m \in Msg, SendPacket(e, m)
  PROVE  Remembered'
<1>1. m \notin sent /\ sent' = sent \cup {m} /\ registered' = registered
  BY DEF SendPacket
<1>2. \A x \in Endpoint : \A t \in Copies(x)' :
        t \in Copies(x) \/ /\ x = e /\ Numbered(t) /\ t.body.msg = m
                           /\ UseOf(t.id) = NewUse(m)
  BY SendPacketStep
<1>3. \A x \in Endpoint : \A t \in Copies(x) : t.body.msg # m
  BY <1>1 DEF AllNumbered
<1>4. ASSUME NEW x \in Endpoint, NEW s \in Copies(x)', NEW t \in Copies(x)', s.body = t.body
      PROVE  s.id = t.id
  <2>1. CASE s \in Copies(x) /\ t \in Copies(x)
    BY <1>4, <2>1 DEF Remembered, OneIdentifier
  <2>2. CASE s.body.msg = m
    <3>1. Numbered(s) /\ Numbered(t) /\ UseOf(s.id) = UseOf(t.id)
      BY <1>2, <1>3, <1>4, <2>2
    <3> QED BY <1>4, <3>1, OneUseOneIdentifier
  <2>3. CASE s.body.msg # m
    BY <1>2, <1>4, <2>1, <2>3
  <2> QED BY <2>2, <2>3
<1>5. ASSUME NEW x \in Endpoint, NEW t \in Copies(x)', t.body \in registered
      PROVE  AlreadyReceivedPacket((GetConnection(Other(x))').window, t.id)
  <2>1. t.body.msg # m
    BY <1>1, <1>5 DEF Remembered, RegisteredWasSent
  <2>2. t \in Copies(x)
    BY <1>2, <2>1
  <2> QED BY <1>5, <2>2, KnownStayKnown DEF Remembered
<1>6. CopiesAreKnown'
  BY <1>1, <1>5 DEF CopiesAreKnown, AlreadyReceivedPacket, Other
<1> QED BY <1>1, <1>4, <1>6 DEF Remembered, OneIdentifier, RegisteredWasSent

LEMMA AcceptRemembers ==
  ASSUME TInv, AllNumbered, Remembered, Remember,
         NEW e \in Endpoint, NEW d \in DOMAIN net, ReceiveData(e, d),
         \/ AcceptUnfragmented(e, d) /\ Only(e, {d.id}, {})
         \/ AcceptFragment(e, d) /\ Only(e, {d.id}, {Image(d)})
  PROVE  Remembered'
<1>1. sent' = sent /\ registered' = registered \cup {d.body}
  BY DEF ReceiveData, AcceptUnfragmented, AcceptFragment
<1>2. \A x \in Endpoint : Copies(x)' \subseteq Copies(x)
  BY OnlyIsNothingNew
<1>3. /\ Image(d) \in Copies(Other(e)) /\ Other(e) \in Endpoint /\ d \in PacketTo(e)
      /\ Image(d).body = d.body /\ Image(d).id = d.id /\ Other(Other(e)) = e
  BY ReceivedNet, TwoEndpoints DEF Image
<1>4. d.body.msg \in sent /\ MsgFrom[d.body.msg] = Other(e)
  BY <1>3 DEF AllNumbered
<1>5. AlreadyReceivedPacket((GetConnection(e)').window, d.id)
  <2> DEFINE g == GetConnection(e)
             c == Registered(g, d.id)
             r == RegisterFragment(c.fragments,
                    [id |-> d.id, lastFrag |-> d.lastFrag, body |-> d.body])
  <2>1. g \in ConnectionTo(Other(e)) /\ d.id \in PacketID
    BY <1>3, GetConnectionGood DEF TInv, Good, PacketTo
  <2>2. c \in [DOMAIN g -> {c[f] : f \in DOMAIN g}]
        /\ c.window = RegisterReceivedPacketID(g.window, d.id)
        /\ "window" \in DOMAIN c
    BY <2>1 DEF Registered, ConnectionTo
  <2>3. \/ connection' = [connection EXCEPT ![e] = c]
        \/ connection' = [connection EXCEPT ![e] = [c EXCEPT !.fragments = r.packets]]
    BY DEF AcceptUnfragmented, AcceptFragment
  <2>4. PICK n : /\ connection' = [connection EXCEPT ![e] = n]
                 /\ n = c \/ n = [c EXCEPT !.fragments = r.packets]
    BY <2>3
  <2>5. n.window = RegisterReceivedPacketID(g.window, d.id) /\ "window" \in DOMAIN n
    BY <2>2, <2>4
  <2>6. n # NoConnection
    BY <2>5 DEF NoConnection
  <2>7. GetConnection(e)' = n
    BY <2>4, <2>6, ConnectionNow DEF TInv
  <2>8. AlreadyReceivedPacket(RegisterReceivedPacketID(g.window, d.id), d.id)
    BY <2>1, RegisteredIsRemembered DEF ConnectionTo
  <2>9. (GetConnection(e)').window = RegisterReceivedPacketID(g.window, d.id)
    BY <2>5, <2>7
  <2> QED BY <2>8, <2>9
<1>6. ASSUME NEW x \in Endpoint, NEW t \in Copies(x)', t.body \in registered'
      PROVE  AlreadyReceivedPacket((GetConnection(Other(x))').window, t.id)
  <2>1. t \in Copies(x)
    BY <1>2
  <2>2. CASE t.body \in registered
    BY <2>1, <2>2, KnownStayKnown DEF Remembered
  <2>3. CASE t.body = d.body
    <3>1. x = Other(e)
      BY <1>4, <2>1, <2>3 DEF AllNumbered
    <3>2. t.id = d.id
      BY <1>3, <2>1, <2>3, <3>1 DEF Remembered, OneIdentifier
    <3> QED BY <1>3, <1>5, <3>1, <3>2
  <2> QED BY <1>1, <1>6, <2>2, <2>3
<1>7. CopiesAreKnown'
  BY <1>6 DEF CopiesAreKnown, AlreadyReceivedPacket, Other
<1>8. \A x \in Endpoint : \A s, t \in Copies(x)' : s.body = t.body => s.id = t.id
  BY <1>2 DEF Remembered, OneIdentifier
<1>9. RegisteredWasSent'
  BY <1>1, <1>4 DEF Remembered, RegisteredWasSent
<1> QED BY <1>7, <1>8, <1>9 DEF Remembered, OneIdentifier

LEMMA RememberedStep ==
  ASSUME TInv, AllNumbered, Remembered, Remember, [Next]_vars
  PROVE  Remembered'
<1>1. ASSUME NEW e \in Endpoint, NEW m \in Msg, SendPacket(e, m) PROVE Remembered'
  BY <1>1, SendRemembers
<1>2. ASSUME NEW e \in Endpoint, NEW d \in DOMAIN net, ReceiveData(e, d) PROVE Remembered'
  <2>1. CASE DropDuplicate(e, d) /\ Only(e, {}, {})
    <3>1. UNCHANGED <<sent, registered>>
      BY <1>2, <2>1 DEF ReceiveData, DropDuplicate
    <3> QED BY <2>1, <3>1, OnlyNothingIsQuiet, QuietRemembers
  <2>2. CASE \/ AcceptUnfragmented(e, d) /\ Only(e, {d.id}, {})
             \/ AcceptFragment(e, d) /\ Only(e, {d.id}, {Image(d)})
    BY <1>2, <2>2, AcceptRemembers
  <2> QED BY <1>2, <2>1, <2>2, ReceiveDataStep
<1>3. ASSUME NEW e \in Endpoint, NEW d \in DOMAIN net, ReceiveAck(e, d), Quiet
      PROVE  Remembered'
  <2>1. UNCHANGED <<sent, registered>>
    BY <1>3 DEF ReceiveAck
  <2> QED BY <1>3, <2>1, QuietRemembers
<1>4. ASSUME Quiet, UNCHANGED <<sent, analysed, repeated, registered, refused, acked>>
      PROVE  Remembered'
  BY <1>4, QuietRemembers
<1> QED BY <1>1, <1>2, <1>3, <1>4, Steps

\* No copy of a registered packet arrives unknown, and so no message is given to the
\* program twice, as long as no ring wraps past, and no connection is deleted with,
\* the identifier of a packet of which a copy is left.
THEOREM NoCopyIsLate == Spec /\ RingsRemember => []NoLateCopy
<1>1. Init => Remembered
  BY InitIsGood DEF Init, Remembered, OneIdentifier, RegisteredWasSent, CopiesAreKnown
<1>2. TInv /\ AllNumbered /\ Remembered /\ [Next]_vars /\ [Remember]_vars => Remembered'
  <2>1. ASSUME UNCHANGED vars, Remembered PROVE Remembered'
    BY <2>1 DEF vars, Remembered, OneIdentifier, RegisteredWasSent, CopiesAreKnown, Copies,
       Pieces, GetConnection
  <2> QED BY <2>1, RememberedStep
<1>3. TInv /\ Remembered => NoLateCopy
  <2> SUFFICES ASSUME TInv, Remembered, NEW d \in DOMAIN net, d.kind = "data",
                      d.body \in registered
               PROVE  AlreadyReceivedPacket(GetConnection(d.to).window, d.id)
    BY DEF NoLateCopy
  <2>1. d.to \in Endpoint
    BY DEF TInv, GoodNet
  <2>2. Other(d.to) \in Endpoint /\ Other(Other(d.to)) = d.to
    BY <2>1, TwoEndpoints
  <2>3. Image(d) \in Copies(Other(d.to)) /\ Image(d).id = d.id /\ Image(d).body = d.body
    BY <2>2 DEF Copies, Image
  <2> QED BY <2>2, <2>3 DEF Remembered, CopiesAreKnown
<1> QED BY <1>1, <1>2, <1>3, TypesHold, PTL DEF Spec, RingsRemember
=============================================================================
