----------------------- MODULE FragmentedPacketsProofs -----------------------
(***************************************************************************)
(* Proofs about reassembly, for every number of pieces, every content and  *)
(* every order of arrival: first what AddPiece does to one message, then   *)
(* what the incomplete messages of a connection keep.                      *)
(***************************************************************************)
EXTENDS FragmentedPackets, FiniteSetTheorems, TLAPS

(***************************************************************************)
(* One message.                                                            *)
(***************************************************************************)
\* The index below which the pieces of a list count.
Bound(fl) == IF fl.nOfPieces = 0 THEN MAX_FRAGMENTS_PER_PACKET ELSE fl.nOfPieces

\* receivedPieces is exact, as a fact about any list.
Exact(fl) == fl.receivedPieces = Cardinality(HeldBelow(fl, Bound(fl)))

\* The index of a piece is a slot of fragList.
LEMMA PieceOfType ==
  ASSUME NEW p \in Piece
  PROVE  PieceOf(p) \in PieceIndex
BY PacketIDsAssumption DEF Piece, PieceOf, PieceIndex

\* The slots are finitely many, and so are those that hold a piece.
LEMMA HeldFinite ==
  ASSUME NEW fl, NEW n
  PROVE  /\ IsFiniteSet(HeldBelow(fl, n))
         /\ Cardinality(HeldBelow(fl, n)) \in 0..MAX_FRAGMENTS_PER_PACKET
<1>1. /\ IsFiniteSet(PieceIndex)
      /\ Cardinality(PieceIndex) = MAX_FRAGMENTS_PER_PACKET
  BY FS_Interval, PacketIDsAssumption DEF PieceIndex
<1>2. HeldBelow(fl, n) \in SUBSET PieceIndex
  BY DEF HeldBelow
<1>3. /\ IsFiniteSet(HeldBelow(fl, n))
      /\ Cardinality(HeldBelow(fl, n)) <= MAX_FRAGMENTS_PER_PACKET
  BY <1>1, <1>2, FS_Subset
<1>4. Cardinality(HeldBelow(fl, n)) \in Nat
  BY <1>3, FS_CardinalityType
<1> QED BY <1>3, <1>4, PacketIDsAssumption

\* What StorePiece writes, field by field.
LEMMA StorePieceFields ==
  ASSUME NEW fl \in List, NEW p \in Piece
  PROVE  LET k == PieceOf(p)
             learns == fl.nOfPieces = 0 /\ p.lastFrag
             nl == StorePiece(fl, p)
         IN  /\ nl.id = fl.id
             /\ nl.fragList = [fl.fragList EXCEPT ![k] = p]
             /\ nl.nOfPieces = IF learns THEN k + 1 ELSE fl.nOfPieces
             /\ nl.receivedPieces = IF learns THEN 1 + Cardinality(HeldBelow(fl, k))
                                    ELSE fl.receivedPieces + 1
             /\ nl.timeout = FRAGMENTATION_MAX_WAIT
             /\ nl = [id |-> nl.id, fragList |-> nl.fragList,
                      receivedPieces |-> nl.receivedPieces,
                      nOfPieces |-> nl.nOfPieces, timeout |-> nl.timeout]
<1> DEFINE k  == PieceOf(p)
           n  == fl.nOfPieces
           nl == StorePiece(fl, p)
           learns == n = 0 /\ p.lastFrag
           count == 1 + Cardinality(HeldBelow(fl, k))
<1>1. nl = [fl EXCEPT !.fragList[k] = p,
                      !.nOfPieces = IF learns THEN k + 1 ELSE @,
                      !.receivedPieces = IF learns THEN count ELSE @ + 1,
                      !.timeout = FRAGMENTATION_MAX_WAIT]
  BY Zenon DEF StorePiece
<1> HIDE DEF count, learns, k, nl
<1>2. /\ nl.id = fl.id
      /\ nl.fragList = [fl.fragList EXCEPT ![k] = p]
      /\ nl.nOfPieces = IF learns THEN k + 1 ELSE n
      /\ nl.receivedPieces = IF learns THEN count ELSE fl.receivedPieces + 1
      /\ nl.timeout = FRAGMENTATION_MAX_WAIT
      /\ nl = [id |-> nl.id, fragList |-> nl.fragList,
               receivedPieces |-> nl.receivedPieces,
               nOfPieces |-> nl.nOfPieces, timeout |-> nl.timeout]
  BY <1>1 DEF List
<1> QED BY <1>2 DEF count, learns, k, nl

\* Storing a wanted piece keeps the list a FragmentsList and its count exact.
LEMMA StorePieceExact ==
  ASSUME NEW fl \in List, NEW p \in Piece, Wanted(fl, p), Exact(fl)
  PROVE  StorePiece(fl, p) \in List /\ Exact(StorePiece(fl, p))
<1> DEFINE k  == PieceOf(p)
           n  == fl.nOfPieces
           nl == StorePiece(fl, p)
           learns == n = 0 /\ p.lastFrag
<1> USE PacketIDsAssumption
<1>1. k \in PieceIndex /\ k \in 0..(MAX_FRAGMENTS_PER_PACKET - 1)
  BY PieceOfType DEF PieceIndex
<1>2. /\ nl.id = fl.id
      /\ nl.fragList = [fl.fragList EXCEPT ![k] = p]
      /\ nl.nOfPieces = IF learns THEN k + 1 ELSE n
      /\ nl.receivedPieces = IF learns THEN 1 + Cardinality(HeldBelow(fl, k))
                             ELSE fl.receivedPieces + 1
      /\ nl.timeout = FRAGMENTATION_MAX_WAIT
      /\ nl = [id |-> nl.id, fragList |-> nl.fragList,
               receivedPieces |-> nl.receivedPieces,
               nOfPieces |-> nl.nOfPieces, timeout |-> nl.timeout]
  BY StorePieceFields
<1>3. /\ p # NoPiece
      /\ fl.fragList[k] = NoPiece
      /\ \A i \in PieceIndex : nl.fragList[i] = IF i = k THEN p ELSE fl.fragList[i]
  BY <1>1, <1>2, FragmentsAssumption DEF Wanted, List
<1>4. ASSUME NEW b \in Nat, k < b
      PROVE  Cardinality(HeldBelow(nl, b)) = Cardinality(HeldBelow(fl, b)) + 1
  <2>1. HeldBelow(nl, b) = HeldBelow(fl, b) \cup {k}
    BY <1>1, <1>3, <1>4 DEF HeldBelow
  <2>2. k \notin HeldBelow(fl, b)
    BY <1>3 DEF HeldBelow
  <2> HIDE DEF nl, k
  <2> QED BY <2>1, <2>2, HeldFinite, FS_AddElement
<1>5. HeldBelow(fl, k + 1) = HeldBelow(fl, k)
  BY <1>1, <1>3 DEF HeldBelow, PieceIndex
<1>6. Exact(nl)
  <2>1. CASE learns
    <3>1. Bound(nl) = k + 1
      BY <1>1, <1>2, <2>1 DEF Bound
    <3>2. nl.receivedPieces = 1 + Cardinality(HeldBelow(fl, k))
      BY <1>2, <2>1
    <3>3. Cardinality(HeldBelow(nl, k + 1)) = Cardinality(HeldBelow(fl, k + 1)) + 1
      BY <1>1, <1>4
    <3>4. Cardinality(HeldBelow(fl, k)) \in Nat
      BY HeldFinite
    <3> HIDE DEF nl, k
    <3> QED BY <1>5, <3>1, <3>2, <3>3, <3>4 DEF Exact
  <2>2. CASE ~ learns
    <3>1. Bound(nl) = Bound(fl)
      BY <1>2, <2>2 DEF Bound
    <3>2. Bound(fl) \in Nat /\ k < Bound(fl)
      BY <1>1 DEF Bound, Wanted, List
    <3>3. nl.receivedPieces = fl.receivedPieces + 1
      BY <1>2, <2>2
    <3>4. Cardinality(HeldBelow(nl, Bound(fl))) =
            Cardinality(HeldBelow(fl, Bound(fl))) + 1
      BY <1>4, <3>2
    <3> HIDE DEF nl, k
    <3> QED BY <3>1, <3>3, <3>4 DEF Exact
  <2> QED BY <2>1, <2>2
<1>7. nl \in List
  <2>1. nl.receivedPieces \in 0..MAX_FRAGMENTS_PER_PACKET
    BY <1>6, HeldFinite DEF Exact
  <2>2. nl.nOfPieces \in 0..MAX_FRAGMENTS_PER_PACKET
    BY <1>1, <1>2 DEF List
  <2>3. nl.fragList \in [PieceIndex -> Piece \cup {NoPiece}]
    BY <1>1, <1>2 DEF List
  <2>4. nl.timeout \in 0..FRAGMENTATION_MAX_WAIT /\ nl.id \in Group
    BY <1>2, FragmentsAssumption DEF List
  <2> HIDE DEF nl
  <2> QED BY <1>2, <2>1, <2>2, <2>3, <2>4 DEF List
<1> QED BY <1>6, <1>7

\* Counting is enough: when the count reaches the size, no piece is missing,
\* and when no piece is missing, the count has reached the size.
LEMMA CountDecides ==
  ASSUME NEW fl \in List, Exact(fl), fl.nOfPieces > 1
  PROVE  Complete(fl) <=> HeldBelow(fl, fl.nOfPieces) = 0..(fl.nOfPieces - 1)
<1> DEFINE n == fl.nOfPieces
           all == 0..(n - 1)
<1> USE PacketIDsAssumption
<1>1. n \in Nat /\ n <= MAX_FRAGMENTS_PER_PACKET /\ Bound(fl) = n
  BY DEF List, Bound
<1>2. IsFiniteSet(all) /\ Cardinality(all) = n
  BY <1>1, FS_Interval
<1>3. HeldBelow(fl, n) \in SUBSET all
  BY <1>1 DEF HeldBelow, PieceIndex
<1>4. Cardinality(all) = Cardinality(HeldBelow(fl, n)) => all = HeldBelow(fl, n)
  BY <1>2, <1>3, FS_Subset
<1> QED BY <1>1, <1>2, <1>4 DEF Complete, Exact

\* Every piece sits in the slot its identifier names, in the list of its group,
\* and the size was told by the piece marked as the last.
InPlace(fl) ==
  \A i \in PieceIndex : fl.fragList[i] # NoPiece =>
    PieceOf(fl.fragList[i]) = i /\ GroupOf(fl.fragList[i]) = fl.id

SizeIsTold(fl) ==
  fl.nOfPieces > 0 =>
    /\ fl.fragList[fl.nOfPieces - 1] # NoPiece
    /\ fl.fragList[fl.nOfPieces - 1].lastFrag

\* A list AddPiece may have made.
Sound(fl) == fl \in List /\ Exact(fl) /\ InPlace(fl) /\ SizeIsTold(fl)

\* GroupOf of a piece is a group.
LEMMA GroupOfType ==
  ASSUME NEW p \in Piece
  PROVE  GroupOf(p) \in Group
BY DEF Piece, GroupOf, Group

LEMMA NewListSound ==
  ASSUME NEW g \in Group
  PROVE  Sound(NewList(g)) /\ NewList(g).nOfPieces = 0 /\ NewList(g).id = g
<1> USE PacketIDsAssumption, FragmentsAssumption
<1>1. NewList(g) \in List
  BY DEF NewList, List
<1>2. HeldBelow(NewList(g), MAX_FRAGMENTS_PER_PACKET) = {}
  BY DEF NewList, HeldBelow
<1>3. Exact(NewList(g))
  BY <1>2, FS_EmptySet DEF Exact, Bound, NewList
<1> QED BY <1>1, <1>3 DEF Sound, InPlace, SizeIsTold, NewList

\* Storing a wanted piece keeps a list sound.
LEMMA StorePieceSound ==
  ASSUME NEW fl, Sound(fl), NEW p \in Piece, Wanted(fl, p), GroupOf(p) = fl.id
  PROVE  Sound(StorePiece(fl, p)) /\ StorePiece(fl, p).id = fl.id
<1> DEFINE k == PieceOf(p)
           nl == StorePiece(fl, p)
<1> USE PacketIDsAssumption
<1>0. fl \in List /\ Exact(fl) /\ k \in PieceIndex
  BY PieceOfType DEF Sound
<1>1. nl \in List /\ Exact(nl)
  BY <1>0, StorePieceExact
<1>2. /\ nl.fragList = [fl.fragList EXCEPT ![k] = p]
      /\ nl.id = fl.id
      /\ nl.nOfPieces = IF fl.nOfPieces = 0 /\ p.lastFrag THEN k + 1 ELSE fl.nOfPieces
  BY <1>0, StorePieceFields
<1>3. InPlace(nl)
  BY <1>0, <1>2 DEF InPlace, Sound, List
<1>4. SizeIsTold(nl)
  <2>1. p # NoPiece /\ fl.nOfPieces \in 0..MAX_FRAGMENTS_PER_PACKET
    BY <1>0, FragmentsAssumption DEF List
  <2>2. CASE fl.nOfPieces = 0 /\ p.lastFrag
    BY <1>0, <1>2, <2>1, <2>2 DEF SizeIsTold, List, PieceIndex
  <2>3. CASE fl.nOfPieces = 0 /\ ~ p.lastFrag
    BY <1>2, <2>3 DEF SizeIsTold
  <2>4. CASE fl.nOfPieces > 0
    \* The slot of the last piece is taken: p went elsewhere.
    <3>1. fl.fragList[fl.nOfPieces - 1] # NoPiece /\ fl.fragList[fl.nOfPieces - 1].lastFrag
      BY <2>4 DEF Sound, SizeIsTold
    <3>2. k # fl.nOfPieces - 1
      BY <3>1 DEF Wanted
    <3> QED BY <1>0, <1>2, <2>1, <2>4, <3>1, <3>2 DEF SizeIsTold, List, PieceIndex
  <2> QED BY <2>1, <2>2, <2>3, <2>4
<1> QED BY <1>1, <1>2, <1>3, <1>4 DEF Sound

\* The first piece of a list never completes it.
LEMMA FirstPieceWaits ==
  ASSUME NEW g \in Group, NEW p \in Piece, GroupOf(p) = g
  PROVE  /\ Sound(AddPiece(NewList(g), p))
         /\ AddPiece(NewList(g), p).id = g
         /\ ~ Complete(AddPiece(NewList(g), p))
<1> DEFINE fl == NewList(g)
           k == PieceOf(p)
           nl == StorePiece(fl, p)
<1> USE PacketIDsAssumption
<1>1. Sound(fl) /\ fl.nOfPieces = 0 /\ fl.id = g /\ fl \in List /\ k \in PieceIndex
  BY NewListSound, PieceOfType DEF Sound
<1>2. Wanted(fl, p)
  BY <1>1 DEF Wanted, NewList
<1>3. AddPiece(fl, p) = nl /\ Sound(nl) /\ nl.id = g
  BY <1>1, <1>2, StorePieceSound DEF AddPiece
<1>4. ~ Complete(nl)
  <2>1. CASE p.lastFrag
    <3>1. HeldBelow(fl, k) = {}
      BY DEF NewList, HeldBelow
    <3>2. nl.receivedPieces = 1 + Cardinality(HeldBelow(fl, k)) /\ nl.nOfPieces = k + 1
      BY <1>1, <2>1, StorePieceFields
    <3>3. nl.receivedPieces = 1
      BY <3>1, <3>2, FS_EmptySet
    <3> QED BY <3>2, <3>3 DEF Complete
  <2>2. CASE ~ p.lastFrag
    <3>1. nl.nOfPieces = 0
      BY <1>1, <2>2, StorePieceFields
    <3> QED BY <3>1 DEF Complete
  <2> QED BY <2>1, <2>2
<1> QED BY <1>3, <1>4

\* A complete list is a whole message.
LEMMA BuiltIsWhole ==
  ASSUME NEW fl, Sound(fl), Complete(fl)
  PROVE  IsOneMessage(BuildCompletedPacket(fl))
<1> DEFINE n == fl.nOfPieces
           m == BuildCompletedPacket(fl)
<1> USE PacketIDsAssumption
<1>1. /\ fl \in List /\ Exact(fl) /\ n \in 2..MAX_FRAGMENTS_PER_PACKET
      /\ fl.id \in Group /\ n - 1 \in PieceIndex
  BY DEF Sound, List, Complete, PieceIndex
<1>2. HeldBelow(fl, n) = 0..(n - 1)
  BY <1>1, CountDecides
<1>3. DOMAIN m = 0..(n - 1) /\ \A k \in 0..(n - 1) : m[k] = fl.fragList[k]
  BY DEF BuildCompletedPacket
<1>4. ASSUME NEW k \in 0..(n - 1)
      PROVE  m[k] \in Piece /\ PieceOf(m[k]) = k /\ GroupOf(m[k]) = fl.id
  <2>1. k \in PieceIndex /\ fl.fragList[k] # NoPiece
    BY <1>2 DEF HeldBelow
  <2> QED BY <1>1, <1>3, <2>1 DEF Sound, InPlace, List
<1>5. m[n - 1].lastFrag
  BY <1>1, <1>3 DEF Sound, SizeIsTold
<1> HIDE DEF m
<1>6. \E last \in PieceIndex, g \in Group :
        /\ DOMAIN m = 0..last
        /\ \A k \in 0..last : /\ m[k] \in Piece
                              /\ PieceOf(m[k]) = k
                              /\ GroupOf(m[k]) = g
        /\ m[last].lastFrag
  <2> n - 1 \in PieceIndex /\ fl.id \in Group
    BY <1>1
  <2> WITNESS n - 1 \in PieceIndex, fl.id \in Group
  <2> QED BY <1>3, <1>4, <1>5
<1> QED BY <1>6 DEF m, IsOneMessage

-----------------------------------------------------------------------------
(***************************************************************************)
(* The incomplete messages of a connection.                                *)
(***************************************************************************)
Entries ==
  \A i \in DOMAIN fragPackets : Sound(fragPackets[i]) /\ ~ Complete(fragPackets[i])

IInv == TypeOK /\ Entries /\ OneListPerGroup /\ PostedIsOneMessage

LEMMA InitHolds == Init => IInv
BY FragmentsAssumption, MaxArrivalsAssumption
DEF Init, IInv, TypeOK, Entries, OneListPerGroup, PostedIsOneMessage

\* Making room leaves fewer lists than the limit, all of them old ones.
LEMMA RoomIsMade ==
  ASSUME IInv
  PROVE  LET q == MakeRoom(fragPackets)
         IN  /\ q \in Seq(List) /\ Len(q) < MAX_INCOMPLETE_FRAGMENTED_LIST
             /\ \E d \in {0, 1} : \A i \in DOMAIN q :
                  i + d \in DOMAIN fragPackets /\ q[i] = fragPackets[i + d]
<1> USE FragmentsAssumption
<1>1. fragPackets \in Seq(List) /\ Len(fragPackets) <= MAX_INCOMPLETE_FRAGMENTED_LIST
  BY DEF IInv, TypeOK
<1>2. CASE Len(fragPackets) >= MAX_INCOMPLETE_FRAGMENTED_LIST
  BY <1>1, <1>2 DEF MakeRoom
<1>3. CASE Len(fragPackets) < MAX_INCOMPLETE_FRAGMENTED_LIST
  BY <1>1, <1>3 DEF MakeRoom
<1> QED BY <1>1, <1>2, <1>3

\* A piece of a group nobody waits for begins a list.
LEMMA FirstPieceStep ==
  ASSUME IInv, NEW p \in Piece, ReceivePiece(p), ~ IsKnown(fragPackets, GroupOf(p))
  PROVE  IInv'
<1> DEFINE q == MakeRoom(fragPackets)
           new == AddPiece(NewList(GroupOf(p)), p)
<1> USE FragmentsAssumption
<1>1. fragPackets' = Append(q, new) /\ posted' = <<>> /\ arrivals' \in 0..MaxArrivals
  BY MaxArrivalsAssumption
  DEF ReceivePiece, RegisterFragment, RegisterFirstPiece, IInv, TypeOK
<1>2. Sound(new) /\ ~ Complete(new) /\ new.id = GroupOf(p) /\ new \in List
  BY GroupOfType, FirstPieceWaits DEF Sound
<1>3. q \in Seq(List) /\ Len(q) < MAX_INCOMPLETE_FRAGMENTED_LIST
  BY RoomIsMade
<1>4. PICK d \in {0, 1} : \A i \in DOMAIN q :
        i + d \in DOMAIN fragPackets /\ q[i] = fragPackets[i + d]
  BY RoomIsMade
<1> HIDE DEF q, new
<1>5. /\ DOMAIN fragPackets' = 1..(Len(q) + 1)
      /\ fragPackets'[Len(q) + 1] = new
      /\ \A i \in 1..Len(q) : i \in DOMAIN q /\ fragPackets'[i] = q[i]
      /\ fragPackets' \in Seq(List) /\ Len(fragPackets') = Len(q) + 1
  BY <1>1, <1>2, <1>3
<1>6. TypeOK'
  BY <1>1, <1>3, <1>5 DEF TypeOK
<1>7. Entries'
  <2> SUFFICES ASSUME NEW i \in DOMAIN fragPackets'
               PROVE  Sound(fragPackets'[i]) /\ ~ Complete(fragPackets'[i])
    BY DEF Entries
  <2>1. CASE i = Len(q) + 1
    BY <1>2, <1>5, <2>1
  <2>2. CASE i # Len(q) + 1
    BY <1>3, <1>4, <1>5, <2>2 DEF IInv, Entries
  <2> QED BY <2>1, <2>2
<1>8. OneListPerGroup'
  <2> SUFFICES ASSUME NEW i \in DOMAIN fragPackets', NEW j \in DOMAIN fragPackets',
                      fragPackets'[i].id = fragPackets'[j].id
               PROVE  i = j
    BY DEF OneListPerGroup
  <2>1. ASSUME NEW k \in 1..Len(q) PROVE fragPackets'[k].id # GroupOf(p)
    BY <1>4, <1>5 DEF IsKnown
  <2>2. CASE i \in 1..Len(q) /\ j \in 1..Len(q)
    <3>1. i + d = j + d
      BY <1>4, <1>5, <2>2 DEF IInv, OneListPerGroup
    <3> QED BY <1>3, <3>1, <2>2
  <2>3. CASE i \notin 1..Len(q) \/ j \notin 1..Len(q)
    BY <1>2, <1>3, <1>5, <2>1, <2>3
  <2> QED BY <2>2, <2>3
<1> QED BY <1>1, <1>6, <1>7, <1>8 DEF IInv, PostedIsOneMessage

\* The only list of its group is the one RegisterFragment finds.
LEMMA FirstOfIsTheList ==
  ASSUME IInv, NEW g \in Group, IsKnown(fragPackets, g)
  PROVE  FirstOf(fragPackets, g) \in DOMAIN fragPackets /\ fragPackets[FirstOf(fragPackets, g)].id = g
<1>1. PICK i \in DOMAIN fragPackets : fragPackets[i].id = g
  BY DEF IsKnown
<1>2. \A j \in DOMAIN fragPackets : fragPackets[j].id = g => i <= j
  BY <1>1 DEF IInv, OneListPerGroup, TypeOK
<1> QED BY <1>1, <1>2 DEF FirstOf

\* A later piece is dropped, stored, or completes its message, whose list goes.
LEMMA NextPieceStep ==
  ASSUME IInv, NEW p \in Piece, ReceivePiece(p), IsKnown(fragPackets, GroupOf(p))
  PROVE  IInv'
<1> DEFINE n == Len(fragPackets)
<1>1. PICK i \in DOMAIN fragPackets :
        i = FirstOf(fragPackets, GroupOf(p)) /\ fragPackets[i].id = GroupOf(p)
  BY FirstOfIsTheList, GroupOfType
<1>2. PICK old : old = fragPackets[i]
  OBVIOUS
<1>3. PICK new : new = AddPiece(old, p)
  OBVIOUS
<1>4. /\ fragPackets \in Seq(List) /\ DOMAIN fragPackets = 1..n /\ n \in Nat
      /\ n <= MAX_INCOMPLETE_FRAGMENTED_LIST /\ i \in 1..n
      /\ Sound(old) /\ ~ Complete(old) /\ old.id = GroupOf(p)
      /\ \A j \in 1..n : Sound(fragPackets[j]) /\ ~ Complete(fragPackets[j])
      /\ \A j, k \in 1..n : fragPackets[j].id = fragPackets[k].id => j = k
  BY <1>1, <1>2 DEF IInv, TypeOK, Entries, OneListPerGroup
<1>5. arrivals' \in 0..MaxArrivals
  BY MaxArrivalsAssumption DEF ReceivePiece, IInv, TypeOK
<1>6. Sound(new) /\ new.id = old.id /\ new \in List
  <2>1. CASE Wanted(old, p)
    BY <1>3, <1>4, <2>1, StorePieceSound DEF AddPiece, Sound
  <2>2. CASE ~ Wanted(old, p)
    BY <1>3, <1>4, <2>2 DEF AddPiece, Sound
  <2> QED BY <2>1, <2>2
<1>7. CASE Wanted(old, p) /\ Complete(new)
  <2>1. fragPackets' = Without(fragPackets, i) /\ posted' = BuildCompletedPacket(new)
    BY <1>1, <1>2, <1>3, <1>7 DEF ReceivePiece, RegisterFragment, RegisterNextPiece
  <2>2. PICK f : f = [j \in 1..n |-> IF j < i THEN j ELSE j + 1]
    OBVIOUS
  <2>3. /\ fragPackets' \in Seq(List) /\ Len(fragPackets') = n - 1
        /\ DOMAIN fragPackets' = 1..(n - 1)
        /\ \A j \in 1..(n - 1) : f[j] \in 1..n /\ fragPackets'[j] = fragPackets[f[j]]
        /\ \A j, k \in 1..(n - 1) : f[j] = f[k] => j = k
    BY <1>4, <2>1, <2>2 DEF Without
  <2>4. TypeOK'
    BY <1>4, <1>5, <2>3, FragmentsAssumption DEF TypeOK
  <2>5. Entries'
    BY <1>4, <2>3 DEF Entries
  <2>6. OneListPerGroup'
    <3> SUFFICES ASSUME NEW j \in 1..(n - 1), NEW k \in 1..(n - 1),
                        fragPackets'[j].id = fragPackets'[k].id
                 PROVE  j = k
      BY <2>3 DEF OneListPerGroup
    <3>1. /\ f[j] \in 1..n /\ fragPackets'[j] = fragPackets[f[j]]
          /\ f[k] \in 1..n /\ fragPackets'[k] = fragPackets[f[k]]
      BY <2>3
    <3>2. fragPackets[f[j]].id = fragPackets[f[k]].id
      BY <3>1
    <3>3. f[j] = f[k]
      BY <1>4, <3>1, <3>2
    <3> QED BY <2>3, <3>3
  <2>7. PostedIsOneMessage'
    BY <1>6, <1>7, <2>1, BuiltIsWhole DEF PostedIsOneMessage
  <2> QED BY <2>4, <2>5, <2>6, <2>7 DEF IInv
<1>8. CASE ~ (Wanted(old, p) /\ Complete(new))
  <2>1. fragPackets' = [fragPackets EXCEPT ![i] = new] /\ posted' = <<>>
    BY <1>1, <1>2, <1>3, <1>8 DEF ReceivePiece, RegisterFragment, RegisterNextPiece
  <2>2. ~ Complete(new)
    BY <1>3, <1>4, <1>8 DEF AddPiece
  <2>3. /\ fragPackets' \in Seq(List) /\ Len(fragPackets') = n
        /\ DOMAIN fragPackets' = 1..n
        /\ \A j \in 1..n : fragPackets'[j] = IF j = i THEN new ELSE fragPackets[j]
    BY <1>4, <1>6, <2>1
  <2>4. TypeOK'
    BY <1>4, <1>5, <2>3 DEF TypeOK
  <2>5. Entries'
    BY <1>4, <1>6, <2>2, <2>3 DEF Entries
  <2>6. OneListPerGroup'
    BY <1>2, <1>4, <1>6, <2>3 DEF OneListPerGroup
  <2> QED BY <2>1, <2>4, <2>5, <2>6 DEF IInv, PostedIsOneMessage
<1> QED BY <1>7, <1>8

\* What is left after the maintenance are old lists, each from a place of its own.
LEMMA MaintenanceStep == IInv /\ Maintenance => IInv'
<1> SUFFICES ASSUME IInv, Maintenance PROVE IInv'
  OBVIOUS
<1>1. PICK kept : kept = {i \in DOMAIN fragPackets : fragPackets[i].timeout > 0}
  OBVIOUS
<1>2. PICK m : m = Cardinality(kept)
  OBVIOUS
<1>3. PICK at \in [1..m -> kept] :
        /\ \A j, k \in 1..m : j < k => at[j] < at[k]
        /\ fragPackets' = [k \in 1..m |-> fragPackets[at[k]]]
  BY <1>1, <1>2 DEF Maintenance, VerifyTimedoutFragments, OnlyAt
<1>4. /\ fragPackets \in Seq(List) /\ Len(fragPackets) \in Nat
      /\ DOMAIN fragPackets = 1..Len(fragPackets)
      /\ Len(fragPackets) <= MAX_INCOMPLETE_FRAGMENTED_LIST
  BY DEF IInv, TypeOK
<1>5. m \in Nat /\ m <= Len(fragPackets)
  <2>1. PICK len \in Nat : len = Len(fragPackets)
    BY <1>4
  <2>2. 1 \in Int /\ len \in Int /\ (1 <= len => len - 1 + 1 = len)
    BY <2>1
  <2>3. IsFiniteSet(1..len) /\ Cardinality(1..len) = IF 1 > len THEN 0 ELSE len - 1 + 1
    BY <2>2, FS_Interval
  <2>4. Cardinality(1..len) = len
    BY <2>1, <2>3
  <2>5. kept \subseteq 1..len
    BY <1>1, <1>4, <2>1
  <2>6. IsFiniteSet(kept) /\ Cardinality(kept) <= len
    BY <2>3, <2>4, <2>5, FS_Subset
  <2> QED BY <1>2, <2>1, <2>6, FS_CardinalityType
<1>6. /\ \A k \in 1..m : at[k] \in DOMAIN fragPackets
      /\ \A j, k \in 1..m : at[j] = at[k] => j = k
  BY <1>1, <1>3, <1>4, <1>5
<1>7. /\ fragPackets' \in Seq(List) /\ Len(fragPackets') = m /\ DOMAIN fragPackets' = 1..m
      /\ \A k \in 1..m : fragPackets'[k] = fragPackets[at[k]]
  BY <1>3, <1>4, <1>5, <1>6
<1>8. TypeOK'
  BY <1>4, <1>5, <1>7, FragmentsAssumption DEF TypeOK, IInv, Maintenance
<1>9. Entries' /\ OneListPerGroup'
  BY <1>6, <1>7 DEF IInv, Entries, OneListPerGroup
<1> QED BY <1>8, <1>9 DEF IInv, PostedIsOneMessage, Maintenance

\* Time changes nothing but the time left.
LEMMA TickStep == IInv /\ Tick => IInv'
<1> SUFFICES ASSUME IInv, Tick PROVE IInv'
  OBVIOUS
<1>1. /\ fragPackets \in Seq(List) /\ Len(fragPackets) \in Nat
      /\ DOMAIN fragPackets = 1..Len(fragPackets)
  BY DEF IInv, TypeOK
<1>2. ASSUME NEW i \in DOMAIN fragPackets
      PROVE  /\ fragPackets'[i] \in List
             /\ fragPackets'[i].id = fragPackets[i].id
             /\ fragPackets'[i].fragList = fragPackets[i].fragList
             /\ fragPackets'[i].receivedPieces = fragPackets[i].receivedPieces
             /\ fragPackets'[i].nOfPieces = fragPackets[i].nOfPieces
  <2>1. fragPackets[i] \in List
    BY <1>1
  <2>2. fragPackets'[i] =
          [fragPackets[i] EXCEPT !.timeout = IF @ > 0 THEN @ - 1 ELSE 0]
    BY DEF Tick, AgeFragments
  <2> QED BY <2>1, <2>2, FragmentsAssumption DEF List
<1>3. fragPackets' \in Seq(List) /\ Len(fragPackets') = Len(fragPackets)
      /\ DOMAIN fragPackets' = DOMAIN fragPackets
  BY <1>1, <1>2 DEF Tick, AgeFragments
<1>4. TypeOK'
  BY <1>3 DEF IInv, TypeOK, Tick
<1>5. Entries'
  <2> SUFFICES ASSUME NEW i \in DOMAIN fragPackets
               PROVE  (Sound(fragPackets[i]) /\ ~ Complete(fragPackets[i]))'
    BY <1>3 DEF Entries
  <2>1. PICK fl, nl : fl = fragPackets[i] /\ nl = fragPackets'[i]
    OBVIOUS
  <2>2. /\ nl \in List /\ nl.id = fl.id /\ nl.fragList = fl.fragList
        /\ nl.receivedPieces = fl.receivedPieces /\ nl.nOfPieces = fl.nOfPieces
    BY <1>2, <2>1
  <2>3. Sound(fl) /\ ~ Complete(fl)
    BY <2>1 DEF IInv, Entries
  <2>4. Bound(nl) = Bound(fl) /\ HeldBelow(nl, Bound(fl)) = HeldBelow(fl, Bound(fl))
    BY <2>2 DEF Bound, HeldBelow
  <2>5. Exact(nl)
    BY <2>2, <2>3, <2>4 DEF Sound, Exact
  <2>6. InPlace(nl) /\ SizeIsTold(nl)
    BY <2>2, <2>3 DEF Sound, InPlace, SizeIsTold
  <2>7. ~ Complete(nl)
    BY <2>2, <2>3 DEF Complete
  <2>8. Sound(nl)
    BY <2>2, <2>5, <2>6 DEF Sound
  <2> QED BY <2>1, <2>7, <2>8
<1>6. OneListPerGroup'
  BY <1>2, <1>3 DEF IInv, OneListPerGroup
<1> QED BY <1>4, <1>5, <1>6 DEF IInv, PostedIsOneMessage, Tick

LEMMA StepHolds == IInv /\ [Next]_vars => IInv'
<1> SUFFICES ASSUME IInv, [Next]_vars PROVE IInv'
  OBVIOUS
<1>1. ASSUME NEW p \in Piece, ReceivePiece(p) PROVE IInv'
  BY <1>1, FirstPieceStep, NextPieceStep
<1>2. CASE UNCHANGED vars
  BY <1>2 DEF vars, IInv, TypeOK, Entries, OneListPerGroup, PostedIsOneMessage
<1> QED BY <1>1, <1>2, MaintenanceStep, TickStep DEF Next

LEMMA InvariantHolds == Spec => []IInv
BY InitHolds, StepHolds, PTL DEF Spec

-----------------------------------------------------------------------------
(* The theorems.                                                           *)

\* Every incomplete message is a well-typed FragmentsList, and there are at most
\* MAX_INCOMPLETE_FRAGMENTED_LIST of them.
THEOREM TypeCorrect == Spec => []TypeOK
<1>1. IInv => TypeOK
  BY DEF IInv
<1> QED BY <1>1, InvariantHolds, PTL

\* The pieces of a group are in one list.
THEOREM OneListForAGroup == Spec => []OneListPerGroup
<1>1. IInv => OneListPerGroup
  BY DEF IInv
<1> QED BY <1>1, InvariantHolds, PTL

\* receivedPieces never drifts from the pieces held.
THEOREM CountStaysExact == Spec => []CountIsExact
<1>1. IInv => CountIsExact
  BY DEF IInv, Entries, Sound, Exact, Bound, CountIsExact
<1> QED BY <1>1, InvariantHolds, PTL

\* A message with all its pieces is built at once: no list that is kept is whole.
THEOREM NoWholeListIsKept == Spec => []KeptListsLackAPiece
<1>1. IInv => KeptListsLackAPiece
  <2> SUFFICES ASSUME IInv, NEW i \in DOMAIN fragPackets, fragPackets[i].nOfPieces > 1
               PROVE  \E k \in 0..(fragPackets[i].nOfPieces - 1) :
                        fragPackets[i].fragList[k] = NoPiece
    BY DEF KeptListsLackAPiece
  <2>1. PICK fl : fl = fragPackets[i]
    OBVIOUS
  <2>2. fl \in List /\ Exact(fl) /\ ~ Complete(fl) /\ fl.nOfPieces > 1
    BY <2>1 DEF IInv, Entries, Sound
  <2>3. HeldBelow(fl, fl.nOfPieces) # 0..(fl.nOfPieces - 1)
    BY <2>2, CountDecides
  <2>4. 0..(fl.nOfPieces - 1) \subseteq PieceIndex
    BY <2>2, PacketIDsAssumption DEF List, PieceIndex
  <2>5. \E k \in 0..(fl.nOfPieces - 1) : fl.fragList[k] = NoPiece
    BY <2>2, <2>3, <2>4 DEF HeldBelow, PieceIndex, List
  <2> QED BY <2>1, <2>5
<1> QED BY <1>1, InvariantHolds, PTL

\* What is posted is one message, whole and in order.
THEOREM PostsOnlyMessages == Spec => []PostedIsOneMessage
<1>1. IInv => PostedIsOneMessage
  BY DEF IInv
<1> QED BY <1>1, InvariantHolds, PTL
-----------------------------------------------------------------------------
(* No incomplete message disappears in another way than the three of       *)
(* NoMessageLostOtherwise: one lemma for each way a list can change.       *)

\* The pieces of a complete list are of its group, and there is a first one.
LEMMA BuiltIsOfItsGroup ==
  ASSUME NEW fl, Sound(fl), Complete(fl)
  PROVE  BuildCompletedPacket(fl) # <<>> /\ GroupOf(BuildCompletedPacket(fl)[0]) = fl.id
<1> DEFINE n == fl.nOfPieces
<1>1. fl \in List /\ Exact(fl) /\ n \in Nat /\ n > 1
  BY PacketIDsAssumption DEF Sound, List, Complete
<1>2. 0 \in 0..(n - 1) /\ 0 \in HeldBelow(fl, n)
  BY <1>1, CountDecides
<1>3. fl.fragList[0] # NoPiece /\ 0 \in PieceIndex
  BY <1>2 DEF HeldBelow
<1>4. GroupOf(fl.fragList[0]) = fl.id
  BY <1>3 DEF Sound, InPlace
<1>5. 0 \in DOMAIN BuildCompletedPacket(fl) /\ BuildCompletedPacket(fl)[0] = fl.fragList[0]
  BY <1>2 DEF BuildCompletedPacket
<1> QED BY <1>4, <1>5

\* The loop that erases the entries that are out of time passes over every
\* other one.
LEMMA ErasingKeepsTheOthers ==
  ASSUME NEW list, NEW n \in Nat, DOMAIN list = 1..n, NEW kept \in SUBSET (1..n),
         NEW left \in OnlyAt(list, kept), NEW i \in kept
  PROVE  \E k \in DOMAIN left : left[k] = list[i]
<1> DEFINE m == Cardinality(kept)
<1>1. IsFiniteSet(kept) /\ m \in Nat
  <2>1. IsFiniteSet(1..n)
    BY FS_Interval
  <2> QED BY <2>1, FS_Subset, FS_CardinalityType
<1>2. PICK at \in [1..m -> kept] :
        /\ \A j, k \in 1..m : j < k => at[j] < at[k]
        /\ left = [k \in 1..m |-> list[at[k]]]
  BY DEF OnlyAt
<1> HIDE DEF m
<1>3. IsFiniteSet(1..m) /\ Cardinality(1..m) = m
  <2>1. 1 \in Int /\ m \in Int /\ (1 <= m => m - 1 + 1 = m) /\ (1 > m => m = 0)
    BY <1>1
  <2>2. IsFiniteSet(1..m) /\ Cardinality(1..m) = IF 1 > m THEN 0 ELSE m - 1 + 1
    BY <2>1, FS_Interval
  <2> QED BY <1>1, <2>1, <2>2
<1>4. at \in Injection(1..m, kept)
  <2>1. ASSUME NEW j \in 1..m, NEW k \in 1..m, at[j] = at[k] PROVE j = k
    <3>1. at[j] \in Nat /\ at[k] \in Nat
      <4>1. at[j] \in kept /\ at[k] \in kept /\ \A x \in kept : x \in Nat
        BY <1>2
      <4> QED BY <4>1
    <3>2. ~ (at[j] < at[k]) /\ ~ (at[k] < at[j])
      BY <2>1, <3>1
    <3>3. ~ (j < k) /\ ~ (k < j)
      BY <1>2, <3>2
    <3> QED BY <1>1, <3>3
  <2> QED BY <2>1 DEF Injection, IsInjective
<1>5. at \in Surjection(1..m, kept)
  BY <1>1, <1>3, <1>4, FS_Injection DEF m
<1>6. PICK k \in 1..m : at[k] = i
  BY <1>5 DEF Surjection
<1> QED BY <1>2, <1>6

\* One list of which NoMessageLostOtherwise speaks.
Accounted(i) ==
  \/ IsKnown(fragPackets', fragPackets[i].id)
  \/ posted' # <<>> /\ GroupOf(posted'[0]) = fragPackets[i].id
  \/ fragPackets[i].timeout = 0
  \/ /\ i = 1
     /\ Len(fragPackets) = MAX_INCOMPLETE_FRAGMENTED_LIST
     /\ Len(fragPackets') = Len(fragPackets)

\* A new message evicts the first list or none.
LEMMA FirstPieceAccounts ==
  ASSUME IInv, NEW p \in Piece, ReceivePiece(p), ~ IsKnown(fragPackets, GroupOf(p)),
         NEW i \in DOMAIN fragPackets
  PROVE  Accounted(i)
<1> DEFINE q == MakeRoom(fragPackets)
           new == AddPiece(NewList(GroupOf(p)), p)
           n == Len(fragPackets)
<1> USE FragmentsAssumption
<1>1. fragPackets' = Append(q, new)
  BY DEF ReceivePiece, RegisterFragment, RegisterFirstPiece
<1>2. /\ fragPackets \in Seq(List) /\ n \in Nat /\ DOMAIN fragPackets = 1..n
      /\ n <= MAX_INCOMPLETE_FRAGMENTED_LIST /\ i \in 1..n
  BY DEF IInv, TypeOK
<1>3. new \in List
  BY GroupOfType, FirstPieceWaits DEF Sound
<1> HIDE DEF new
<1>4. CASE n < MAX_INCOMPLETE_FRAGMENTED_LIST
  <2>1. fragPackets' = Append(fragPackets, new)
    BY <1>1, <1>2, <1>4 DEF MakeRoom
  <2>2. i \in DOMAIN fragPackets' /\ fragPackets'[i] = fragPackets[i]
    BY <1>2, <1>3, <2>1
  <2> QED BY <2>2 DEF Accounted, IsKnown
<1>5. CASE n = MAX_INCOMPLETE_FRAGMENTED_LIST
  <2>1. fragPackets' = Append(Tail(fragPackets), new)
    BY <1>1, <1>2, <1>5 DEF MakeRoom
  <2>2. /\ Tail(fragPackets) \in Seq(List) /\ Len(Tail(fragPackets)) = n - 1
        /\ \A k \in 1..(n - 1) : Tail(fragPackets)[k] = fragPackets[k + 1]
    BY <1>2, <1>5
  <2>3. Len(fragPackets') = n /\ DOMAIN fragPackets' = 1..n
    BY <1>2, <1>3, <2>1, <2>2
  <2>4. CASE i = 1
    BY <1>5, <2>3, <2>4 DEF Accounted
  <2>5. CASE i # 1
    <3>1. i - 1 \in 1..(n - 1) /\ (i - 1) + 1 = i
      BY <1>2, <2>5
    <3>2. \A s \in Seq(List) : \A k \in 1..Len(s) : Append(s, new)[k] = s[k]
      BY <1>3
    <3>3. fragPackets'[i - 1] = Tail(fragPackets)[i - 1]
      BY <2>1, <2>2, <3>1, <3>2
    <3>4. i - 1 \in DOMAIN fragPackets' /\ fragPackets'[i - 1] = fragPackets[i]
      BY <1>2, <2>2, <2>3, <3>1, <3>3
    <3> QED BY <3>4 DEF Accounted, IsKnown
  <2> QED BY <2>4, <2>5
<1>6. n < MAX_INCOMPLETE_FRAGMENTED_LIST \/ n = MAX_INCOMPLETE_FRAGMENTED_LIST
  <2> HIDE DEF n
  <2> QED BY <1>2
<1> QED BY <1>4, <1>5, <1>6

\* A later piece touches the list of its group only, which goes when it is
\* complete, and then is what was posted.
LEMMA NextPieceAccounts ==
  ASSUME IInv, NEW p \in Piece, ReceivePiece(p), IsKnown(fragPackets, GroupOf(p)),
         NEW i \in DOMAIN fragPackets
  PROVE  Accounted(i)
<1> DEFINE n == Len(fragPackets)
<1>1. PICK at \in DOMAIN fragPackets :
        at = FirstOf(fragPackets, GroupOf(p)) /\ fragPackets[at].id = GroupOf(p)
  BY FirstOfIsTheList, GroupOfType
<1>2. PICK old : old = fragPackets[at]
  OBVIOUS
<1>3. PICK new : new = AddPiece(old, p)
  OBVIOUS
<1>4. /\ fragPackets \in Seq(List) /\ DOMAIN fragPackets = 1..n /\ n \in Nat
      /\ at \in 1..n /\ i \in 1..n /\ Sound(old) /\ old.id = GroupOf(p)
  BY <1>1, <1>2 DEF IInv, TypeOK, Entries
<1>5. Sound(new) /\ new.id = old.id
  <2>1. CASE Wanted(old, p)
    BY <1>3, <1>4, <2>1, StorePieceSound DEF AddPiece
  <2>2. CASE ~ Wanted(old, p)
    BY <1>3, <1>4, <2>2 DEF AddPiece
  <2> QED BY <2>1, <2>2
<1>6. CASE Wanted(old, p) /\ Complete(new)
  <2>1. fragPackets' = Without(fragPackets, at) /\ posted' = BuildCompletedPacket(new)
    BY <1>1, <1>2, <1>3, <1>6 DEF ReceivePiece, RegisterFragment, RegisterNextPiece
  <2>2. CASE i = at
    <3>1. posted' # <<>> /\ GroupOf(posted'[0]) = new.id
      BY <1>5, <1>6, <2>1, BuiltIsOfItsGroup
    <3> QED BY <1>2, <1>5, <2>2, <3>1 DEF Accounted
  <2>3. CASE i # at
    <3>1. PICK k \in 1..(n - 1) : i = IF k < at THEN k ELSE k + 1
      <4>1. CASE i < at
        BY <1>4, <4>1
      <4>2. CASE i > at
        <5>1. i - 1 \in 1..(n - 1) /\ ~ (i - 1 < at) /\ (i - 1) + 1 = i
          BY <1>4, <4>2
        <5>2. i = IF i - 1 < at THEN i - 1 ELSE (i - 1) + 1
          BY <5>1
        <5> QED BY <5>1, <5>2
      <4> QED BY <1>4, <2>3, <4>1, <4>2
    <3>2. k \in DOMAIN fragPackets' /\ fragPackets'[k] = fragPackets[i]
      BY <2>1, <3>1 DEF Without
    <3> QED BY <3>2 DEF Accounted, IsKnown
  <2> QED BY <2>2, <2>3
<1>7. CASE ~ (Wanted(old, p) /\ Complete(new))
  <2>1. fragPackets' = [fragPackets EXCEPT ![at] = new]
    BY <1>1, <1>2, <1>3, <1>7 DEF ReceivePiece, RegisterFragment, RegisterNextPiece
  <2>2. i \in DOMAIN fragPackets' /\ fragPackets'[i].id = fragPackets[i].id
    BY <1>2, <1>4, <1>5, <2>1
  <2> QED BY <2>2 DEF Accounted, IsKnown
<1> QED BY <1>6, <1>7

\* A piece of a known group is dropped or stored, a list is completed, given up or
\* evicted: as long as its time lasts an incomplete message disappears only to be
\* handed over, or as the oldest of a full list.
THEOREM LosesNoMessageOtherwise == Spec => NoMessageLostOtherwise
<1>1. ASSUME IInv, [Next]_vars
      PROVE  [\A i \in DOMAIN fragPackets : Accounted(i)]_vars
  <2> SUFFICES ASSUME Next, NEW i \in DOMAIN fragPackets PROVE Accounted(i)
    BY <1>1
  <2>1. ASSUME NEW p \in Piece, ReceivePiece(p) PROVE Accounted(i)
    BY <1>1, <2>1, FirstPieceAccounts, NextPieceAccounts
  <2>2. CASE Maintenance
    <3>1. CASE fragPackets[i].timeout = 0
      BY <3>1 DEF Accounted
    <3>2. CASE fragPackets[i].timeout # 0
      <4>1. PICK n \in Nat : DOMAIN fragPackets = 1..n
        BY <1>1 DEF IInv, TypeOK
      <4>2. fragPackets[i] \in List
        BY <1>1 DEF IInv, Entries, Sound
      <4>3. fragPackets[i].timeout > 0
        BY <3>2, <4>2, FragmentsAssumption DEF List
      <4>4. PICK kept \in SUBSET (1..n) :
              kept = {j \in DOMAIN fragPackets : fragPackets[j].timeout > 0}
        BY <4>1
      <4>5. fragPackets' \in OnlyAt(fragPackets, kept) /\ i \in kept
        BY <2>2, <4>3, <4>4 DEF Maintenance, VerifyTimedoutFragments
      <4>6. \E k \in DOMAIN fragPackets' : fragPackets'[k] = fragPackets[i]
        BY <4>1, <4>5, ErasingKeepsTheOthers
      <4> QED BY <4>6 DEF Accounted, IsKnown
    <3> QED BY <3>1, <3>2
  <2>3. CASE Tick
    <3>1. i \in DOMAIN fragPackets' /\ fragPackets'[i].id = fragPackets[i].id
      <4>1. /\ i \in DOMAIN fragPackets' /\ fragPackets[i] \in List
            /\ fragPackets'[i] =
                 [fragPackets[i] EXCEPT !.timeout = IF @ > 0 THEN @ - 1 ELSE 0]
        BY <1>1, <2>3 DEF Tick, AgeFragments, IInv, Entries, Sound
      <4> QED BY <4>1 DEF List
    <3> QED BY <3>1 DEF Accounted, IsKnown
  <2> QED BY <2>1, <2>2, <2>3 DEF Next
<1>2. [][[\A i \in DOMAIN fragPackets : Accounted(i)]_vars]_vars
         => NoMessageLostOtherwise
  BY PTL DEF NoMessageLostOtherwise, Accounted
<1> QED BY <1>1, <1>2, InvariantHolds, PTL DEF Spec
=============================================================================
