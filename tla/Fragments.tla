------------------------------ MODULE Fragments ------------------------------
(***************************************************************************)
(* FragmentsList as a value: the pieces of one fragmented message, how     *)
(* many there are once the last one is known, and the time left before the *)
(* maintenance thread gives the message up.  Pure operators shared by the  *)
(* modules about reassembly.                                               *)
(*                                                                         *)
(* A piece is a packet [id, lastFrag, body]; its bytes are the value body. *)
(* timeout holds the remaining time, not the instant: the test             *)
(* "timeout <= GetRunTime()" is "no time left" (the clock does not wrap).  *)
(***************************************************************************)
EXTENDS PacketIDs, Subsequences, FiniteSets, Sequences

CONSTANTS
  Body,                           \* what a piece can carry
  NoPiece,                        \* a NULL entry of fragList
  FRAGMENTATION_MAX_WAIT,         \* how long a message waits for a piece
  MAX_INCOMPLETE_FRAGMENTED_LIST  \* how many messages may be incomplete

PieceIndex == 0..(MAX_FRAGMENTS_PER_PACKET - 1)

Piece == [id : 0..(NONFRAGMENTED_PACKETS_IDOFFSET - 1),
          lastFrag : BOOLEAN, body : Body]

ASSUME FragmentsAssumption ==
  /\ FRAGMENTATION_MAX_WAIT \in Nat \ {0}
  /\ MAX_INCOMPLETE_FRAGMENTED_LIST \in Nat \ {0}
  /\ NoPiece \notin Piece

PieceOf(p) == p.id % MAX_FRAGMENTS_PER_PACKET
GroupOf(p) == p.id \div MAX_FRAGMENTS_PER_PACKET
Group == {id \div MAX_FRAGMENTS_PER_PACKET :
            id \in 0..(NONFRAGMENTED_PACKETS_IDOFFSET - 1)}

List == [id             : Group,
         fragList       : [PieceIndex -> Piece \cup {NoPiece}],
         receivedPieces : 0..MAX_FRAGMENTS_PER_PACKET,
         nOfPieces      : 0..MAX_FRAGMENTS_PER_PACKET,
         timeout        : 0..FRAGMENTATION_MAX_WAIT]

NewList(group) ==
  [id |-> group, fragList |-> [i \in PieceIndex |-> NoPiece],
   receivedPieces |-> 0, nOfPieces |-> 0, timeout |-> FRAGMENTATION_MAX_WAIT]

\* The pieces held below index n.
HeldBelow(fl, n) == {i \in PieceIndex : i < n /\ fl.fragList[i] # NoPiece}

-----------------------------------------------------------------------------
(* AddPiece.                                                               *)

\* nOfPieces = 0 means the size is not known yet; otherwise the piece must
\* lie below it.  A piece whose slot is taken is deleted.
Wanted(fl, p) ==
  /\ fl.nOfPieces = 0 \/ PieceOf(p) < fl.nOfPieces
  /\ fl.fragList[PieceOf(p)] = NoPiece

\* Deviation: the count is not restarted.
StorePieceNoRecount(fl, p) ==
  [fl EXCEPT !.fragList[PieceOf(p)] = p,
             !.nOfPieces = IF @ = 0 /\ p.lastFrag THEN PieceOf(p) + 1 ELSE @,
             !.receivedPieces = @ + 1,
             !.timeout = FRAGMENTATION_MAX_WAIT]

\* The last piece reveals the size, and the count restarts with the pieces
\* that lie below it: those beyond it no longer belong to the message.
StorePiece(fl, p) ==
  LET k      == PieceOf(p)
      learns == fl.nOfPieces = 0 /\ p.lastFrag
  IN  [fl EXCEPT
         !.fragList[k] = p,
         !.nOfPieces = IF learns THEN k + 1 ELSE @,
         !.receivedPieces =
            IF learns THEN 1 + Cardinality(HeldBelow(fl, k)) ELSE @ + 1,
         !.timeout = FRAGMENTATION_MAX_WAIT]

AddPiece(fl, p) == IF Wanted(fl, p) THEN StorePiece(fl, p) ELSE fl

\* Deviations: two pieces are not taken for a whole message, one missing piece
\* is overlooked.
CompleteOneShort(fl) == fl.receivedPieces + 1 >= fl.nOfPieces /\ fl.nOfPieces > 1
CompleteOverTwo(fl) == fl.receivedPieces = fl.nOfPieces /\ fl.nOfPieces > 2

\* A message of one piece never completes: it is not sent fragmented.
Complete(fl) == fl.receivedPieces = fl.nOfPieces /\ fl.nOfPieces > 1

\* BuildCompletedPacket dereferences fragList[0..nOfPieces-1].
BuildCompletedPacket(fl) == [i \in 0..(fl.nOfPieces - 1) |-> fl.fragList[i]]

-----------------------------------------------------------------------------
(* FragmentedPackets: the incomplete messages of a connection, oldest      *)
(* first.  RegisterFragment returns the list afterwards and the completed  *)
(* packet, <<>> for NULL.                                                  *)

IsKnown(fps, g) == \E i \in DOMAIN fps : fps[i].id = g

FirstOf(fps, g) ==
  CHOOSE i \in DOMAIN fps :
    fps[i].id = g /\ \A j \in DOMAIN fps : fps[j].id = g => i <= j

Without(fps, i) ==
  [k \in 1..(Len(fps) - 1) |-> IF k < i THEN fps[k] ELSE fps[k + 1]]

\* Deviation: no room is made.
MakeRoomNot(fps) == fps

\* A new message may evict the oldest one, whatever pieces that still gets.
MakeRoom(fps) ==
  IF Len(fps) >= MAX_INCOMPLETE_FRAGMENTED_LIST THEN Tail(fps) ELSE fps

RegisterFirstPiece(fps, p) ==
  [packets   |-> Append(MakeRoom(fps), AddPiece(NewList(GroupOf(p)), p)),
   completed |-> <<>>]

RegisterNextPiece(fps, p) ==
  LET i  == FirstOf(fps, GroupOf(p))
      fl == AddPiece(fps[i], p)
  IN  IF Wanted(fps[i], p) /\ Complete(fl)
      THEN [packets   |-> Without(fps, i),
            completed |-> BuildCompletedPacket(fl)]
      ELSE [packets |-> [fps EXCEPT ![i] = fl], completed |-> <<>>]

\* Deviation: the pieces received before are not looked up.
RegisterFragmentAnew(fps, p) == RegisterFirstPiece(fps, p)

RegisterFragment(fps, p) ==
  IF IsKnown(fps, GroupOf(p)) THEN RegisterNextPiece(fps, p)
                              ELSE RegisterFirstPiece(fps, p)

\* Deviations: a list is given up too early, or never when its size is unknown.
VerifyTimedoutFragmentsEarly(fps) ==
  OnlyAt(fps, {i \in DOMAIN fps : fps[i].timeout > 1})
VerifyTimedoutFragmentsSized(fps) ==
  OnlyAt(fps, {i \in DOMAIN fps : fps[i].timeout > 0 \/ fps[i].nOfPieces = 0})

\* What is left is the element of this set.
VerifyTimedoutFragments(fps) ==
  OnlyAt(fps, {i \in DOMAIN fps : fps[i].timeout > 0})

\* One unit of time passes.
AgeFragments(fps) ==
  [i \in DOMAIN fps |->
     [fps[i] EXCEPT !.timeout = IF @ > 0 THEN @ - 1 ELSE 0]]
=============================================================================
