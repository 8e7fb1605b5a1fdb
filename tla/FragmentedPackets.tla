-------------------------- MODULE FragmentedPackets --------------------------
(***************************************************************************)
(* The incomplete messages of one connection.  AnalyzeUPPData registers    *)
(* the pieces, the maintenance thread drops the messages that waited too   *)
(* long; both hold cConnectionLock, so each is one step.                   *)
(***************************************************************************)
EXTENDS Fragments

CONSTANT MaxArrivals   \* bound: how many pieces the network presents

ASSUME MaxArrivalsAssumption == MaxArrivals \in Nat

VARIABLES
  fragPackets,   \* list<FragmentsList>, front first
  posted,        \* the packet the last piece completed, <<>> for none
  arrivals       \* pieces presented so far

vars == <<fragPackets, posted, arrivals>>

Init == fragPackets = <<>> /\ posted = <<>> /\ arrivals = 0

\* AnalyzeUPPData: only the last piece may be shorter than MAX_DATA_SIZE;
\* the pieces that fail this never get here.
ReceivePiece(p) ==
  LET r == RegisterFragment(fragPackets, p)
  IN  /\ arrivals < MaxArrivals
      /\ arrivals' = arrivals + 1
      /\ fragPackets' = r.packets
      /\ posted' = r.completed

Maintenance ==
  /\ fragPackets' \in VerifyTimedoutFragments(fragPackets)
  /\ posted' = <<>>
  /\ UNCHANGED arrivals

Tick ==
  /\ \E i \in DOMAIN fragPackets : fragPackets[i].timeout > 0
  /\ fragPackets' = AgeFragments(fragPackets)
  /\ posted' = <<>>
  /\ UNCHANGED arrivals

Next == (\E p \in Piece : ReceivePiece(p)) \/ Maintenance \/ Tick

\* The maintenance thread runs every 125 ms and time passes.
Spec == Init /\ [][Next]_vars /\ WF_vars(Maintenance) /\ WF_vars(Tick)

-----------------------------------------------------------------------------
\* Every entry is a FragmentsList and there are never too many of them.
TypeOK ==
  /\ fragPackets \in Seq(List)
  /\ Len(fragPackets) <= MAX_INCOMPLETE_FRAGMENTED_LIST
  /\ arrivals \in 0..MaxArrivals

\* The pieces of one group are never spread over two lists: a message could
\* not complete in either.
OneListPerGroup ==
  \A i, j \in DOMAIN fragPackets : fragPackets[i].id = fragPackets[j].id => i = j

\* receivedPieces counts the pieces of the message that are held: all of them
\* until the size is known, those below it afterwards, although AddPiece only
\* adds one each time and recounts once.
CountIsExact ==
  \A i \in DOMAIN fragPackets :
    LET fl == fragPackets[i]
    IN  fl.receivedPieces =
          Cardinality(HeldBelow(fl, IF fl.nOfPieces = 0 THEN MAX_FRAGMENTS_PER_PACKET
                                                        ELSE fl.nOfPieces))

\* A list that is still kept lacks a piece: although the result of the first
\* AddPiece of a list is ignored, no complete message is ever lost by that.
KeptListsLackAPiece ==
  \A i \in DOMAIN fragPackets :
    LET fl == fragPackets[i]
    IN  fl.nOfPieces > 1 =>
          \E k \in 0..(fl.nOfPieces - 1) : fl.fragList[k] = NoPiece

\* Pieces in order, all there and all of one group, up to the one that is marked
\* as the last.
IsOneMessage(packet) ==
  \E last \in PieceIndex, g \in Group :
    /\ DOMAIN packet = 0..last
    /\ \A k \in 0..last : /\ packet[k] \in Piece
                          /\ PieceOf(packet[k]) = k
                          /\ GroupOf(packet[k]) = g
    /\ packet[last].lastFrag

\* What is posted for analysis is one message, although nothing but the number of
\* a piece says where it belongs and the same pieces may come again.
PostedIsOneMessage == posted # <<>> => IsOneMessage(posted)

\* An incomplete message disappears in three ways only: completed, out of
\* time, or evicted as the oldest by a new message when the list is full.
NoMessageLostOtherwise ==
  [][\A i \in DOMAIN fragPackets :
       \/ IsKnown(fragPackets', fragPackets[i].id)
       \/ posted' # <<>> /\ GroupOf(posted'[0]) = fragPackets[i].id
       \/ fragPackets[i].timeout = 0
       \/ /\ i = 1
          /\ Len(fragPackets) = MAX_INCOMPLETE_FRAGMENTED_LIST
          /\ Len(fragPackets') = Len(fragPackets)]_vars

\* Once no piece arrives any more, no incomplete message stays: a connection
\* whose peer went silent in the middle of a message can still time out.
EventuallyEmpty == <>[](fragPackets = <<>>)
=============================================================================
