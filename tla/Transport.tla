------------------------------ MODULE Transport ------------------------------
(***************************************************************************)
(* Two CommCenters talking over UDP.  Each endpoint keeps one CNMConnection*)
(* for the other, creates it when it first needs it and deletes it when it *)
(* was idle too long.  The composition of identifiers, duplicate           *)
(* suppression, retransmission, reassembly and connection expiry.          *)
(*                                                                         *)
(* Each handler that runs under cConnectionLock is one step.  What the     *)
(* queues between the threads and the network add (delay, reordering) is   *)
(* in the network: net maps each datagram in flight to the time it may     *)
(* still travel.  Instants are remaining times; Tick moves the origin.     *)
(***************************************************************************)
EXTENDS Fragments, Pending

CONSTANTS
  Endpoint,                \* the two of them
  Msg,                     \* messages the programs send, each at most once
  MsgFrom,                 \* MsgFrom[m]: the endpoint that sends it
  MsgPieces,               \* MsgPieces[m]: nBufferSize \div MAX_DATA_SIZE + 1
  MsgMaxAck,               \* MsgMaxAck[m]: dwMaxAck, 0 for an unsafe message
  AckDelay,                \* dwAckDelay of every message
  PACKET_BACKLOG_TIMEOUT,  \* how long an idle connection lives
  MaxTransit,              \* bound: the longest time in flight
  NetworkDuplicates,       \* whether the network may duplicate a datagram
  MaxLosses,               \* bound: datagrams the network may lose
  SendAges                 \* bound: the programs send at these ages only

ASSUME TransportAssumption ==
  /\ \E a, b \in Endpoint : a # b /\ Endpoint = {a, b}
  /\ NONFRAGMENTED_PACKETS_IDOFFSET % MAX_FRAGMENTS_PER_PACKET = 0
  /\ Body = [msg : Msg, piece : PieceIndex]
  /\ MsgFrom \in [Msg -> Endpoint]
  /\ MsgPieces \in [Msg -> 1..MAX_FRAGMENTS_PER_PACKET]
  /\ MsgMaxAck \in [Msg -> Nat]
  /\ AckDelay \in Nat \ {0}
  /\ PACKET_BACKLOG_TIMEOUT \in Nat \ {0}
  /\ MaxTransit \in Nat \ {0}
  /\ NetworkDuplicates \in BOOLEAN
  /\ MaxLosses \in Nat
  /\ SendAges \subseteq Nat

Other(e) == CHOOSE o \in Endpoint : o # e

NoConnection == [none |-> TRUE]

VARIABLES
  connection,   \* m_Connections of each endpoint: its entry for the other
  preSend,      \* hhUDPPreSendPacketIO of each endpoint
  net,          \* datagrams in flight, with the time left to each
  age,          \* time since the start, as far as SendAges needs it
  sent,         \* messages given to SendPacket
  losses,       \* datagrams lost so far
  analysed,     \* payloads posted for analysis (and so given to the callback)
  repeated,     \* payloads posted for analysis more than once
  registered,   \* pieces whose packet was registered as received
  refused,      \* pieces whose packet was deleted as a duplicate
  acked         \* pieces whose pending packet an acknowledgement removed

vars == <<connection, preSend, net, age, sent, losses, analysed, repeated,
          registered, refused, acked>>

-----------------------------------------------------------------------------
(* Connections.                                                            *)

NewConnection ==
  [fragmentedID |-> 0, unfragmentedID |-> 0, window |-> EmptyWindow,
   pending |-> <<>>, fragments |-> <<>>, idle |-> PACKET_BACKLOG_TIMEOUT]

\* Finds the connection of an address or creates it.
GetConnection(e) ==
  IF connection[e] = NoConnection THEN NewConnection ELSE connection[e]

\* Deviation: the time it was idle does not count.
ConnectionHasTimedoutAtOnce(c) == c.pending = <<>> /\ c.fragments = <<>>

ConnectionHasTimedout(c) ==
  c.idle = 0 /\ c.pending = <<>> /\ c.fragments = <<>>

\* The bytes of a message: its pieces in order.
Payload(m) == [i \in 0..(MsgPieces[m] - 1) |-> [msg |-> m, piece |-> i]]

-----------------------------------------------------------------------------
(* Datagrams.                                                              *)

Data(e, m, id, i) ==
  [kind |-> "data", to |-> Other(e), id |-> id,
   safe |-> MsgMaxAck[m] # 0,
   lastFrag |-> MsgPieces[m] > 1 /\ i = MsgPieces[m] - 1,
   body |-> [msg |-> m, piece |-> i],
   dwAckDelay |-> AckDelay, dwAckCount |-> MsgMaxAck[m]]

\* An acknowledgement is the bare header: the identifier and no flags.
Ack(d) == [kind |-> "ack", to |-> Other(d.to), id |-> d.id]

\* sendto: the datagrams in ds may each travel as long as the network allows.
Sending(n, ds) == [d \in DOMAIN n \cup ds |-> IF d \in ds THEN MaxTransit ELSE n[d]]
Without1(n, d) == [x \in DOMAIN n \ {d} |-> n[x]]

\* recvfrom: the datagram leaves the network, unless that keeps a copy.
Arrivals(d) ==
  {Without1(net, d)} \cup (IF NetworkDuplicates THEN {net} ELSE {})
-----------------------------------------------------------------------------
(* Sending.                                                                *)

\* SendPacket, called by the program: number the packet, or cut the message
\* into pieces that share a group, and queue them for UDPSendPacketThread.
SendPacket(e, m) ==
  LET c    == GetConnection(e)
      unf  == GetUnfragmentedPacketID(c.unfragmentedID)
      base == GetFragmentedPacketID(c.fragmentedID)
      cut  == MsgPieces[m] > 1
  IN  /\ m \notin sent /\ MsgFrom[m] = e /\ age \in SendAges
      /\ sent' = sent \cup {m}
      /\ connection' = [connection EXCEPT ![e] =
           IF cut THEN [c EXCEPT !.fragmentedID = base]
                  ELSE [c EXCEPT !.unfragmentedID = unf]]
      /\ preSend' = [preSend EXCEPT ![e] = @ \o
           [i \in 1..MsgPieces[m] |->
              Data(e, m, IF cut THEN base + i - 1 ELSE unf, i - 1)]]
      /\ UNCHANGED <<net, age, losses, analysed, repeated, registered, refused, acked>>

\* UDPSendPacketThread: a safe packet is pending before it is sent.  The
\* connection may have been deleted since SendPacket numbered the packet.
UDPSendPacketThread(e) ==
  /\ preSend[e] # <<>>
  /\ LET c == GetConnection(e)
         d == Head(preSend[e])
     IN  /\ connection' = [connection EXCEPT ![e] =
              IF d.safe THEN [c EXCEPT !.pending = AddPending(@, d, 0)] ELSE c]
         /\ net' = Sending(net, {d})
  /\ preSend' = [preSend EXCEPT ![e] = Tail(@)]
  /\ UNCHANGED <<age, sent, losses, analysed, repeated, registered, refused, acked>>

-----------------------------------------------------------------------------
(* Receiving: AnalyzeUPPData, on the datagram recvfrom returned.           *)

PostAnalysePacket(payload) ==
  /\ analysed' = analysed \cup {payload}
  /\ repeated' = IF payload \in analysed THEN repeated \cup {payload} ELSE repeated

\* A known identifier: the packet is acknowledged all the same, and deleted.
DropDuplicate(e, d) ==
  /\ AlreadyReceivedPacket(GetConnection(e).window, d.id)
  /\ connection' = [connection EXCEPT ![e] = GetConnection(e)]
  /\ refused' = refused \cup {d.body}
  /\ UNCHANGED <<analysed, repeated, registered>>

Registered(c, id) ==
  [c EXCEPT !.window = RegisterReceivedPacketID(@, id),
            !.idle = PACKET_BACKLOG_TIMEOUT]

AcceptUnfragmented(e, d) ==
  /\ ~ AlreadyReceivedPacket(GetConnection(e).window, d.id)
  /\ d.id >= NONFRAGMENTED_PACKETS_IDOFFSET
  /\ connection' = [connection EXCEPT ![e] = Registered(GetConnection(e), d.id)]
  /\ registered' = registered \cup {d.body}
  /\ PostAnalysePacket([i \in {0} |-> d.body])
  /\ UNCHANGED refused

\* The pieces of a CommCenter other than the last are all of full size.
AcceptFragment(e, d) ==
  LET c == Registered(GetConnection(e), d.id)
      r == RegisterFragment(c.fragments,
             [id |-> d.id, lastFrag |-> d.lastFrag, body |-> d.body])
  IN  /\ ~ AlreadyReceivedPacket(GetConnection(e).window, d.id)
      /\ d.id < NONFRAGMENTED_PACKETS_IDOFFSET
      /\ connection' = [connection EXCEPT ![e] = [c EXCEPT !.fragments = r.packets]]
      /\ registered' = registered \cup {d.body}
      /\ IF r.completed = <<>>
         THEN UNCHANGED <<analysed, repeated>>
         ELSE PostAnalysePacket([i \in DOMAIN r.completed |-> r.completed[i].body])
      /\ UNCHANGED refused

\* The acknowledgement is sent before the packet is looked at.
ReceiveData(e, d) ==
  /\ d.kind = "data" /\ d.to = e
  /\ \E n \in Arrivals(d) : net' = Sending(n, IF d.safe THEN {Ack(d)} ELSE {})
  /\ DropDuplicate(e, d) \/ AcceptUnfragmented(e, d) \/ AcceptFragment(e, d)
  /\ UNCHANGED <<preSend, age, sent, losses, acked>>

ReceiveAck(e, d) ==
  LET c == GetConnection(e)
  IN  /\ d.kind = "ack" /\ d.to = e
      /\ net' \in Arrivals(d)
      /\ connection' = [connection EXCEPT ![e] =
           [c EXCEPT !.pending = DestroyPending(@, d.id)]]
      /\ acked' = IF IsPending(c.pending, d.id)
                  THEN acked \cup {c.pending[FirstPending(c.pending, d.id)].packet.body}
                  ELSE acked
      /\ UNCHANGED <<preSend, age, sent, losses, analysed, repeated, registered, refused>>

-----------------------------------------------------------------------------
(* Time.                                                                   *)

\* Deviation: incomplete messages are not looked at.
MaintainedPendingOnly(c) ==
  {[c EXCEPT !.pending = left] : left \in VerifyTimedoutPending(c.pending, 0)}

LeftWith(c, left, kept) == [c EXCEPT !.pending = left, !.fragments = kept]

\* The connection afterwards is the element of this set.
Maintained(c) ==
  {LeftWith(c, left, kept) : left \in VerifyTimedoutPending(c.pending, 0),
                             kept \in VerifyTimedoutFragments(c.fragments)}

\* UDPMaintenancePacket: retry or give up, drop stale fragments, and delete
\* the connection if it was idle too long and holds nothing.
Maintenance(e) ==
  /\ connection[e] # NoConnection
  /\ net' = Sending(net, ReSentPackets(connection[e].pending, 0))
  /\ \E c \in Maintained(connection[e]) :
       connection' = [connection EXCEPT ![e] =
         IF ConnectionHasTimedout(c) THEN NoConnection ELSE c]
  /\ UNCHANGED <<preSend, age, sent, losses, analysed, repeated, registered, refused, acked>>

\* The threads keep up with the clock: within one unit of time the
\* maintenance thread did what is due and the queue was emptied.
NothingDue(e) ==
  /\ preSend[e] = <<>>
  /\ connection[e] # NoConnection =>
       /\ connection[e] \in Maintained(connection[e])
       /\ ~ ConnectionHasTimedout(connection[e])

AgePending(q) == [i \in DOMAIN q |-> [q[i] EXCEPT !.dwTimeout = @ - 1]]

Older(c) ==
  [c EXCEPT !.idle = IF @ > 0 THEN @ - 1 ELSE 0,
            !.pending = AgePending(@),
            !.fragments = AgeFragments(@)]

MoreSends == \E a \in SendAges : age <= a

\* A datagram whose time is over has arrived or is lost.  A network that
\* duplicates lets copies, and so every datagram, vanish by themselves.
Tick ==
  /\ \A e \in Endpoint : NothingDue(e)
  /\ NetworkDuplicates \/ \A d \in DOMAIN net : net[d] > 0
  /\ MoreSends \/ net # <<>> \/ \E e \in Endpoint : connection[e] # NoConnection
  /\ connection' = [e \in Endpoint |-> IF connection[e] = NoConnection
                                      THEN NoConnection ELSE Older(connection[e])]
  /\ net' = [d \in {x \in DOMAIN net : net[x] > 0} |-> net[d] - 1]
  /\ age' = IF MoreSends THEN age + 1 ELSE age
  /\ UNCHANGED <<preSend, sent, losses, analysed, repeated, registered, refused, acked>>

Lose(d) ==
  /\ losses < MaxLosses
  /\ losses' = losses + 1
  /\ net' = Without1(net, d)
  /\ UNCHANGED <<connection, preSend, age, sent, analysed, repeated, registered, refused, acked>>

-----------------------------------------------------------------------------
Init ==
  /\ connection = [e \in Endpoint |-> NoConnection]
  /\ preSend = [e \in Endpoint |-> <<>>]
  /\ net = <<>>
  /\ age = 0
  /\ losses = 0
  /\ sent = {} /\ analysed = {} /\ repeated = {}
  /\ registered = {} /\ refused = {} /\ acked = {}

Handle(e) ==
  \/ UDPSendPacketThread(e)
  \/ \E d \in DOMAIN net : ReceiveData(e, d) \/ ReceiveAck(e, d)
  \/ Maintenance(e)

Next ==
  \/ \E e \in Endpoint : (\E m \in Msg : SendPacket(e, m)) \/ Handle(e)
  \/ Tick
  \/ \E d \in DOMAIN net : Lose(d)

Spec == Init /\ [][Next]_vars

\* Some thread of an endpoint that has something to do does it, the network
\* delivers what it does not lose, and when nothing is due time passes.
Progress == (\E e \in Endpoint : Handle(e)) \/ Tick

FairSpec == Spec /\ WF_vars(Progress)

-----------------------------------------------------------------------------
\* Connections, queues and the network hold what their types say.
TypeOK ==
  /\ \A e \in Endpoint : connection[e] # NoConnection =>
       LET c == connection[e]
       IN  /\ c.fragmentedID \in 0..(NONFRAGMENTED_PACKETS_IDOFFSET - 1)
           /\ c.unfragmentedID \in PacketID
           /\ c.window \in Window
           /\ Len(c.pending) <= MAX_PACKET_PENDING_LIST
           /\ \A i \in DOMAIN c.fragments : c.fragments[i] \in List
           /\ c.idle \in 0..PACKET_BACKLOG_TIMEOUT
  /\ \A d \in DOMAIN net : net[d] \in 0..MaxTransit

\* The program receives what a program sent: no message is put together from
\* pieces of two messages.
OnlySentMessages == analysed \subseteq {Payload(m) : m \in sent}

\* No message is given to the program twice, whatever the network duplicates
\* and whatever is retransmitted.
AtMostOnce == repeated = {}

\* A packet is deleted as a duplicate only if it was received before.
OnlyDuplicatesRefused == refused \subseteq registered

\* A safe packet that stops being retransmitted because of an acknowledgement
\* was received: the peer registered that very packet.
AckedWasRegistered == acked \subseteq registered

\* What an identifier is part of: the group of a fragmented message, or a
\* message of its own.
UseOf(id) ==
  IF id < NONFRAGMENTED_PACKETS_IDOFFSET THEN id \div MAX_FRAGMENTS_PER_PACKET ELSE id

\* The identifiers of e that something still stands for: a packet queued,
\* pending or in flight, an acknowledgement in flight, a slot of the peer's
\* ring, an incomplete message at the peer.
InUse(e) ==
  LET c    == GetConnection(e)
      peer == GetConnection(Other(e))
  IN  {UseOf(preSend[e][i].id) : i \in DOMAIN preSend[e]}
        \cup {UseOf(c.pending[i].packet.id) : i \in DOMAIN c.pending}
        \cup {UseOf(d.id) : d \in {x \in DOMAIN net :
                                   x.to = IF x.kind = "data" THEN Other(e) ELSE e}}
        \cup {UseOf(id) : id \in {x \in PacketID : AlreadyReceivedPacket(peer.window, x)}}
        \cup {peer.fragments[i].id : i \in DOMAIN peer.fragments}

\* What SendPacket gives m.
NewUse(m) ==
  LET c == GetConnection(MsgFrom[m])
  IN  UseOf(IF MsgPieces[m] > 1 THEN GetFragmentedPacketID(c.fragmentedID)
                                ELSE GetUnfragmentedPacketID(c.unfragmentedID))

\* SendPacket gives no message an identifier that something still stands for.
\* The counters start again with every new connection: a program must have been
\* silent until the peer has deleted its connection too.
NumbersAreFree ==
  [][\A m \in sent' \ sent : NewUse(m) \notin InUse(MsgFrom[m])]_vars

\* While a copy of a packet the peer registered is in flight, the peer's ring
\* remembers the identifier, although it wraps and goes with the connection.
NoLateCopy ==
  \A d \in DOMAIN net :
    d.kind = "data" /\ d.body \in registered =>
      AlreadyReceivedPacket(GetConnection(d.to).window, d.id)

\* Every safe message sent is given to the peer's program, as long as fewer
\* datagrams are lost than each of its packets is transmitted.
SafeMessagesArrive ==
  \A m \in Msg : MsgMaxAck[m] # 0 /\ m \in sent ~> Payload(m) \in analysed

\* When the programs have stopped sending, the connections go away: nothing
\* stays pending or incomplete for ever.
ConnectionsExpire == <>[](\A e \in Endpoint : connection[e] = NoConnection)
=============================================================================
