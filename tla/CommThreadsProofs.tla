--------------------------- MODULE CommThreadsProofs ---------------------------
(***************************************************************************)
(* For any number of handlers, senders and peers: whoever works under      *)
(* cConnectionLock works on a connection that exists, entries are null only*)
(* while a thread is about to fill them, and a connection gives a number   *)
(* again only after all others, although SendPacket takes another lock.    *)
(***************************************************************************)
EXTENDS CommThreads, TLAPS

(***************************************************************************)
(* The two counters go round.                                              *)
(***************************************************************************)
\* What NextID gives is in the cycle, right above the last number or, above the
\* highest, the lowest.
Follows(cycle, last, n) ==
  \/ last < n /\ \A m \in cycle : m <= last \/ n <= m
  \/ n < last /\ \A m \in cycle : m <= last /\ n <= m

LEMMA FragmentedGoRound ==
  /\ Cycle("fragmented") \subseteq PacketID
  /\ \A last \in {0} \cup Cycle("fragmented") :
       /\ NextID("fragmented", last) \in Cycle("fragmented")
       /\ last \in Cycle("fragmented") =>
            Follows(Cycle("fragmented"), last, NextID("fragmented", last))
<1> DEFINE b == MAX_FRAGMENTS_PER_PACKET
           top == NONFRAGMENTED_PACKETS_IDOFFSET
<1>1. b \in Nat \ {0} /\ top \in Nat /\ b < top /\ top < MAX_PACKETS_IDOFFSET
      /\ MAX_PACKETS_IDOFFSET \in Nat
  BY PacketIDsAssumption, CommThreadsAssumption
<1>2. \A n : n \in Cycle("fragmented") <=>
        \E i \in 0..top : n = i * b /\ i * b \in 0..(top - 1)
  BY DEF Cycle
<1>3. Cycle("fragmented") \subseteq PacketID
  BY <1>1, <1>2 DEF PacketID
<1>4. 0 \in Cycle("fragmented")
  BY <1>1, <1>2
<1> HIDE DEF b, top
<1>5. ASSUME NEW last \in Cycle("fragmented")
      PROVE  /\ NextID("fragmented", last) \in Cycle("fragmented")
             /\ Follows(Cycle("fragmented"), last, NextID("fragmented", last))
  <2>1. PICK i \in 0..top : last = i * b /\ i * b \in 0..(top - 1)
    BY <1>2
  <2>2. NextID("fragmented", last) = IF last + b >= top THEN 0 ELSE last + b
    BY DEF NextID, GetFragmentedPacketID, b, top
  <2>3. (i + 1) * b = last + b /\ last \in Int /\ last >= 0
    BY <1>1, <2>1
  <2>4. ASSUME NEW j \in 0..top, j > i PROVE j * b >= last + b
    <3>1. (j - (i + 1)) * b >= 0
      BY <1>1, <2>1, <2>4
    <3>2. (j - (i + 1)) * b = j * b - (i + 1) * b
      BY <1>1, <2>1
    <3>3. j * b \in Int
      BY <1>1
    <3> QED BY <1>1, <2>3, <3>1, <3>2, <3>3
  <2>5. ASSUME NEW j \in 0..top, j <= i PROVE j * b <= last
    <3>1. (i - j) * b >= 0
      BY <1>1, <2>1, <2>5
    <3>2. (i - j) * b = i * b - j * b /\ j * b \in Int
      BY <1>1, <2>1
    <3> QED BY <2>1, <2>3, <3>1, <3>2
  <2>6. CASE last + b >= top
    <3>1. \A m \in Cycle("fragmented") : m <= last /\ 0 <= m
      <4> SUFFICES ASSUME NEW m \in Cycle("fragmented") PROVE m <= last /\ 0 <= m
        OBVIOUS
      <4>1. PICK j \in 0..top : m = j * b /\ j * b \in 0..(top - 1)
        BY <1>2
      <4>2. j <= i
        BY <1>1, <2>1, <2>3, <2>4, <2>6, <4>1
      <4> QED BY <1>1, <2>5, <4>1, <4>2
    <3>2. 0 < last
      BY <1>1, <2>3, <2>6
    <3> QED BY <1>4, <2>2, <2>6, <3>1, <3>2 DEF Follows
  <2>7. CASE last + b < top
    <3>1. i + 1 \in 0..top
      <4>1. i * b >= i
        <5>1. i * (b - 1) >= 0 /\ i * (b - 1) = i * b - i
          BY <1>1, <2>1
        <5> QED BY <1>1, <2>1, <5>1
      <4> QED BY <1>1, <2>1, <2>3, <2>7, <4>1
    <3>2. last + b \in Cycle("fragmented")
      <4>1. (i + 1) * b \in 0..(top - 1)
        BY <1>1, <2>3, <2>7
      <4> QED BY <1>2, <2>3, <3>1, <4>1
    <3>3. \A m \in Cycle("fragmented") : m <= last \/ last + b <= m
      <4> SUFFICES ASSUME NEW m \in Cycle("fragmented") PROVE m <= last \/ last + b <= m
        OBVIOUS
      <4>1. PICK j \in 0..top : m = j * b /\ j * b \in 0..(top - 1)
        BY <1>2
      <4> QED BY <2>1, <2>4, <2>5, <4>1
    <3>4. ~ (last + b >= top) /\ last < last + b
      BY <1>1, <2>3, <2>7
    <3> QED BY <2>2, <3>2, <3>3, <3>4 DEF Follows
  <2> QED BY <1>1, <2>3, <2>6, <2>7
<1> QED BY <1>3, <1>4, <1>5

LEMMA UnfragmentedGoRound ==
  /\ Cycle("unfragmented") \subseteq PacketID
  /\ \A last \in {0} \cup Cycle("unfragmented") :
       /\ NextID("unfragmented", last) \in Cycle("unfragmented")
       /\ last \in Cycle("unfragmented") =>
            Follows(Cycle("unfragmented"), last, NextID("unfragmented", last))
BY PacketIDsAssumption, CommThreadsAssumption
DEF Cycle, NextID, GetUnfragmentedPacketID, Follows, PacketID

LEMMA CountersGo ==
  ASSUME NEW kind \in Kind
  PROVE  /\ Cycle(kind) \subseteq PacketID /\ Cycle(kind) \subseteq Int
         /\ \A last \in {0} \cup Cycle(kind) :
              /\ last \in PacketID /\ NextID(kind, last) \in Cycle(kind)
              /\ last \in Cycle(kind) => Follows(Cycle(kind), last, NextID(kind, last))
<1>1. PacketID \subseteq Int /\ 0 \in PacketID
  BY PacketIDsAssumption DEF PacketID
<1>2. kind = "fragmented" \/ kind = "unfragmented"
  BY DEF Kind
<1> QED BY <1>1, <1>2, FragmentedGoRound, UnfragmentedGoRound

\* The numbers from a to b, round the end of the cycle if need be.
Arc(cycle, a, b) ==
  {n \in cycle : IF a <= b THEN a <= n /\ n <= b ELSE a <= n \/ n <= b}

\* The numbers given are an arc that ends at the counter, and not all.
InTurn(given, last, kind) ==
  \/ given = {}
  \/ /\ last \in Cycle(kind) /\ NextID(kind, last) \notin given
     /\ \E a \in Cycle(kind) : given = Arc(Cycle(kind), a, last)

\* The next number makes the arc longer, or begins another.
LEMMA ArcGrows ==
  ASSUME NEW cycle, cycle \subseteq Int, NEW a \in cycle, NEW last \in cycle,
         NEW n \in cycle, Follows(cycle, last, n), n \notin Arc(cycle, a, last)
  PROVE  Arc(cycle, a, last) \cup {n} = Arc(cycle, a, n)
<1>1. a \in Int /\ last \in Int /\ n \in Int
  OBVIOUS
<1>2. ASSUME NEW m \in cycle
      PROVE  m \in Arc(cycle, a, last) \/ m = n <=> m \in Arc(cycle, a, n)
  <2>1. m \in Int /\ (m <= last \/ n <= m \/ n < last) /\ (n < last => m <= last /\ n <= m)
        /\ (last < n => m <= last \/ n <= m) /\ n # last
    BY <1>1 DEF Follows
  <2>2. IF a <= last THEN ~ (a <= n /\ n <= last) ELSE ~ (a <= n \/ n <= last)
    BY DEF Arc
  <2>3. n < last => a <= last
    BY <1>1 DEF Follows
  <2> QED BY <1>1, <2>1, <2>2, <2>3 DEF Arc
<1>3. Arc(cycle, a, last) \subseteq cycle /\ Arc(cycle, a, n) \subseteq cycle
  BY DEF Arc
<1> QED BY <1>2, <1>3

LEMMA ArcIsWhole ==
  ASSUME NEW cycle, cycle \subseteq Int, NEW a \in cycle, NEW last \in cycle,
         NEW n \in cycle, Follows(cycle, last, n), n \in Arc(cycle, a, last)
  PROVE  Arc(cycle, a, last) = cycle
<1>1. a \in Int /\ last \in Int /\ n \in Int
  OBVIOUS
<1>2. ASSUME NEW m \in cycle PROVE m \in Arc(cycle, a, last)
  <2>1. m \in Int /\ (n < last => m <= last /\ n <= m)
        /\ (last < n => m <= last \/ n <= m) /\ n # last
    BY <1>1 DEF Follows
  <2>2. IF a <= last THEN a <= n /\ n <= last ELSE a <= n \/ n <= last
    BY DEF Arc
  <2>3. n < last => a <= last
    BY <1>1 DEF Follows
  <2> QED BY <1>1, <2>1, <2>2, <2>3 DEF Arc
<1> QED BY <1>2 DEF Arc

\* What a post leaves is in turn, whether the counter was found as it was read or
\* begins.
LEMMA PostInTurn ==
  ASSUME NEW kind \in Kind, NEW given, NEW last \in {0} \cup Cycle(kind),
         InTurn(given, last, kind)
  PROVE  LET n == NextID(kind, last)
         IN  InTurn(AlsoGiven(given, n, Cycle(kind)), n, kind)
<1> DEFINE n == NextID(kind, last)
           m == NextID(kind, n)
           cycle == Cycle(kind)
<1>1. /\ cycle \subseteq Int /\ n \in cycle /\ m \in cycle /\ Follows(cycle, n, m)
      /\ last \in cycle => Follows(cycle, last, n)
  BY CountersGo
<1> HIDE DEF n, m, cycle
<1>2. m # n /\ n \in Int
  BY <1>1 DEF Follows
<1>3. {n} = Arc(cycle, n, n)
  <2>1. ASSUME NEW x \in cycle PROVE x = n <=> x \in Arc(cycle, n, n)
    BY <1>1, <1>2 DEF Arc
  <2> QED BY <1>1, <2>1 DEF Arc
<1>4. ASSUME NEW x, x = {n} PROVE InTurn(x, n, kind)
  BY <1>1, <1>2, <1>3, <1>4 DEF InTurn, cycle, m
<1>5. ASSUME given \cup {n} # cycle, NEW a \in cycle, given \cup {n} = Arc(cycle, a, n)
      PROVE  InTurn(given \cup {n}, n, kind)
  <2>1. m \notin given \cup {n}
    BY <1>1, <1>5, ArcIsWhole
  <2> QED BY <1>1, <1>5, <2>1 DEF InTurn, cycle, m
<1>6. CASE given = {}
  BY <1>4, <1>6 DEF AlsoGiven, n
<1>7. CASE given # {}
  <2>1. PICK a \in cycle : last \in cycle /\ n \notin given /\ given = Arc(cycle, a, last)
    BY <1>7 DEF InTurn, cycle, n
  <2>2. given \cup {n} = Arc(cycle, a, n)
    BY <1>1, <2>1, ArcGrows
  <2>3. CASE given \cup {n} = cycle
    BY <1>4, <2>3 DEF AlsoGiven, cycle, n
  <2>4. CASE given \cup {n} # cycle
    BY <1>5, <2>2, <2>4 DEF AlsoGiven, cycle, n
  <2> QED BY <2>3, <2>4
<1> QED BY <1>6, <1>7 DEF n

(***************************************************************************)
(* The inductive invariant.                                                *)
(***************************************************************************)
\* The types of all but the counters, and those of the counters.
PlainTypes ==
  /\ m_Connections \in [Peer -> Conn \cup {Null, Absent}]
  /\ live \subseteq Conn /\ old \subseteq live
  /\ cConnectionLock \in Handler \cup {Maintenance, Nobody}
  /\ m_SendLock \in [owner : Sender \cup {Nobody}, depth : Nat]
  /\ at \in [Thread -> {"idle", "called", "lookup", "create", "use", "post",
                        "scan", "erase", "join", "destroy", "ended"}]
  /\ peer \in [Thread -> Peer]
  /\ lpConnection \in [Thread -> Conn \cup {Null}]
  /\ expired \in Nat /\ sends \in Nat /\ position \in 0..Last
  /\ running \in BOOLEAN /\ crashed \in BOOLEAN

CounterTypes ==
  /\ counter \in [Conn -> [Kind -> PacketID]]
  /\ numbered \in [Conn -> [Kind -> SUBSET PacketID]]
  /\ nr \in [Sender -> [kind : Kind, last : PacketID]]

\* Which thread may be where.
Places ==
  /\ \A h \in Handler : at[h] \in {"idle", "called", "lookup", "create", "use", "ended"}
  /\ at[Maintenance] \in {"idle", "called", "scan", "use", "erase", "ended"}
  /\ \A s \in Sender : at[s] \in {"idle", "called", "lookup", "create", "use", "post",
                                  "join", "destroy", "ended"}

\* The two locks exclude; the destructor is alone in the end.
Exclusion ==
  /\ \A h \in Handler : at[h] \in {"lookup", "create", "use"} => cConnectionLock = h
  /\ at[Maintenance] \in {"scan", "use", "erase"} => cConnectionLock = Maintenance
  /\ \A s \in Sender : at[s] \in {"lookup", "create", "use", "post"} =>
       m_SendLock.owner = s /\ m_SendLock.depth > 0
  /\ at[UI] \in {"destroy", "ended"} => \A t \in Thread \ {UI} : at[t] = "ended"

\* The entry whose connection was just deleted.
Dangling(p) == at[Maintenance] = "erase" /\ p = position

\* Every other entry is a connection that exists, and one that no other entry
\* is; what the maintenance thread looks at is in no entry but its own.
MapIsSound ==
  /\ \A p \in Peer : m_Connections[p] \in Conn /\ ~ Dangling(p) => m_Connections[p] \in live
  /\ \A p, q \in Peer :
       p # q /\ m_Connections[p] \in Conn /\ ~ Dangling(p) /\ ~ Dangling(q) =>
         m_Connections[p] # m_Connections[q]
  /\ \A p \in Peer :
       /\ at[Maintenance] = "use" /\ lpConnection[Maintenance] \in Conn
       /\ p # position
       => m_Connections[p] # lpConnection[Maintenance]

UsesAreLive ==
  /\ \A h \in Handler : at[h] = "use" => lpConnection[h] \in live
  /\ at[Maintenance] = "use" => lpConnection[Maintenance] \in live \cup {Null}

\* The numbers of every object are given in turn, and a sender writes back a
\* counter that is as it found it, or has given nothing yet.
CountersGoRound ==
  /\ \A c \in Conn : \A kind \in Kind :
       /\ counter[c][kind] \in {0} \cup Cycle(kind)
       /\ InTurn(numbered[c][kind], counter[c][kind], kind)
  /\ \A s \in Sender : at[s] = "post" =>
       /\ nr[s].last \in {0} \cup Cycle(nr[s].kind)
       /\ lpConnection[s] \in live =>
            \/ nr[s].last = counter[lpConnection[s]][nr[s].kind]
            \/ numbered[lpConnection[s]][nr[s].kind] = {}

IInv ==
  /\ TypeOK /\ Places /\ Exclusion
  /\ MapIsSound /\ UsesAreLive /\ NullMeansCreating /\ CountersGoRound

-----------------------------------------------------------------------------
LEMMA TypesSplit == TypeOK <=> PlainTypes /\ CounterTypes
BY DEF TypeOK, PlainTypes, CounterTypes

LEMMA InitHolds == Init => IInv
<1> SUFFICES ASSUME Init PROVE IInv
  OBVIOUS
<1> USE CommThreadsAssumption
<1>1. TypeOK
  <2>1. CounterTypes
    BY PacketIDsAssumption
    DEF Init, CounterTypes, NoCount, NoNumbers, NotNumbering, Kind, PacketID
  <2>2. m_SendLock \in [owner : Sender \cup {Nobody}, depth : Nat]
    BY DEF Init
  <2>3. peer \in [Thread -> Peer] /\ position \in 0..Last
    BY DEF Init, Peer
  <2> QED BY <2>1, <2>2, <2>3, TypesSplit DEF Init, PlainTypes, Thread
<1>2. Places /\ Exclusion
  BY DEF Init, Places, Exclusion, Thread
<1>3. MapIsSound /\ UsesAreLive /\ NullMeansCreating
  BY DEF Init, MapIsSound, UsesAreLive, NullMeansCreating, Peer, Thread
<1>4. CountersGoRound
  <2>1. ASSUME NEW c \in Conn, NEW kind \in Kind
        PROVE  counter[c][kind] = 0 /\ numbered[c][kind] = {}
    BY DEF Init, NoCount, NoNumbers
  <2>2. \A s \in Sender : at[s] # "post"
    BY DEF Init, Thread
  <2> QED BY <2>1, <2>2 DEF CountersGoRound, InTurn
<1> QED BY <1>1, <1>2, <1>3, <1>4 DEF IInv

-----------------------------------------------------------------------------
(* Types.                                                                  *)

LEMMA PlainTypesStep == PlainTypes /\ Exclusion /\ [Next]_vars => PlainTypes'
<1> SUFFICES ASSUME PlainTypes, Exclusion, [Next]_vars PROVE PlainTypes'
  OBVIOUS
<1> USE CommThreadsAssumption DEF PlainTypes, Thread, objects, locks
<1>1. ASSUME NEW t \in Handler \cup Sender, GetConnection(t) PROVE PlainTypes'
  BY <1>1 DEF GetConnection, LookUp, Create, Step
<1>2. ASSUME NEW h \in Handler, Handle(h) PROVE PlainTypes'
  BY <1>2 DEF Handle, Step
<1>3. ASSUME NEW h \in Handler, Finish(h) PROVE PlainTypes'
  BY <1>3 DEF Finish, Return, Step, Peer
<1>4. ASSUME NEW s \in Sender, Call(s) PROVE PlainTypes'
  BY <1>4 DEF Call, Step
<1>5. ASSUME NEW s \in Sender, Send(s) PROVE PlainTypes'
  BY <1>5 DEF Send, Step
<1>6. ASSUME NEW s \in Sender, TooBig(s) PROVE PlainTypes'
  BY <1>6 DEF TooBig, Return, Step, Peer
<1>7. ASSUME NEW s \in Sender, Number(s) PROVE PlainTypes'
  BY <1>7 DEF Number, Step
<1>8. ASSUME NEW s \in Sender, Post(s) PROVE PlainTypes'
  <2>1. m_SendLock' \in [owner : Sender \cup {Nobody}, depth : Nat]
    BY <1>8 DEF Post, Return, Step, Unlocked, Exclusion
  <2>2. /\ at' = [at EXCEPT ![s] = "idle"] /\ peer' = [peer EXCEPT ![s] = 1]
        /\ lpConnection' = [lpConnection EXCEPT ![s] = Null]
        /\ UNCHANGED <<m_Connections, live, old, expired, cConnectionLock, sends,
                       position, running, crashed>>
    BY <1>8 DEF Post, Return, Step
  <2> QED BY <2>1, <2>2 DEF Peer
<1>9. CASE Wake
  BY <1>9 DEF Wake, Step
<1>10. CASE Maintaining
  <2>1. CASE Visit
    BY <2>1 DEF Visit, Step, Ahead, Peer
  <2>2. CASE Crash \/ Keep
    BY <2>2 DEF Crash, Keep, Step
  <2>3. CASE Delete
    BY <2>3 DEF Delete, Step
  <2>4. CASE Erase
    BY <2>4 DEF Erase, Step
  <2>5. CASE Rest
    BY <2>5 DEF Rest, Return, Step, Peer
  <2> QED BY <1>10, <2>1, <2>2, <2>3, <2>4, <2>5 DEF Maintaining
<1>11. CASE ClearFlags \/ Destroying
  BY <1>11 DEF ClearFlags, Destroying, Join, DeleteConnections, Step
<1>12. ASSUME NEW t \in Thread, Begin(t) \/ End(t) PROVE PlainTypes'
  BY <1>12 DEF Begin, End, Step
<1>13. ASSUME NEW c \in Conn, Expire(c) PROVE PlainTypes'
  BY <1>13 DEF Expire
<1>14. CASE UNCHANGED vars
  BY <1>14 DEF vars
<1> QED
  BY <1>1, <1>2, <1>3, <1>4, <1>5, <1>6, <1>7, <1>8, <1>9, <1>10, <1>11, <1>12,
     <1>13, <1>14 DEF Next, Handling, Sending

-----------------------------------------------------------------------------
(* Each part of the invariant is kept.                                     *)

\* A thread only goes to the places it has.
LEMMA PlacesStep ==
  PlainTypes /\ Places /\ [Next]_vars => Places'
<1> SUFFICES ASSUME PlainTypes, Places, [Next]_vars PROVE Places'
  OBVIOUS
<1> USE CommThreadsAssumption
    DEF PlainTypes, Places, Thread, objects, locks
<1>1. ASSUME NEW t \in Handler \cup Sender, GetConnection(t) PROVE Places'
  BY <1>1 DEF GetConnection, LookUp, Create, Step
<1>2. ASSUME NEW h \in Handler, Handle(h) \/ Finish(h) PROVE Places'
  BY <1>2 DEF Handle, Finish, Return, Step
<1>3. ASSUME NEW s \in Sender, Call(s) \/ Send(s) PROVE Places'
  BY <1>3 DEF Call, Send, Step
<1>4. ASSUME NEW s \in Sender, TooBig(s) \/ Number(s) \/ Post(s) PROVE Places'
  BY <1>4 DEF TooBig, Number, Post, Return, Step
<1>5. CASE Wake
  BY <1>5 DEF Wake, Step
<1>6. CASE Maintaining
  BY <1>6 DEF Maintaining, Visit, Crash, Keep, Delete, Erase, Rest, Return, Step
<1>7. CASE ClearFlags \/ Destroying
  BY <1>7 DEF ClearFlags, Destroying, Join, DeleteConnections, Step
<1>8. ASSUME NEW t \in Thread, Begin(t) \/ End(t) PROVE Places'
  BY <1>8 DEF Begin, End, Step
<1>9. CASE (\E c \in Conn : Expire(c)) \/ UNCHANGED vars
  BY <1>9 DEF Expire, vars
<1> QED
  BY <1>1, <1>2, <1>3, <1>4, <1>5, <1>6, <1>7, <1>8, <1>9 DEF Next, Handling, Sending

\* Locks are taken when they are free, and given back by their owner.
LEMMA ExclusionStep ==
  PlainTypes /\ Places /\ Exclusion /\ [Next]_vars => Exclusion'
<1> SUFFICES ASSUME PlainTypes, Places, Exclusion, [Next]_vars PROVE Exclusion'
  OBVIOUS
<1> USE CommThreadsAssumption
    DEF PlainTypes, Places, Exclusion, Thread, objects, locks
<1>1. ASSUME NEW t \in Handler \cup Sender, GetConnection(t) PROVE Exclusion'
  BY <1>1 DEF GetConnection, LookUp, Create, Step
<1>2. ASSUME NEW h \in Handler, Handle(h) \/ Finish(h) PROVE Exclusion'
  BY <1>2 DEF Handle, Finish, Return, Step
<1>3. ASSUME NEW s \in Sender, Call(s) \/ Send(s) PROVE Exclusion'
  BY <1>3 DEF Call, Send, Step
<1>4. ASSUME NEW s \in Sender, TooBig(s) \/ Number(s) \/ Post(s) PROVE Exclusion'
  BY <1>4 DEF TooBig, Number, Post, Return, Step, Unlocked
<1>5. CASE Wake
  BY <1>5 DEF Wake, Step
<1>6. CASE Maintaining
  BY <1>6 DEF Maintaining, Visit, Crash, Keep, Delete, Erase, Rest, Return, Step
<1>7. CASE ClearFlags \/ Destroying
  BY <1>7 DEF ClearFlags, Destroying, Join, DeleteConnections, Step
<1>8. ASSUME NEW t \in Thread, Begin(t) \/ End(t) PROVE Exclusion'
  BY <1>8 DEF Begin, End, Step
<1>9. CASE (\E c \in Conn : Expire(c)) \/ UNCHANGED vars
  BY <1>9 DEF Expire, vars
<1> QED
  BY <1>1, <1>2, <1>3, <1>4, <1>5, <1>6, <1>7, <1>8, <1>9 DEF Next, Handling, Sending

\* A new connection is in no other entry; one is deleted under its own entry.
LEMMA MapStep ==
  PlainTypes /\ Places /\ Exclusion /\ MapIsSound /\ UsesAreLive /\ [Next]_vars => MapIsSound'
<1> SUFFICES ASSUME PlainTypes, Places, Exclusion, MapIsSound, UsesAreLive, [Next]_vars PROVE MapIsSound'
  OBVIOUS
<1> USE CommThreadsAssumption
    DEF PlainTypes, Places, Exclusion, MapIsSound, UsesAreLive, Dangling, Thread, objects, locks
<1>1. ASSUME NEW t \in Handler \cup Sender, GetConnection(t) PROVE MapIsSound'
  BY <1>1 DEF GetConnection, LookUp, Create, Step
<1>2. ASSUME NEW h \in Handler, Handle(h) \/ Finish(h) PROVE MapIsSound'
  BY <1>2 DEF Handle, Finish, Return, Step
<1>3. ASSUME NEW s \in Sender, Call(s) \/ Send(s) PROVE MapIsSound'
  BY <1>3 DEF Call, Send, Step
<1>4. ASSUME NEW s \in Sender, TooBig(s) \/ Number(s) \/ Post(s) PROVE MapIsSound'
  BY <1>4 DEF TooBig, Number, Post, Return, Step
<1>5. CASE Wake
  BY <1>5 DEF Wake, Step
<1>6. CASE Maintaining
  BY <1>6 DEF Maintaining, Visit, Crash, Keep, Delete, Erase, Rest, Return, Step, Ahead
<1>7. CASE ClearFlags \/ Destroying
  BY <1>7 DEF ClearFlags, Destroying, Join, DeleteConnections, Step
<1>8. ASSUME NEW t \in Thread, Begin(t) \/ End(t) PROVE MapIsSound'
  BY <1>8 DEF Begin, End, Step
<1>9. CASE (\E c \in Conn : Expire(c)) \/ UNCHANGED vars
  BY <1>9 DEF Expire, vars
<1> QED
  BY <1>1, <1>2, <1>3, <1>4, <1>5, <1>6, <1>7, <1>8, <1>9 DEF Next, Handling, Sending

\* Only the maintenance thread deletes, and nobody else has its lock then.
LEMMA UsesStep ==
  PlainTypes /\ Places /\ Exclusion /\ MapIsSound /\ UsesAreLive /\ [Next]_vars => UsesAreLive'
<1> SUFFICES ASSUME PlainTypes, Places, Exclusion, MapIsSound, UsesAreLive, [Next]_vars PROVE UsesAreLive'
  OBVIOUS
<1> USE CommThreadsAssumption
    DEF PlainTypes, Places, Exclusion, MapIsSound, UsesAreLive, Dangling, Thread, objects, locks
<1>1. ASSUME NEW t \in Handler \cup Sender, GetConnection(t) PROVE UsesAreLive'
  BY <1>1 DEF GetConnection, LookUp, Create, Step
<1>2. ASSUME NEW h \in Handler, Handle(h) \/ Finish(h) PROVE UsesAreLive'
  BY <1>2 DEF Handle, Finish, Return, Step
<1>3. ASSUME NEW s \in Sender, Call(s) \/ Send(s) PROVE UsesAreLive'
  BY <1>3 DEF Call, Send, Step
<1>4. ASSUME NEW s \in Sender, TooBig(s) \/ Number(s) \/ Post(s) PROVE UsesAreLive'
  BY <1>4 DEF TooBig, Number, Post, Return, Step
<1>5. CASE Wake
  BY <1>5 DEF Wake, Step
<1>6. CASE Maintaining
  BY <1>6 DEF Maintaining, Visit, Crash, Keep, Delete, Erase, Rest, Return, Step, Ahead
<1>7. CASE ClearFlags \/ Destroying
  BY <1>7 DEF ClearFlags, Destroying, Join, DeleteConnections, Step
<1>8. ASSUME NEW t \in Thread, Begin(t) \/ End(t) PROVE UsesAreLive'
  BY <1>8 DEF Begin, End, Step
<1>9. CASE (\E c \in Conn : Expire(c)) \/ UNCHANGED vars
  BY <1>9 DEF Expire, vars
<1> QED
  BY <1>1, <1>2, <1>3, <1>4, <1>5, <1>6, <1>7, <1>8, <1>9 DEF Next, Handling, Sending

\* Who made an entry null goes on to fill it.
LEMMA NullStep ==
  PlainTypes /\ Places /\ Exclusion /\ NullMeansCreating /\ [Next]_vars => NullMeansCreating'
<1> SUFFICES ASSUME PlainTypes, Places, Exclusion, NullMeansCreating, [Next]_vars PROVE NullMeansCreating'
  OBVIOUS
<1> USE CommThreadsAssumption
    DEF PlainTypes, Places, Exclusion, NullMeansCreating, Thread, objects, locks
<1>1. ASSUME NEW t \in Handler \cup Sender, GetConnection(t) PROVE NullMeansCreating'
  BY <1>1 DEF GetConnection, LookUp, Create, Step
<1>2. ASSUME NEW h \in Handler, Handle(h) \/ Finish(h) PROVE NullMeansCreating'
  BY <1>2 DEF Handle, Finish, Return, Step
<1>3. ASSUME NEW s \in Sender, Call(s) \/ Send(s) PROVE NullMeansCreating'
  BY <1>3 DEF Call, Send, Step
<1>4. ASSUME NEW s \in Sender, TooBig(s) \/ Number(s) \/ Post(s) PROVE NullMeansCreating'
  BY <1>4 DEF TooBig, Number, Post, Return, Step
<1>5. CASE Wake
  BY <1>5 DEF Wake, Step
<1>6. CASE Maintaining
  BY <1>6 DEF Maintaining, Visit, Crash, Keep, Delete, Erase, Rest, Return, Step
<1>7. CASE ClearFlags \/ Destroying
  BY <1>7 DEF ClearFlags, Destroying, Join, DeleteConnections, Step
<1>8. ASSUME NEW t \in Thread, Begin(t) \/ End(t) PROVE NullMeansCreating'
  BY <1>8 DEF Begin, End, Step
<1>9. CASE (\E c \in Conn : Expire(c)) \/ UNCHANGED vars
  BY <1>9 DEF Expire, vars
<1> QED
  BY <1>1, <1>2, <1>3, <1>4, <1>5, <1>6, <1>7, <1>8, <1>9 DEF Next, Handling, Sending

\* A step that leaves the counters alone, and who is about to write one.
LeavesCounters ==
  /\ UNCHANGED <<counter, numbered, nr>>
  /\ \A s \in Sender : at'[s] = "post" =>
       /\ at[s] = "post" /\ lpConnection'[s] = lpConnection[s]
       /\ lpConnection[s] \in live' => lpConnection[s] \in live

LEMMA LeavingKeeps ==
  CounterTypes /\ CountersGoRound /\ LeavesCounters => CounterTypes' /\ CountersGoRound'
BY DEF CounterTypes, CountersGoRound, LeavesCounters

\* The numbers of a new or deleted object begin again.
LEMMA FreshKeeps ==
  ASSUME CounterTypes, CountersGoRound, live \subseteq Conn,
         NEW c \in Conn, Fresh(c), nr' = nr,
         live' \subseteq live \cup {c},
         \A s \in Sender : at'[s] = "post" =>
           at[s] = "post" /\ lpConnection'[s] = lpConnection[s]
  PROVE  CounterTypes' /\ CountersGoRound'
<1>1. NoCount \in [Kind -> PacketID] /\ NoNumbers \in [Kind -> SUBSET PacketID]
  BY PacketIDsAssumption DEF NoCount, NoNumbers, PacketID
<1>2. CounterTypes'
  BY <1>1 DEF CounterTypes, Fresh
<1>3. ASSUME NEW d \in Conn, NEW kind \in Kind
      PROVE  IF d = c THEN counter'[d][kind] = 0 /\ numbered'[d][kind] = {}
             ELSE counter'[d][kind] = counter[d][kind] /\ numbered'[d][kind] = numbered[d][kind]
  BY DEF Fresh, CounterTypes, NoCount, NoNumbers
<1>4. ASSUME NEW d \in Conn, NEW kind \in Kind
      PROVE  /\ counter'[d][kind] \in {0} \cup Cycle(kind)
             /\ InTurn(numbered'[d][kind], counter'[d][kind], kind)
  BY <1>3 DEF CountersGoRound, InTurn
<1>5. ASSUME NEW s \in Sender, at'[s] = "post"
      PROVE  /\ nr'[s].last \in {0} \cup Cycle(nr'[s].kind)
             /\ lpConnection'[s] \in live' =>
                  \/ nr'[s].last = counter'[lpConnection'[s]][nr'[s].kind]
                  \/ numbered'[lpConnection'[s]][nr'[s].kind] = {}
  <2>1. at[s] = "post" /\ lpConnection'[s] = lpConnection[s] /\ nr' = nr /\ nr[s].kind \in Kind
    BY <1>5 DEF CounterTypes
  <2>2. CASE lpConnection[s] = c
    BY <1>3, <2>1, <2>2 DEF CountersGoRound
  <2>3. CASE lpConnection[s] # c
    <3>1. nr[s].last \in {0} \cup Cycle(nr[s].kind)
      BY <2>1 DEF CountersGoRound
    <3>2. ASSUME lpConnection[s] \in live'
          PROVE  \/ nr[s].last = counter'[lpConnection[s]][nr[s].kind]
                 \/ numbered'[lpConnection[s]][nr[s].kind] = {}
      <4>1. lpConnection[s] \in live /\ lpConnection[s] \in Conn
        BY <2>3, <3>2
      <4>2. \/ nr[s].last = counter[lpConnection[s]][nr[s].kind]
            \/ numbered[lpConnection[s]][nr[s].kind] = {}
        BY <2>1, <4>1 DEF CountersGoRound
      <4> QED BY <1>3, <2>1, <2>3, <4>1, <4>2
    <3> QED BY <2>1, <3>1, <3>2
  <2> QED BY <2>2, <2>3
<1> QED BY <1>2, <1>4, <1>5 DEF CountersGoRound

\* A sender reads the counter of the object it has, or what is left of one.
LEMMA NumberKeeps ==
  ASSUME PlainTypes, CounterTypes, Places, CountersGoRound, NEW s \in Sender, Number(s)
  PROVE  CounterTypes' /\ CountersGoRound'
<1> USE CommThreadsAssumption
<1>1. PICK kind \in Kind :
        \E last \in IF lpConnection[s] \in live THEN {counter[lpConnection[s]][kind]}
                                                ELSE {0} \cup Cycle(kind) :
          nr' = [nr EXCEPT ![s] = [kind |-> kind, last |-> last]]
  BY DEF Number
<1>2. PICK last \in IF lpConnection[s] \in live THEN {counter[lpConnection[s]][kind]}
                                                ELSE {0} \cup Cycle(kind) :
          nr' = [nr EXCEPT ![s] = [kind |-> kind, last |-> last]]
  BY <1>1
<1>3. /\ last \in {0} \cup Cycle(kind)
      /\ lpConnection[s] \in live => last = counter[lpConnection[s]][kind]
  BY <1>2 DEF PlainTypes, CountersGoRound
<1>4. last \in PacketID
  BY <1>3, CountersGo
<1>5. /\ UNCHANGED <<counter, numbered, live, lpConnection>>
      /\ \A t \in Sender : t # s => at'[t] = at[t] /\ nr'[t] = nr[t]
      /\ nr'[s].kind = kind /\ nr'[s].last = last
  BY <1>2 DEF Number, Step, objects, locks, PlainTypes, CounterTypes, Thread
<1>6. CounterTypes'
  BY <1>2, <1>4, <1>5 DEF CounterTypes
<1>7. ASSUME NEW t \in Sender, at'[t] = "post"
      PROVE  /\ nr'[t].last \in {0} \cup Cycle(nr'[t].kind)
             /\ lpConnection'[t] \in live' =>
                  \/ nr'[t].last = counter'[lpConnection'[t]][nr'[t].kind]
                  \/ numbered'[lpConnection'[t]][nr'[t].kind] = {}
  BY <1>3, <1>5, <1>7 DEF CountersGoRound
<1> QED BY <1>5, <1>6, <1>7 DEF CountersGoRound

\* It writes back the number after that, and nobody else is about to write.
LEMMA PostKeeps ==
  ASSUME PlainTypes, CounterTypes, Places, Exclusion, CountersGoRound,
         NEW s \in Sender, Post(s)
  PROVE  CounterTypes' /\ CountersGoRound'
<1> USE CommThreadsAssumption
<1> DEFINE c == lpConnection[s]
           kind == nr[s].kind
           n == NextID(kind, nr[s].last)
           given == AlsoGiven(numbered[c][kind], n, Cycle(kind))
<1>1. kind \in Kind /\ nr[s].last \in {0} \cup Cycle(kind) /\ at[s] = "post"
  BY DEF CounterTypes, CountersGoRound, Post, Return, Step
<1>2. /\ nr' = [nr EXCEPT ![s] = NotNumbering] /\ live' = live
      /\ IF c \in live
         THEN /\ counter' = [counter EXCEPT ![c] = [@ EXCEPT ![kind] = n]]
              /\ numbered' = [numbered EXCEPT ![c] = [@ EXCEPT ![kind] = given]]
         ELSE UNCHANGED <<counter, numbered>>
  BY DEF Post
<1>3. \A t \in Sender : at'[t] # "post"
  BY <1>1 DEF Post, Return, Step, Exclusion, PlainTypes, Thread
<1>4. n \in Cycle(kind) /\ Cycle(kind) \subseteq PacketID /\ 0 \in PacketID
  BY <1>1, CountersGo
<1> HIDE DEF n, kind
<1>5. NotNumbering \in [kind : Kind, last : PacketID]
  BY <1>4 DEF NotNumbering, Kind
<1>6. CASE c \notin live
  BY <1>2, <1>3, <1>5, <1>6 DEF CounterTypes, CountersGoRound
<1>7. CASE c \in live
  <2>1. c \in Conn
    BY <1>7 DEF PlainTypes
  <2>2. InTurn(numbered[c][kind], nr[s].last, kind)
    BY <1>1, <1>7, <2>1 DEF CountersGoRound, InTurn, kind
  <2>3. InTurn(given, n, kind)
    BY <1>1, <2>2, PostInTurn DEF n
  <2>4. given \subseteq PacketID
    BY <1>1, <1>4, <2>1 DEF AlsoGiven, CounterTypes
  <2> HIDE DEF given
  <2>5. ASSUME NEW d \in Conn, NEW k \in Kind
        PROVE  IF d = c /\ k = kind THEN counter'[d][k] = n /\ numbered'[d][k] = given
               ELSE counter'[d][k] = counter[d][k] /\ numbered'[d][k] = numbered[d][k]
    BY <1>1, <1>2, <1>7 DEF CounterTypes
  <2>6. CounterTypes'
    <3>1. counter' \in [Conn -> [Kind -> PacketID]]
      <4>1. n \in PacketID /\ counter[c] \in [Kind -> PacketID]
        BY <1>4, <2>1 DEF CounterTypes
      <4>2. [counter[c] EXCEPT ![kind] = n] \in [Kind -> PacketID]
        BY <4>1
      <4> QED BY <1>2, <1>7, <4>2 DEF CounterTypes
    <3>2. numbered' \in [Conn -> [Kind -> SUBSET PacketID]]
      <4>1. numbered[c] \in [Kind -> SUBSET PacketID]
        BY <2>1 DEF CounterTypes
      <4>2. [numbered[c] EXCEPT ![kind] = given] \in [Kind -> SUBSET PacketID]
        BY <2>4, <4>1
      <4> QED BY <1>2, <1>7, <4>2 DEF CounterTypes
    <3>3. nr' \in [Sender -> [kind : Kind, last : PacketID]]
      BY <1>2, <1>5 DEF CounterTypes
    <3> QED BY <3>1, <3>2, <3>3 DEF CounterTypes
  <2>7. ASSUME NEW d \in Conn, NEW k \in Kind
        PROVE  counter'[d][k] \in {0} \cup Cycle(k) /\ InTurn(numbered'[d][k], counter'[d][k], k)
    BY <1>4, <2>3, <2>5 DEF CountersGoRound
  <2> QED BY <1>3, <2>6, <2>7 DEF CountersGoRound
<1> QED BY <1>6, <1>7

\* Only the owner of m_SendLock is between reading and writing a counter.
LEMMA CountersStep ==
  PlainTypes /\ CounterTypes /\ Places /\ Exclusion /\ CountersGoRound /\ [Next]_vars
    => CounterTypes' /\ CountersGoRound'
<1> SUFFICES ASSUME PlainTypes, CounterTypes, Places, Exclusion, CountersGoRound,
                    [Next]_vars
             PROVE  CounterTypes' /\ CountersGoRound'
  OBVIOUS
<1> USE CommThreadsAssumption DEF Thread, objects, locks
<1>1. ASSUME NEW t \in Handler \cup Sender, LookUp(t) PROVE LeavesCounters
  BY <1>1 DEF LookUp, Step, LeavesCounters, PlainTypes
<1>2. ASSUME NEW t \in Handler \cup Sender, Create(t) PROVE CounterTypes' /\ CountersGoRound'
  <2>1. PICK c \in Conn \ live : live' = live \cup {c} /\ Fresh(c)
          /\ lpConnection' = [lpConnection EXCEPT ![t] = c]
    BY <1>2 DEF Create
  <2>2. nr' = nr /\ at[t] = "create" /\ at' = [at EXCEPT ![t] = "use"]
    BY <1>2 DEF Create, Step
  <2>3. \A s \in Sender : at'[s] = "post" =>
          at[s] = "post" /\ lpConnection'[s] = lpConnection[s]
    BY <2>1, <2>2 DEF PlainTypes
  <2> QED BY <2>1, <2>2, <2>3, FreshKeeps DEF PlainTypes
<1>3. ASSUME NEW h \in Handler, Handle(h) \/ Finish(h) PROVE LeavesCounters
  BY <1>3 DEF Handle, Finish, Return, Step, LeavesCounters, PlainTypes
<1>4. ASSUME NEW s \in Sender, Call(s) \/ Send(s) \/ TooBig(s) PROVE LeavesCounters
  BY <1>4 DEF Call, Send, TooBig, Return, Step, LeavesCounters, PlainTypes
<1>5. ASSUME Wake PROVE LeavesCounters
  <2>1. UNCHANGED <<counter, numbered, nr, live, lpConnection>>
    BY <1>5 DEF Wake
  <2>2. \A s \in Sender : at'[s] = at[s]
    BY <1>5 DEF Wake, Step, PlainTypes
  <2> QED BY <2>1, <2>2 DEF LeavesCounters
<1>6. ASSUME Visit \/ Crash \/ Keep \/ Erase \/ Rest PROVE LeavesCounters
  <2>1. UNCHANGED <<counter, numbered, nr, live>>
    BY <1>6 DEF Visit, Crash, Keep, Erase, Rest
  <2>2. \A s \in Sender : at'[s] = at[s]
    BY <1>6 DEF Visit, Crash, Keep, Erase, Rest, Return, Step, PlainTypes
  <2>3. \A s \in Sender : lpConnection'[s] = lpConnection[s]
    BY <1>6 DEF Visit, Crash, Keep, Erase, Rest, Return, PlainTypes
  <2> QED BY <2>1, <2>2, <2>3 DEF LeavesCounters
<1>7. CASE Delete
  <2>1. lpConnection[Maintenance] \in Conn /\ Fresh(lpConnection[Maintenance])
        /\ live' \subseteq live /\ nr' = nr /\ lpConnection' = lpConnection
    BY <1>7 DEF Delete, PlainTypes
  <2>2. \A s \in Sender : at'[s] = at[s]
    BY <1>7 DEF Delete, Step, PlainTypes
  <2> QED BY <2>1, <2>2, FreshKeeps DEF PlainTypes
<1>8. ASSUME ClearFlags \/ Join \/ DeleteConnections PROVE LeavesCounters
  <2>1. UNCHANGED <<counter, numbered, nr, lpConnection>> /\ live' \subseteq live
    BY <1>8 DEF ClearFlags, Join, DeleteConnections
  <2>2. \A s \in Sender : at'[s] = "post" => at[s] = "post"
    BY <1>8 DEF ClearFlags, Join, DeleteConnections, Step, PlainTypes
  <2> QED BY <2>1, <2>2 DEF LeavesCounters
<1>9. ASSUME NEW t \in Thread, Begin(t) \/ End(t) PROVE LeavesCounters
  BY <1>9 DEF Begin, End, Step, LeavesCounters, PlainTypes
<1>10. ASSUME NEW c \in Conn, Expire(c) PROVE LeavesCounters
  BY <1>10 DEF Expire, LeavesCounters
<1>11. ASSUME UNCHANGED vars PROVE LeavesCounters
  BY <1>11 DEF vars, LeavesCounters
<1>12. LeavesCounters => CounterTypes' /\ CountersGoRound'
  BY LeavingKeeps
<1> HIDE DEF LeavesCounters
<1> QED
  BY <1>1, <1>2, <1>3, <1>4, <1>5, <1>6, <1>7, <1>8, <1>9, <1>10, <1>11, <1>12,
     NumberKeeps, PostKeeps
  DEF Next, Handling, GetConnection, Sending, Maintaining, Destroying

LEMMA StepHolds == IInv /\ [Next]_vars => IInv'
<1>1. TypeOK' <=> PlainTypes' /\ CounterTypes'
  BY DEF TypeOK, PlainTypes, CounterTypes
<1> QED
  BY <1>1, TypesSplit, PlainTypesStep, PlacesStep, ExclusionStep, MapStep, UsesStep,
     NullStep, CountersStep
  DEF IInv

LEMMA InvariantHolds == Spec => []IInv
BY InitHolds, StepHolds, PTL DEF Spec

-----------------------------------------------------------------------------
(* The theorems.                                                           *)

\* The variables keep their types, objects included.
THEOREM TypeCorrect == Spec => []TypeOK
<1>1. IInv => TypeOK
  BY DEF IInv
<1> QED BY <1>1, InvariantHolds, PTL

\* Under cConnectionLock only connections that exist are used, and what the
\* destructor deletes exists and is deleted once.
THEOREM LockProtects == Spec => []LockedUseIsLive
<1>1. IInv => LockedUseIsLive
  <2> SUFFICES ASSUME IInv PROVE LockedUseIsLive
    OBVIOUS
  <2> USE CommThreadsAssumption DEF IInv, TypeOK, Thread
  <2>1. ASSUME at[UI] = "destroy", NEW p \in Peer
        PROVE  m_Connections[p] # Null /\ ~ Dangling(p)
    \* Every other thread has ended, so that nobody is creating or erasing.
    BY <2>1 DEF Exclusion, NullMeansCreating, Dangling
  <2>2. ASSUME at[UI] = "destroy", NEW p \in Peer, NEW q \in Peer
        PROVE  /\ m_Connections[p] \in live \cup {Absent}
               /\ m_Connections[p] = m_Connections[q] /\ p # q => m_Connections[p] = Absent
    BY <2>1, <2>2 DEF MapIsSound
  <2> QED BY <2>2 DEF UsesAreLive, LockedUseIsLive
<1> QED BY <1>1, InvariantHolds, PTL

\* An entry is null only while its creator is at work.
THEOREM NullIsBrief == Spec => []NullMeansCreating
<1>1. IInv => NullMeansCreating
  BY DEF IInv
<1> QED BY <1>1, InvariantHolds, PTL

\* No connection gives a number again before it has given all others of its kind,
\* whatever the maintenance thread does.
THEOREM NumbersStayDifferent == Spec => []NumbersDiffer
<1>1. IInv => NumbersDiffer
  <2> SUFFICES ASSUME IInv, NEW s \in Sender, at[s] = "post", lpConnection[s] \in live
               PROVE  NextID(nr[s].kind, nr[s].last) \notin numbered[lpConnection[s]][nr[s].kind]
    BY DEF NumbersDiffer
  <2>1. lpConnection[s] \in Conn /\ nr[s].kind \in Kind
    BY DEF IInv, TypeOK
  <2> DEFINE given == numbered[lpConnection[s]][nr[s].kind]
  <2>2. given = {} \/ InTurn(given, nr[s].last, nr[s].kind)
    BY <2>1 DEF IInv, CountersGoRound
  <2> QED BY <2>2 DEF InTurn
<1> QED BY <1>1, InvariantHolds, PTL
=============================================================================
