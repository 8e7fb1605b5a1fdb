------------------------------ MODULE CommThreads ------------------------------
(***************************************************************************)
(* The locking of CCommCenter: the threads that meet in m_Connections.     *)
(*                                                                         *)
(*  - a handler (UDPSendPacketThread, and UDPReceivePacketThread in        *)
(*    AnalyzeUPPData) looks a connection up and works on it with           *)
(*    cConnectionLock locked;                                              *)
(*  - UDPMaintenancePacket walks over all connections with that lock and   *)
(*    deletes the idle ones;                                               *)
(*  - a sender calls SendPacket, which looks the connection up and numbers *)
(*    the packet with m_SendLock locked, and not cConnectionLock;          *)
(*  - the thread UI, one of the senders, runs ~CCommCenter in the end; the *)
(*    others send from the callback that UDPAnalyseThread calls.           *)
(*                                                                         *)
(* Between two steps here another thread may run: wherever a sender and    *)
(* somebody who has the other lock could interfere.  Single accesses to the*)
(* map count as atomic.  An object that was deleted may be allocated again *)
(* under the same address.  m_ReSendLock, m_SendAckLock and                *)
(* cMaintenanceLock have one user each and m_pendingLock is only taken     *)
(* under cConnectionLock: nobody ever waits for them.                      *)
(***************************************************************************)
EXTENDS PacketIDs, FiniteSets

CONSTANTS
  Handler,     \* threads that lock cConnectionLock to handle a packet
  Maintenance, \* UDPMaintenancePacket
  Sender,      \* threads that call SendPacket
  UI,          \* the sender that destroys the CCommCenter
  Nobody,      \* a lock that is free
  Last,        \* peers are 1..Last, in the order of the map
  Conn,        \* addresses of CNMConnection objects
  Null,        \* the pointer
  Absent,      \* no entry in m_Connections
  MaxSends,    \* bound: calls of SendPacket
  MaxExpired   \* bound: connections that get old

Thread == Handler \cup Sender \cup {Maintenance}
Peer == 1..Last

\* A connection counts its fragmented messages and the others apart.
Kind == {"fragmented", "unfragmented"}

NextID(kind, last) ==
  IF kind = "fragmented" THEN GetFragmentedPacketID(last)
                         ELSE GetUnfragmentedPacketID(last)

\* What a counter goes through, again and again.
Cycle(kind) ==
  IF kind = "fragmented"
  THEN {i * MAX_FRAGMENTS_PER_PACKET : i \in 0..NONFRAGMENTED_PACKETS_IDOFFSET}
         \cap 0..(NONFRAGMENTED_PACKETS_IDOFFSET - 1)
  ELSE NONFRAGMENTED_PACKETS_IDOFFSET..(MAX_PACKETS_IDOFFSET - 1)

ASSUME CommThreadsAssumption ==
  /\ UI \in Sender
  /\ Handler \cap Sender = {}
  /\ Maintenance \notin Handler \cup Sender
  /\ Nobody \notin Thread
  /\ Last \in Nat \ {0}
  /\ Null \notin Conn /\ Absent \notin Conn /\ Null # Absent
  /\ MAX_FRAGMENTS_PER_PACKET < NONFRAGMENTED_PACKETS_IDOFFSET
  /\ NONFRAGMENTED_PACKETS_IDOFFSET + 1 < MAX_PACKETS_IDOFFSET
  /\ MaxSends \in Nat /\ MaxExpired \in Nat

VARIABLES
  m_Connections,   \* peer -> object, Null or Absent
  live,            \* the objects that exist
  old,             \* those with m_dwConnectionTimeout <= GetRunTime()
  expired,         \* how many have got old
  counter,         \* object -> kind -> the last number of its two counters
  numbered,        \* object -> kind -> the numbers it has given, of this cycle
  cConnectionLock, \* its owner
  m_SendLock,      \* its owner, and how often it has locked it
  at,              \* where each thread is
  peer,            \* sockAddr of the packet a thread handles
  lpConnection,    \* the local of each thread
  nr,              \* the counter each sender advances, and what it read of it
  sends,           \* calls of SendPacket
  position,        \* where the iterator of the maintenance thread is
  running,         \* bUDPxxxThread
  crashed          \* the program has used a null pointer

NoCount == [kind \in Kind |-> 0]
NoNumbers == [kind \in Kind |-> {}]
NotNumbering == [kind |-> "unfragmented", last |-> 0]

objects == <<m_Connections, live, old, counter, numbered>>
locks == <<cConnectionLock, m_SendLock>>
vars == <<objects, expired, locks, at, peer, lpConnection, nr, sends, position,
          running, crashed>>

Init ==
  /\ m_Connections = [p \in Peer |-> Absent]
  /\ live = {} /\ old = {} /\ expired = 0
  /\ counter = [c \in Conn |-> NoCount]
  /\ numbered = [c \in Conn |-> NoNumbers]
  /\ cConnectionLock = Nobody
  /\ m_SendLock = [owner |-> Nobody, depth |-> 0]
  /\ at = [t \in Thread |-> "idle"]
  /\ peer = [t \in Thread |-> 1]
  /\ lpConnection = [t \in Thread |-> Null]
  /\ nr = [s \in Sender |-> NotNumbering]
  /\ sends = 0
  /\ position = 0
  /\ running = TRUE
  /\ crashed = FALSE

\* Thread t goes from one place to the next, in a program that has not crashed.
Step(t, from, to) ==
  /\ ~ crashed
  /\ at[t] = from
  /\ at' = [at EXCEPT ![t] = to]

\* Thread t is done, and its locals are gone.
Return(t, from) ==
  /\ Step(t, from, "idle")
  /\ lpConnection' = [lpConnection EXCEPT ![t] = Null]
  /\ peer' = [peer EXCEPT ![t] = 1]

-----------------------------------------------------------------------------
(* GetConnection, of handlers and senders.                                 *)

\* m_Connections[ sockAddr ] makes a null entry where there is none.
LookUp(t) ==
  /\ IF m_Connections[peer[t]] \in Conn
     THEN /\ Step(t, "lookup", "use")
          /\ UNCHANGED m_Connections
     ELSE /\ Step(t, "lookup", "create")
          /\ m_Connections' = [m_Connections EXCEPT ![peer[t]] = Null]
  /\ lpConnection' = [lpConnection EXCEPT ![t] = m_Connections'[peer[t]]]
  /\ UNCHANGED <<live, old, counter, numbered, expired, locks, peer, nr, sends,
                 position, running, crashed>>

\* The identifiers of a connection begin again.
Fresh(c) ==
  /\ counter' = [counter EXCEPT ![c] = NoCount]
  /\ numbered' = [numbered EXCEPT ![c] = NoNumbers]

\* The new connection is stored in whatever is the entry by now.
Create(t) ==
  /\ Step(t, "create", "use")
  /\ \E c \in Conn \ live :
       /\ live' = live \cup {c}
       /\ Fresh(c)
       /\ m_Connections' = [m_Connections EXCEPT ![peer[t]] = c]
       /\ lpConnection' = [lpConnection EXCEPT ![t] = c]
  /\ UNCHANGED <<old, expired, locks, peer, nr, sends, position, running, crashed>>

-----------------------------------------------------------------------------
(* The handlers.                                                           *)

\* A thread of the CommCenter has tested its flag; it has a packet, or has slept.
Begin(t) ==
  /\ running
  /\ Step(t, "idle", "called")
  /\ UNCHANGED <<objects, expired, locks, peer, lpConnection, nr, sends, position,
                 running, crashed>>

\* Deviation: the handler does not wait for the lock.
HandleUnlocked(h) ==
  /\ Step(h, "called", "lookup")
  /\ cConnectionLock' = h
  /\ \E p \in Peer : peer' = [peer EXCEPT ![h] = p]
  /\ UNCHANGED <<objects, expired, m_SendLock, lpConnection, nr, sends, position,
                 running, crashed>>

Handle(h) ==
  /\ cConnectionLock = Nobody
  /\ Step(h, "called", "lookup")
  /\ cConnectionLock' = h
  /\ \E p \in Peer : peer' = [peer EXCEPT ![h] = p]
  /\ UNCHANGED <<objects, expired, m_SendLock, lpConnection, nr, sends, position,
                 running, crashed>>

\* Deviation: the lock is kept.
FinishLocked(h) ==
  /\ Return(h, "use")
  /\ old' \in {old, old \ {lpConnection[h]}}
  /\ UNCHANGED <<m_Connections, live, counter, numbered, expired, locks, nr, sends,
                 position, running, crashed>>

\* AddPending, DestroyPending, or the analysis of a packet; the last of these
\* sets m_dwConnectionTimeout again, if the packet is new.
Finish(h) ==
  /\ Return(h, "use")
  /\ old' \in {old, old \ {lpConnection[h]}}
  /\ cConnectionLock' = Nobody
  /\ UNCHANGED <<m_Connections, live, counter, numbered, expired, m_SendLock, nr, sends,
                 position, running, crashed>>

-----------------------------------------------------------------------------
(* SendPacket.                                                             *)

\* The program calls SendPacket.
Call(s) ==
  /\ running /\ sends < MaxSends
  /\ Step(s, "idle", "called")
  /\ sends' = sends + 1
  /\ UNCHANGED <<objects, expired, locks, peer, lpConnection, nr, position, running,
                 crashed>>

\* Deviation: m_SendLock is not locked.
SendUnlocked(s) ==
  /\ Step(s, "called", "lookup")
  /\ m_SendLock' = [owner |-> s, depth |-> 1]
  /\ \E p \in Peer : peer' = [peer EXCEPT ![s] = p]
  /\ UNCHANGED <<objects, expired, cConnectionLock, lpConnection, nr, sends,
                 position, running, crashed>>

\* Deviation: the mutex is not recursive.
SendOnce(s) ==
  /\ m_SendLock.owner = Nobody
  /\ Step(s, "called", "lookup")
  /\ m_SendLock' = [owner |-> s, depth |-> 1]
  /\ \E p \in Peer : peer' = [peer EXCEPT ![s] = p]
  /\ UNCHANGED <<objects, expired, cConnectionLock, lpConnection, nr, sends,
                 position, running, crashed>>

\* A recursive mutex: its owner may lock it again.
Send(s) ==
  /\ m_SendLock.owner \in {Nobody, s}
  /\ Step(s, "called", "lookup")
  /\ m_SendLock' = [owner |-> s, depth |-> m_SendLock.depth + 1]
  /\ \E p \in Peer : peer' = [peer EXCEPT ![s] = p]
  /\ UNCHANGED <<objects, expired, cConnectionLock, lpConnection, nr, sends,
                 position, running, crashed>>

\* The message has more than MAX_FRAGMENTS_PER_PACKET pieces: return.
TooBig(s) ==
  /\ Return(s, "use")
  /\ UNCHANGED <<objects, expired, locks, nr, sends, position, running, crashed>>

\* GetUnfragmentedPacketID or GetFragmentedPacketID reads its counter.  The
\* memory of an object that is no more holds any value of such a counter.
Number(s) ==
  /\ Step(s, "use", "post")
  /\ \E kind \in Kind :
       \E last \in IF lpConnection[s] \in live THEN {counter[lpConnection[s]][kind]}
                                               ELSE {0} \cup Cycle(kind) :
         nr' = [nr EXCEPT ![s] = [kind |-> kind, last |-> last]]
  /\ UNCHANGED <<objects, expired, locks, peer, lpConnection, sends, position,
                 running, crashed>>

Unlocked == IF m_SendLock.depth = 1
            THEN [owner |-> Nobody, depth |-> 0]
            ELSE [m_SendLock EXCEPT !.depth = @ - 1]

\* Once every number of the cycle is given they may be given again.
AlsoGiven(given, n, cycle) == IF given \cup {n} = cycle THEN {n} ELSE given \cup {n}

\* The counter is written and the packet, or each piece, posted.
Post(s) ==
  LET c    == lpConnection[s]
      kind == nr[s].kind
      n    == NextID(kind, nr[s].last)
  IN  /\ Return(s, "post")
      /\ IF c \in live
         THEN /\ counter' = [counter EXCEPT ![c][kind] = n]
              /\ numbered' = [numbered EXCEPT ![c][kind] = AlsoGiven(@, n, Cycle(kind))]
         ELSE UNCHANGED <<counter, numbered>>
      /\ m_SendLock' = Unlocked
      /\ nr' = [nr EXCEPT ![s] = NotNumbering]
      /\ UNCHANGED <<m_Connections, live, old, expired, cConnectionLock, sends,
                     position, running, crashed>>

-----------------------------------------------------------------------------
(* UDPMaintenancePacket.                                                   *)

\* MultiLock.  While PickLock fails it gives cMaintenanceLock back and tries
\* again, which changes nothing.
Wake ==
  /\ cConnectionLock = Nobody
  /\ Step(Maintenance, "called", "scan")
  /\ cConnectionLock' = Maintenance
  /\ UNCHANGED <<objects, expired, m_SendLock, peer, lpConnection, nr, sends,
                 position, running, crashed>>

\* The entries the iterator has not passed.
Ahead == {p \in Peer : p > position /\ m_Connections[p] # Absent}

Visit ==
  /\ Step(Maintenance, "scan", "use")
  /\ \E p \in Ahead :
       /\ \A q \in Ahead : p <= q
       /\ position' = p
       /\ lpConnection' = [lpConnection EXCEPT ![Maintenance] = m_Connections[p]]
  /\ UNCHANGED <<objects, expired, locks, peer, nr, sends, running, crashed>>

\* A null pointer: the entry a sender is about to fill.
Crash ==
  /\ lpConnection[Maintenance] = Null
  /\ Step(Maintenance, "use", "scan")
  /\ crashed' = TRUE
  /\ UNCHANGED <<objects, expired, locks, peer, lpConnection, nr, sends, position,
                 running>>

\* The lists are looked through, and the connection is kept: it is not old, or
\* one of them is not empty.
Keep ==
  /\ lpConnection[Maintenance] # Null
  /\ Step(Maintenance, "use", "scan")
  /\ UNCHANGED <<objects, expired, locks, peer, lpConnection, nr, sends, position,
                 running, crashed>>

Delete ==
  LET c == lpConnection[Maintenance] IN
  /\ c \in old
  /\ Step(Maintenance, "use", "erase")
  /\ live' = live \ {c}
  /\ old' = old \ {c}
  /\ Fresh(c)
  /\ UNCHANGED <<m_Connections, expired, locks, peer, lpConnection, nr, sends,
                 position, running, crashed>>

\* Deviation: the entry is nulled instead.
EraseToNull ==
  /\ Step(Maintenance, "erase", "scan")
  /\ m_Connections' = [m_Connections EXCEPT ![position] = Null]
  /\ UNCHANGED <<live, old, counter, numbered, expired, locks, peer, lpConnection,
                 nr, sends, position, running, crashed>>

Erase ==
  /\ Step(Maintenance, "erase", "scan")
  /\ m_Connections' = [m_Connections EXCEPT ![position] = Absent]
  /\ UNCHANGED <<live, old, counter, numbered, expired, locks, peer, lpConnection,
                 nr, sends, position, running, crashed>>

Rest ==
  /\ Ahead = {}
  /\ Return(Maintenance, "scan")
  /\ cConnectionLock' = Nobody
  /\ position' = 0
  /\ UNCHANGED <<objects, expired, m_SendLock, nr, sends, running, crashed>>

-----------------------------------------------------------------------------
(* ~CCommCenter, by the thread UI.                                         *)

ClearFlags ==
  /\ running
  /\ Step(UI, "idle", "join")
  /\ running' = FALSE
  /\ UNCHANGED <<objects, expired, locks, peer, lpConnection, nr, sends, position,
                 crashed>>

\* A thread of the CCommCenter leaves its loop.
End(t) ==
  /\ t # UI
  /\ ~ running
  /\ Step(t, "idle", "ended")
  /\ UNCHANGED <<objects, expired, locks, peer, lpConnection, nr, sends, position,
                 running, crashed>>

Join ==
  /\ \A t \in Thread \ {UI} : at[t] = "ended"
  /\ Step(UI, "join", "destroy")
  /\ UNCHANGED <<objects, expired, locks, peer, lpConnection, nr, sends, position,
                 running, crashed>>

DeleteConnections ==
  /\ Step(UI, "destroy", "ended")
  /\ live' = live \ {m_Connections[p] : p \in Peer}
  /\ old' = old \cap live'
  /\ m_Connections' = [p \in Peer |-> Absent]
  /\ UNCHANGED <<counter, numbered, expired, locks, peer, lpConnection, nr, sends,
                 position, running, crashed>>

-----------------------------------------------------------------------------
\* PACKET_BACKLOG_TIMEOUT passes.  It is 15 seconds: nobody is at work on the
\* connection all the time.
InUse == {lpConnection[t] : t \in {u \in Thread : at[u] \in {"create", "use", "post"}}}

Expire(c) ==
  /\ c \in live \ (old \cup InUse)
  /\ expired < MaxExpired
  /\ ~ crashed
  /\ old' = old \cup {c}
  /\ expired' = expired + 1
  /\ UNCHANGED <<m_Connections, live, counter, numbered, locks, at, peer,
                 lpConnection, nr, sends, position, running, crashed>>

\* What a thread does with locks it has.
GetConnection(t) == LookUp(t) \/ Create(t)
Handling(h) == GetConnection(h) \/ Finish(h)
Sending(s) == GetConnection(s) \/ TooBig(s) \/ Number(s) \/ Post(s)
Maintaining == Visit \/ Crash \/ Keep \/ Delete \/ Erase \/ Rest
Destroying == Join \/ DeleteConnections

Next ==
  \/ \E t \in Handler \cup {Maintenance} : Begin(t)
  \/ \E h \in Handler : Handle(h) \/ Handling(h)
  \/ \E s \in Sender : Call(s) \/ Send(s) \/ Sending(s)
  \/ Wake \/ Maintaining
  \/ ClearFlags \/ Destroying
  \/ \E t \in Thread : End(t)
  \/ \E c \in Conn : Expire(c)

Spec == Init /\ [][Next]_vars

\* Every thread that can run does.  m_SendLock is not fair, but nobody holds it
\* for long, and the senders do other things in between: who waits for it gets it
\* at last.  For cConnectionLock less is enough.  Nobody has to call SendPacket,
\* to handle a packet or to destroy the CCommCenter.
FairSpec ==
  /\ Spec
  /\ \A h \in Handler : WF_vars(Handling(h)) /\ WF_vars(Handle(h))
  /\ \A s \in Sender : WF_vars(Sending(s)) /\ SF_vars(Send(s))
  /\ WF_vars(Maintaining) /\ WF_vars(Wake)
  /\ WF_vars(Destroying)
  /\ \A t \in Thread : WF_vars(End(t))

-----------------------------------------------------------------------------
\* The types of the variables; what has got old exists.
TypeOK ==
  /\ m_Connections \in [Peer -> Conn \cup {Null, Absent}]
  /\ live \subseteq Conn /\ old \subseteq live
  /\ expired \in Nat
  /\ counter \in [Conn -> [Kind -> PacketID]]
  /\ numbered \in [Conn -> [Kind -> SUBSET PacketID]]
  /\ cConnectionLock \in Handler \cup {Maintenance, Nobody}
  /\ m_SendLock \in [owner : Sender \cup {Nobody}, depth : Nat]
  /\ at \in [Thread -> {"idle", "called", "lookup", "create", "use", "post",
                        "scan", "erase", "join", "destroy", "ended"}]
  /\ peer \in [Thread -> Peer]
  /\ lpConnection \in [Thread -> Conn \cup {Null}]
  /\ nr \in [Sender -> [kind : Kind, last : PacketID]] /\ sends \in Nat
  /\ position \in 0..Last
  /\ running \in BOOLEAN /\ crashed \in BOOLEAN

\* A thread that works on a connection under cConnectionLock works on one that
\* exists, whatever senders do; only the maintenance thread may meet a null
\* pointer.  What ~CCommCenter deletes in the end exists, and is deleted once.
LockedUseIsLive ==
  /\ \A h \in Handler : at[h] = "use" => lpConnection[h] \in live
  /\ at[Maintenance] = "use" => lpConnection[Maintenance] \in live \cup {Null}
  /\ at[UI] = "destroy" =>
       \A p, q \in Peer :
         /\ m_Connections[p] \in live \cup {Absent}
         /\ m_Connections[p] = m_Connections[q] /\ p # q => m_Connections[p] = Absent

\* An entry is null, and the program can crash, only while a thread, for that
\* peer, is between the two accesses of GetConnection.
NullMeansCreating ==
  \A p \in Peer : m_Connections[p] = Null =>
    \E t \in Handler \cup Sender : at[t] = "create" /\ peer[t] = p

\* No connection object gives a number again before it has given all others of
\* the kind: senders may use one that is dead, but not two of them at once.
NumbersDiffer ==
  \A s \in Sender :
    LET c == lpConnection[s]
        kind == nr[s].kind
    IN  at[s] = "post" /\ c \in live =>
          NextID(kind, nr[s].last) \notin numbered[c][kind]

\* Somebody who returned from SendPacket has m_SendLock still.
Kept ==
  /\ m_SendLock.owner # Nobody
  /\ m_SendLock.depth >
       IF at[m_SendLock.owner] \in {"lookup", "create", "use", "post"} THEN 1 ELSE 0

\* A call of SendPacket comes back, unless the program crashed or another
\* sender, with a message that was too big, kept m_SendLock for ever.
SendsEnd ==
  \A s \in Sender :
    at[s] = "called" ~> at[s] = "idle" \/ crashed \/ (Kept /\ m_SendLock.owner # s)

\* ~CCommCenter comes back, unless the program crashed or m_SendLock was kept.
DestructorEnds == at[UI] = "join" ~> at[UI] = "ended" \/ crashed \/ Kept

\* The connection SendPacket numbers a packet with exists.
UsedIsLive ==
  \A s \in Sender : at[s] \in {"use", "post"} => lpConnection[s] \in live

\* A connection nobody works on is in the map, to be found by the next packet
\* and by the maintenance.
NoneIsLost ==
  \A c \in live \ InUse : \E p \in Peer : m_Connections[p] = c
=============================================================================
