# The T4C 1.68 client in TLA+

This directory specifies, model-checks and proves properties of two parts of the
repository that carry the program's own logic. One is the network core of the
Linux client: the UDP transport (`src/network/CommCenter.cpp`), the queues that
join its threads (`src/network/IOCPCompat.cpp`) and the login session that uses
it (`src/network/T4CLoginSession.cpp`). The other is the list of visible objects
of the Windows client (`VisualObjectList.cpp`, `TemplateList.h`), which its
packet thread and its draw thread share. Paths below are relative to `src/` of
the repository; `CommCenter.h`, `ComPacketHeader.h`, `Lock.h`, `TemplateList.h`,
`VisualObjectList.cpp`, `TFCObject.h` and `Packet.cpp` are those under
`CLIENT168_RC14h_OK/1.68RC14h/Client/T4C Client/`.

## 1. The system

### Components and their state

| component | code | state | operations |
|---|---|---|---|
| packet identifiers | `CNMConnection` (CommCenter.cpp) | two 14-bit counters; a ring of 128 received identifiers with an offset | `GetFragmentedPacketID`, `GetUnfragmentedPacketID`, `AlreadyReceivedPacket`, `RegisterReceivedPacketID` |
| reassembly | `FragmentsList`, `FragmentedPackets` | per message: 32 slots, count, size once known, deadline; per connection: a list of at most 10 messages | `AddPiece`, `BuildCompletedPacket`, `RegisterFragment`, `VerifyTimedoutFragments` |
| retransmission | `CNMConnection::m_pendingPackets` | at most 5 safe packets with count, delay and deadline | `AddPending`, `DestroyPending`, `VerifyTimedoutPending`, `ReSendPacket` |
| transport | `CCommCenter` | a map from address to connection; four queues; six threads; five locks | `SendPacket`, `SendAck`, `AnalyzeUPPData`, the thread bodies, `GetConnection` |
| queues | `VirtualIOCP` | a deque, a mutex, a condition variable, a flag | `PostStatus`, `GetStatus`, `shutdown`, `drain` |
| thread layer | `T4CLinuxCommPort.cpp` | handles of threads, `CancelIo` | `_beginthreadex`, `WaitForSingleObject`, `TerminateThread` |
| login session | `T4CLoginSession.cpp` | `g_sessionMutex`, `g_comm`, the atomics `g_pipelineStep`, `g_successAlreadyShown`, `g_pendingSuccessDialog` | `T4CLoginSessionStart`, `...Shutdown`, `...ConsumeNetworkSuccessDialog`, `CommReadCallback` |
| visible objects | `VisualObjectList`, a `TemplateList` (Windows client) | a doubly linked list with one cursor and a query state; `nbUnit`; the objects; the global `SpellID` | `Add`, `MoveObject`, `Delete`, `DeleteAll`, `ChangeType`, `MovePlayer`, `Sort`, `KillObject` |
| login screen, configuration, debug log, encryption | `src/gui`, `T4CNetworkDebugLog.cpp`, `CryptMestoph` | text fields, a small file, a list of lines, none | see section 8 |

The rest of the repository (drawing, sound and windows of the Windows client, SXL,
WTL, tools, assets) is not modelled. The server is not in the
repository.

### How they interact

A message travels through six threads of two `CCommCenter`s:

    program --SendPacket--> PreSendPacketIO --UDPSendPacketThread (pending list)-->
      SendPacketIO --UDPSendDataThread--> sendto ~~~ network ~~~> recvfrom
      --UDPReceiveDataThread--> ReceivePacketIO --UDPReceivePacketThread
      (AnalyzeUPPData: ack, duplicates, fragments)--> AnalyseIO
      --UDPAnalyseThread--> callback (CommReadCallback)

The names `...IO` are `VirtualIOCP` queues. `UDPMaintenancePacket` wakes every
125 ms, retransmits or gives up pending packets, drops stale fragments and
deletes idle connections. The handlers of a connection exclude one another by
`cConnectionLock`; the exception is `SendPacket`, which looks the connection up
and numbers the packet under `m_SendLock` alone. The callback runs in the
analyse thread and sends through the same `CCommCenter`, under `g_sessionMutex`;
the UI thread holds that mutex while it starts or stops a session.

In the Windows client the packet thread enters, moves and deletes objects under
`Objects.Lock`, and the draw thread, under the same lock, moves all objects
against the player (`MovePlayer`, which also brings scenery into view) and sorts
them for every frame (`Sort`, which also replaces finished spells by what they
summon and kills what is out of range). Both use the list's only cursor, and
both take identifiers from `SpellID`.

### What is hard here

* UDP loses, delays, reorders and duplicates; an acknowledgement may get lost,
  so a received packet comes again; identifiers are reused, and the two ends do
  not agree on when a connection begins.
* Pieces of a message arrive in any order and nothing but a group number ties
  them together; lists are bounded and evict.
* Deadlines on a 32-bit clock, looked at by a thread every 125 ms while
  acknowledgements come in.
* A completion port rebuilt from a condition variable, with a shutdown that does
  not take the mutex.
* A destructor that joins threads whose callback needs a mutex its caller holds,
  and a step counter published after the request it belongs to.

* Two mutexes that guard the same map, one of them recursive and left locked on
  an error path.
* A list that is walked with its own cursor while the body of the walk adds,
  kills and searches with that cursor; arrays sized before the list grows; a sort
  with an early exit; identifiers decremented outside the lock.

`PROJECT.json` lists these hazards at their lines, with the properties that watch
each.

### What makes each part correct

* identifiers: the ring remembers exactly the last 127 accepted identifiers.
* reassembly: a message is built exactly when all its pieces are there, from
  nothing else, and no incomplete message stays for ever.
* retransmission: at most `dwMaxAck` transmissions, `dwAckDelay` apart, none
  after the acknowledgement, none too few.
* transport: each message at most once, only whole messages, nothing new
  dropped as old, safe messages arrive, connections go away.
* queues: an event posted is received once, nobody sleeps through it, and a
  stopped thread ends.
* session: the steps of one login are not mixed with those of another, every
  acceptance is answered, closing a session ends.
* locking: a connection in use is not deleted, no number is given again before all
  others of its kind, every call and the destructor come back.
* visible objects: one linked list that `nbUnit` counts, a cursor that is always
  on an element, walks that meet every object once, no identifier shared but by a
  seraph, and towards the outside a set from which only what was due to leave ever leaves.

## 2. Modules

    PacketIDs        operators on identifiers and on the ring
    +- RecentIDs     abstract: a memory of the last accepted identifiers
    +- ReceiveWindow duplicate suppression; implements RecentIDs
    +- Fragments     operators on one message and on the list of messages
       +- FragmentedPackets  all incomplete messages of a connection
    Subsequences     one operator: what remains of a list when some entries go
    Pending          operators on the pending list
    +- PendingList   retransmission against a wrapping clock
    Transport        EXTENDS Fragments, Pending: two endpoints and a network
    CompletionPort   VirtualIOCP and the threads that use it
    LoginSession     the UI thread and the analyse thread
    CommThreads      EXTENDS PacketIDs: the locks of CCommCenter around its map
    CursorList       operators on a TemplateList, its cursor included
    +- VisibleObjects  VisualObjectList, both threads; implements VisibleSet
    VisibleSet       abstract: a set of objects that keep their IDs
    *Proofs          theorems (section 7)
    MC*              instances for TLC, one or more .cfg each

`PacketIDs`, `Fragments`, `Pending`, `Subsequences` and `CursorList` hold no
variables. The small modules and
`Transport` use the same operators, so what is checked or proved of an operator
in isolation is what the composition runs. Each operator of these modules has
the name of the C++ function it stands for. None of the modules has a RECURSIVE
operator. Definitions whose comment begins with "Deviation" are not part of the
model: each is a plausible mistake in the definition that follows it, and every
checked property is known to fail when one of them takes that definition's place.

### ReceiveWindow and RecentIDs

`window` is `m_wReceivedPacketIDs` with `m_wReceivedPacketOffset`. `AcceptPacket`
and `DropDuplicate` are the two branches of `AnalyzeUPPData` at
CommCenter.cpp:1582. The search in the code counts down from the newest slot,
wraps, and stops before one slot; the model says which slots it compares
(all but the one the next registration overwrites). `RecentIDs` is a list of
ages, has no ring and no offset, and is implemented under the mapping that
reads the ring backwards.

### Fragments, FragmentedPackets

A piece is a packet `[id, lastFrag, body]`; the bytes are one value. `StorePiece`
is the body of `AddPiece` after its two tests, with the restart of the count
when the last piece reveals the size. `RegisterFragment` has the two branches of
the code: the first piece of a group makes room and ignores the result of
`AddPiece`; a later piece may complete the message. Deadlines are remaining
times: `timeout <= GetRunTime()` is `timeout = 0`, so this part of the model does
not see the clock wrap (`PendingList` does, for the other deadlines).
`posted` is the message given to the analysis in the last step. What the loop of
`VerifyTimedoutFragments` erases is described by what it leaves: the subsequence
of the entries still in time (`OnlyAt`), a set with one element. Stated in this
way the provers can use it.

### Pending and PendingList

The deadlines here are instants modulo `DWORD_MOD`, as in the code, and
`dwAckCount--` wraps. `Retried` keeps `entry.dwAckDelay` as it is: the code
scales the delay of the copy it posts (CommCenter.cpp:620-622), not of the
entry. `PendingList` adds a clock, a program that sends safe packets, and the
maintenance thread with its period; `tries`, `waited`, `gaps`, `crowded` (the packets that
met a full list) and `acked` only observe.

### Transport

`connection[e]` is the entry of endpoint `e` for the other one, or
`NoConnection`. `SendPacket` numbers the packets and puts them in
`hhUDPPreSendPacketIO` (`preSend`); `UDPSendPacketThread` lists a safe packet as
pending and sends it; `ReceiveData` is `AnalyzeUPPData` for a data packet: it
acknowledges first, then drops, accepts or registers a fragment;
`ReceiveAck` is its other branch; `Maintenance` is `UDPMaintenancePacket`.
The queues after `UDPSendPacketThread`, and those before `AnalyzeUPPData`, are
FIFO and add only delay; they are part of `net`, which delays and reorders
anyway. A handler runs under one or two locks and is one step here.
`sent`, `losses`, `analysed`, `repeated`, `registered`, `refused` and `acked`
only observe. Time is discrete: `Tick` is enabled once every handler has done
what is due, which is what threads that run every 125 ms do against deadlines
of seconds.

The two endpoints, and identifiers below `NONFRAGMENTED_PACKETS_IDOFFSET` that
divide into whole groups (5760 = 180 * 32), are assumptions of the module. What
the maintenance leaves of a connection is the element of the set `Maintained`,
which `LeftWith` puts together from what the two `VerifyTimedout...` loops leave.
`InUse(e)` collects the identifiers of `e` that something still stands for, as
groups of fragments or identifiers of whole messages (`UseOf`): what is queued,
pending or in flight, and what the peer remembers or holds incomplete. On it rests
`NumbersAreFree`: `SendPacket` gives a message nothing that is in use. `NoLateCopy`
is its counterpart at the receiver: a registered packet of which a copy is in
flight is still in the ring.

### CompletionPort

A critical section of `m_mutex` is one step, except where someone who does not
take the mutex can come between: a getter that has tested its predicate and is
about to block (`DecideToWait`, then `Park`). `shutdown` is two steps,
`StoreShutdown` and `NotifyAll`, without the mutex. Time-outs and spurious
wakeups are steps. The getters are the loops `while (bUDPxxxThread)` and
`ClearFlag` is the destructor that ends them.

### LoginSession

Every load or store of an atomic that the other thread can come between is a
step of its own. `main` says where the UI thread is inside
`T4CLoginSessionStart` or `T4CLoginSessionShutdown`; it holds `g_sessionMutex`
from `StartSession` or `Quit` on. `thread` is the analyse thread inside
`CommReadCallback`. The server is any sequence of replies: opcode 14
(account), 99 (version) with a verdict, 26 (list), where 99 and 26 come only
after the version packet was sent. The threads of a `CCommCenter` other than the
analyse thread, and the contents of packets, are left out.

### CommThreads

`at[t]` says where each thread is between two accesses to shared state: a
handler (the send thread, and the receive thread in `AnalyzeUPPData`) and the
maintenance thread under `cConnectionLock`, a sender under `m_SendLock`, and the
sender `UI` in `~CCommCenter`. `GetConnection` is two steps, `LookUp` and
`Create`, because `operator[]` leaves a null entry in the map between them; a
handler and a sender may be in it at once. `Delete` and `Erase` are two steps for
the same reason. `m_SendLock` is the recursive mutex of `Lock.h`: `TooBig`
returns without unlocking it. Each connection has the two counters of the code,
for fragmented messages and for the others (`Kind`), which go round as
`PacketIDs` says (`NextID`, `Cycle`); `Number` reads one of them and `Post` writes
it back. `numbered` only observes: the numbers of the current round that a
connection has given. `Conn` are addresses, which may be allocated again. A sender
that uses an object that was deleted reads any value such a counter can have and
changes nothing the model follows: what undefined behaviour does beyond that is
not described. Accesses to
the map itself count as atomic; the code has two threads in one `std::map`.
`crashed` is set when the maintenance thread meets a null entry.

### CursorList, VisibleObjects and VisibleSet

`CursorList` has one operator per method of `TemplateList`, on a record of its
fields: `AddToTail`, `RemoveObject` with its four cases and what they do to the
cursor, `QueryNext`, `ToHead`, `SetQueryState`. `VisibleObjects` adds `obj` (the
`TFCObject` of each element), `nbUnit`, `SpellID`, and the handlers. Every
handler runs under `Objects.Lock`. The short ones are one step; in `Delete`,
`DeleteAll`, `MovePlayer` and `Sort` each element the walk meets is a step (`op`
is the handler, `pc` its place, `visited` what it has kept so far, which in `Sort`
is the array `ptr`), so that properties can speak of the middle of a walk. The
packet thread's `SpellID--` after the `Objects.Unlock` of the player's own entrance
(`OwnEntrance`, with wings, with dechu wings or without) is a load and a store
(`LoadSpellID`, `StoreSpellID`), and the draw thread may run before, between and
after; `packet` says where that thread is. A decrement of `Sort` can therefore be
lost, and `SpellID` be an identifier in use: `Add` then rejects an object, `Cast`
sends the object that has the identifier on its way, and a seraph, for which `Add`
does not search `SpellID`, becomes a second object with it. Searches stop at the
`First` of them. A seraph animation has the client's identifier and stands
for the player whose identifier it keeps in `NewID`; when it ends (`SeraphEnds`)
`Sort` adds that player and returns. A finished spell is replaced by what it
summons (`Summon`) before it is killed, with `SavePointer` and `RestorePointer`
around the nested `Add`; `Sort` then begins again at the head. The passes of the
exchange sort are modelled comparison by comparison (`Compare`, `NextRound`) with
their early exit, and `EndSort` links the list again in the order of `ptr`.
Coordinates are `signed char`s of a scaled width. Sprites, light, the grids and
attached objects are left out; which frame an animation has reached is any.

`VisibleSet` is a set of objects, each with an identifier it keeps, some of them due
to leave (marked for deletion, out of range, or asked for by the handler at work).
Objects come one at a time; one leaves only when it was due, and alone. It
says nothing about two objects with one identifier; `TwinsAreSeraphs` does.
The walks and the sort are stuttering steps. A handler that kills the object its
cursor has slipped to, or loses one in the links, violates it.

## 3. Runs

Every run below either passes completely (its state space is exhausted) or
exhibits the one violation named. On two workers `visible_objects`,
`comm_threads` and `transport_fragments` take two to three minutes, `transport`,
`pending_list` and `login_session` up to a minute and a half, and the others a few
seconds.
Run one with

    tlc -workers 2 -config MCTransport.cfg MCTransport.tla

| run | cfg | distinct states | what it shows |
|---|---|---|---|
| `window` | MCReceiveWindow | 14,421 | the ring implements `RecentIDs`; no identifier is held twice by the slots compared |
| `fragmented_packets` | MCFragmentedPackets | 40,278 | what is posted is one message; a kept one lacks a piece, its count is exact and its group is its own; none is lost but by completion, time-out or eviction, none kept for ever |
| `pending_list` | MCPendingList | 514,569 | the budget of transmissions, their distance and their punctuality; who did not meet a full list is retried; silence after the acknowledgement |
| `transport` | MCTransport | 377,776 | at most once, no new packet refused, no acknowledgement taken for another packet, on a network that reorders and duplicates and between endpoints that delete their connections and begin again; why: no identifier is given that is in use, and no copy outlives the peer's memory of it |
| `transport_fragments` | MCTransportFragments | 88,204 | fragmented messages with a loss: not mixed, the safe one arrives, connections expire |
| `completion_port` | MCCompletionPort | 27,841 | nobody sleeps through a post, nothing is lost or taken twice, everyone ends |
| `login_session` | MCLoginSession | 166,910 | the pipelines of two sessions are not mixed, the callback gets its mutex, an acceptance in time is answered |
| `comm_threads` | MCCommThreads | 222,390 | under `cConnectionLock` nobody touches a deleted connection, null entries are brief, no number is given again before all others of its kind, `SendPacket` and the destructor come back |
| `visible_objects` | MCVisibleObjects | 2,592,032 | links, cursor and arrays through every interleaving of adds, kills, moves, sorts and lost decrements of `SpellID`; only a seraph shares an identifier; the list implements `VisibleSet` |
| `login_join` | MCLoginSessionJoin | violation | section 6, 1 |
| `comm_unlocked` | MCCommThreadsUnlocked | violation | section 6, 2 |
| `visible_sort` | MCVisibleObjectsSort | violation | section 6, 3 |

Deadlock is checked where the system never stops by itself (`window`,
`fragmented_packets`, `pending_list`). The others end: the programs have sent what
they send, the threads were joined, the window closed, or the bound on
identifiers is used up.

## 4. Bounds

The constants of the code are large (8191 identifiers, a ring of 128, 32 pieces,
10 lists, 5 pending packets, 60 s); each is scaled down so that its limit is
reached within the run.

* `window`: 7 identifiers and a ring of 4, so the ring wraps several times, an
  identifier is forgotten, and one returns while its old copy is in the slot
  that is not compared.
* `fragmented_packets`: three groups of three pieces for two lists, so that the
  third evicts; every piece may be marked as the last, so that marks contradict
  one another and pieces lie beyond the size; waits of two units;
  `MaxArrivals = 5` pieces, enough for a message of three with another in
  between.
* `pending_list`: three packets for a list of two; `AckDelay = 2` so that the
  scaled delay (3) differs from it; a maintenance period of 2, so that it comes
  late; `MaxTicks = 9` covers the three waits of a packet that nobody answers.
  `DWORD_MOD = 64` is never reached, nor a count of zero before `dwAckCount--`:
  what happens there is MCPendingListWrap for the clock (section 6), and for the
  count nothing, because `BudgetIsExact` and the test of the code keep it positive.
* `transport`: two messages one way and one back, with budgets 2, 1 and 0, so
  that safe and unsafe packets meet. The programs send at the ages 0, 1 and 8
  (`SendAges`). At 8 both connections can have been deleted: the counters then
  start again and the third message has an identifier the first had. The silence
  is as short as it can be; with 7 `NumbersAreFree` is violated, because the peer,
  which heard the last packet later, still has its connection. Three messages do
  not take a counter round its end; `comm_threads` does. `PACKET_BACKLOG_TIMEOUT = 4` exceeds
  the retransmissions (`AckDelay` 1,
  scaled 1) plus `MaxTransit = 1`: the case where it does not is
  MCTransportTwice (section 6).
  A duplicating network keeps the copy of a datagram until its time is over
  and may never deliver it, so that losses are included without `MaxLosses`.
* `transport_fragments`: two messages of two pieces; the wait of 3 exceeds one
  retransmission, and the single loss is fewer than the two transmissions.
* `completion_port`: two posters with two posts each and two getters: both
  getters asleep with two posts coming, one woken for an event the other takes.
* `login_session`: two sessions, three replies each, so that a late answer of
  the first meets the start of the second; the whole pipeline takes two replies.
* `comm_threads`: one handler, the maintenance, and two senders of which one
  destroys; one peer, since threads that work on different peers meet only in
  the locks; three addresses, so that one may be allocated again while another is
  in use; two calls of `SendPacket` and one connection that gets old, which is
  what it takes to be deleted in the middle of a call. The cycles are as short as
  they can be, groups 0 and 2 and numbers 4 and 5: two fragmented messages take
  the counter round its end.
* `visible_objects`: three elements, one identifier of the server and one of the
  scenery, one of the player, and three from `SpellID`, so that a decrement can be
  lost and the identifier given again; a player and a seraph that arrive in sight, a
  spell that summons and waits for a child, and that child; two squares, the values
  of a `signed char` of one bit, one of them out of range: each move of the player
  takes the objects from one to the other. Three elements make a head, a middle and a tail, the
  cases of
  `RemoveObject`. The elements are interchangeable, and TLC is told so (SYMMETRY);
  every property of the run is a safety property. `HasRoom` leaves an element for
  each summons to come, as the heap does.

Named bounds that are not in the code: `MaxSends`, `MaxExpired`, `MaxSpells`,
`HasRoom`, `MaxArrivals`, `MaxTicks`, `MaxTransit`,
`MaxLosses`, `SendAges` (the programs send at no other age), `MaxPosts`,
`MaxSessions`, `MaxReplies`.

## 5. Fairness

* `FragmentedPackets`: weak fairness of `Maintenance` and `Tick`. The
  maintenance thread loops with a sleep of 125 ms until the destructor stops it,
  and time passes. Arrivals are not fair: `EventuallyEmpty` holds because they
  are bounded, which stands for a peer that has gone silent.
* `Transport`: weak fairness of `Progress`, the disjunction of all handlers and
  `Tick`: some thread with something to do does it, and when nothing is due time
  passes. It does not choose which; what forces each handler is that `Tick` needs
  empty queues and no due work, and that a datagram cannot outlive `MaxTransit`.
  A handler that could be repeated for ever without changing anything would not
  count as progress. `Lose` and `SendPacket` are not fair: the network need not
  lose and the program need not send. `SafeMessagesArrive` and `ConnectionsExpire`
  are checked with one loss and two transmissions per packet: they are promises
  about a network that loses less than the sender repeats, never about UDP as
  such.
* `CompletionPort`: each getter, each notification and the two steps of
  `shutdown` are weakly fair, as threads of a preemptive scheduler are; `Expire`
  is fair because a getter waits with `wait_until` and the callers pass
  `NM_WAIT_IO`, 60 s. No poster has to post, nobody has to begin the shutdown,
  and no spurious wakeup is relied on. `GettersStop` depends on `Expire`: see
  MCCompletionPortShutdown in
  section 6.
* `LoginSession`: `Start` (the UI thread, once it has entered
  `T4CLoginSessionStart`) and `Analyse` are fair; the user, the server and the
  turn of the UI loop that shows the dialog are not.
* `CommThreads`: a thread inside a section goes on (weak fairness), and so does one
  that finds its mutex free and stays to take it. A mutex is not a queue:
  whoever waits for `m_SendLock` may find it taken again each time it looks, so that
  `Send` is strongly fair. The code justifies that by what senders do in between:
  they wait for the user, for the callback or for a packet, and nobody takes that
  mutex again and again without a pause. For `cConnectionLock` nothing of the kind
  is needed: the properties do not depend on who gets it. Nobody has to call `SendPacket`, to
  handle a
  packet or to destroy the `CCommCenter`.
* `VisibleObjects` states no liveness.

## 6. What the violations show

Each is a run in which the model does what the code does and TLC finds the
states that contradict a sentence of the repository.

1. `login_join`. The UI thread destroys the `CCommCenter` under
   `g_sessionMutex`; the analyse thread, in the callback, waits for that mutex in
   `SendToServerLocked`. After 5 s the thread is cancelled, but a thread blocked
   in a mutex is not at a cancellation point, and the second join never returns.
   CommCenter.cpp:161 announces the wait "for each threads to complete".
2. `comm_unlocked`. `SendPacket` takes the connection from the map and numbers
   the packet with it, under `m_SendLock` only. The maintenance thread holds
   `cConnectionLock` and deletes that connection when it is old and has nothing
   pending. The comment "Lock connections." (CommCenter.cpp:533) stands where
   the lock would have to be.
3. `visible_sort`. The passes of `Sort` are exchange sorts (each `i` against all
   later `j`) that stop at the first `i` that exchanged nothing. That `i` then
   holds the smallest of the rest, and the rest may be in any order: the depths
   0, 2, 1 stay as they are. VisualObjectList.cpp:11683 calls the exit a
   "correction de tri à bulle"; it would be right in a bubble sort.

The same modules show more, with configurations kept here to be run by hand;
each exhibits a violation of the one property it names.

| cfg | property | what happens |
|---|---|---|
| MCTransportRefused | `OnlyDuplicatesRefused` | an endpoint that deleted its idle connection numbers from the start again; the peer, kept alive by a later message, drops the new packets as duplicates, after acknowledging them if they are safe |
| MCTransportTwice | `AtMostOnce` | retransmissions that outlast the receiver's idle connection are new to the next one: the message is given to the program twice |
| MCTransportMixed | `OnlySentMessages` | a sender that expired reuses a fragment group; the receiver joins the piece it kept of the old message with one of the new |

In MCTransportRefused and MCTransportMixed `NumbersAreFree` fails as well, in
MCTransportTwice `NoLateCopy`: the hypotheses of the theorems about `Transport`
(section 7) are what these three break.

| cfg | property | what happens |
|---|---|---|
| MCCompletionPortShutdown | `ShutdownWakesAll` | `shutdown()` stores the flag and notifies without the mutex: a getter between its test and its sleep misses both and sleeps until its 60 s are over. `GettersStop` holds in `completion_port` only because the wait is finite |
| MCLoginSessionEarly | `AcceptIsAnswered` | the acceptance is handled before `g_pipelineStep` is 1, is ignored, and nothing is sent again; `AcceptIsAnsweredInTime` is what does hold |
| MCLoginSessionInactive | `InactiveIsStepZero` | the callback stores step 2 after the session was reset to 0 |
| MCLoginSessionDialog | `OneDialogPerSession` | the callback of the old session sets the dialog flag after the new one cleared it |
| MCPendingListWrap | `DelayIsKept` | around the 49.7 days of `GetRunTime()` a deadline just past the wrap is due at once |
| MCPendingListBackoff | `BackoffGrows` | "1.5x more time" (CommCenter.cpp:620-622) is applied to the posted copy: from the second wait on, all are equal |
| MCPendingListFull | `UnansweredIsPending` | the packet after the fifth pending one is sent once and never again |
| MCVisibleObjectsIDs | `UniqueIDs` | the packet thread loads `SpellID` for its unlocked `SpellID--` (Packet.cpp:773), `Sort` adds two summoned objects and counts down twice, the store takes `SpellID` back up to the second one's identifier, and a seraph arrives, which takes it without a search (VisualObjectList.cpp:7123) |
| MCCommThreadsLost | `NoneIsLost` | a sender and a handler both create the connection of one peer; the one that is overwritten in the map is never found, used by a later packet or deleted |

With `MAX_INCOMPLETE_FRAGMENTED_LIST = 1` `SafeMessagesArrive` fails in
`transport_fragments`: pieces of two messages that arrive alternately evict each
other. The limit of the code is 10; eleven messages under way at once do the same.

## 7. Proofs

`tlapm` proves the following for every value of the constants that satisfies the
named assumptions (`...Assumption` in the module that declares the constants),
which TLC evaluates on every run. Every theorem has the form `Spec => []P`, or
`Spec => P` for an action property and for the two refinements; those about
`Transport` and `IDsStayUnique` have a further hypothesis, named in the theorem.

### ReceiveWindowProofs

`TypeCorrect`, `NoIDIsTwice` (`Spec => []NoIDTwice`) and `RingIsRecentIDs`
(`Spec => RecentSpec`: the refinement). Assumption: a ring of at least two
slots. `NoIDTwice` is inductive with `TypeOK`: the slot left out of the
comparison may hold a copy of an identifier, but it is the one the next
registration overwrites, and the slot that then becomes left out only leaves the
comparison. The arithmetic of the ring is one lemma, `SlotArithmetic`: advancing
the offset makes every slot one registration older, and the walk backwards
reaches every compared slot. The refinement needs that lemma for the step of
`Accept` (every age shifts by one) and its last part for `Refuse`.

### FragmentedPacketsProofs

`TypeCorrect`, `OneListForAGroup`, `CountStaysExact`, `NoWholeListIsKept`,
`PostsOnlyMessages`, and the action property `LosesNoMessageOtherwise`. The
inductive invariant is

    IInv == TypeOK /\ Entries /\ OneListPerGroup /\ PostedIsOneMessage

where `Entries` says that every kept list is sound and not complete. Sound means:
each piece lies in the slot of its number and is of the list's group, the size is
the number of the last piece, and the count is exact. None of the five properties
is inductive alone. That a posted message is whole follows from the count, which
the code updates incrementally, so the count must be exact; that its pieces are
the right ones needs their places; that the first piece of a list may be ignored
when it completes nothing needs `Entries`. `StorePieceExact` is the core: storing
a wanted piece keeps the count exact, with the three cases of a size that is
unknown, learnt now, or known. `CountDecides` turns a number into a set: a list
holds as many pieces as it has slots below its size only when all of them are
filled (finite cardinality, from `FiniteSetTheorems`). The loops that erase
entries are covered by what `OnlyAt` says: the entries that stay, in their order.
`LosesNoMessageOtherwise` follows each kept list from one state to the next: with
one list per group, a group that is gone was completed by the piece that came,
timed out, or was the head of a full list.

### PendingListProofs

`TypeCorrect`, `BudgetStaysExact`, `RetriedAsAsked`, `SilentAfterAck`, and under
the further assumption `ClockSuffices` `DelaysAreKept` and `RetriesArePunctual`.
The invariant of the first four is

    IInv == Types /\ ListedOnce /\ ListedIsOpen /\ AckedWasSent /\ BudgetIsExact
                  /\ RetriedUnlessCrowded

An acknowledgement removes one entry, so that it silences a packet only if the
packet is listed once. `ClockSuffices` says that start, running time and longest
delay add up to less than `DWORD_MOD`: MCPendingListWrap shows that the two
properties fail without it. They need the deadline of every entry told as a
fact about the time it has waited (`DeadlinesAreTold`), which connects the
absolute times of the code with the relative ones of the properties.

### CompletionPortProofs

`TypeCorrect`, `NoPostIsSleptThrough` (`Spec => []EnoughAwake`),
`NoEventIsLostOrDoubled` (`Spec => []NoneLostNoneTwice`) and `EventsStayInOrder`
for any finite sets of posters and getters. The inductive invariant of the first
two is

    IInv == TypeOK /\ ParkedSawNothing /\ EnoughAwake

`EnoughAwake` bounds the queue by the number of getters that will look at it and
of posters that have yet to notify, as long as someone is blocked. The step that
could break it is `Park`: a getter leaves the awake ones. It holds there because
the queue is empty (`ParkedSawNothing`: nobody can have posted since the test,
posting takes the mutex, and the type invariant says who holds it). `Take`
removes an event along with nobody awake; `NotifyOne` trades a notification for
an awake getter; `Leave` needs `running` to be FALSE.

The other two rest on `EInv`: the numbers of one poster rise along the queue and
are above those of its events already received (`InOrder`), and what is queued or
received was posted, and until the shutdown the other way round (`Accounted`). So
no event is in two places, and no getter receives two events of one poster in the
wrong order, however the getters take turns.

### LoginSessionProofs

`TypeCorrect`, `AsksOnce`, `FinishedIsAccepted`, for any number of sessions and
replies. What makes them true is spread over both threads, and so is the
invariant: between the callback's load of the step and its store (`thread` is
"accepted" or "sent") the session has been accepted and has asked not at all, or
once (`Answering`); while a session starts, its callback cannot have found step 1
(`Unpublished`); at step 1 the request is out only if the store of step 2 is to
come (`StepOne`); and the inbox is the end of what the server answered in this
session (`InboxIsLeft`), so that a verdict that is read was given after the
acceptance was read (`RepliesWereAsked`, `AcceptWasHandled`, `Finishing`).

### CommThreadsProofs

`TypeCorrect`, `LockProtects`, `NullIsBrief`, `NumbersStayDifferent`, for any
number of handlers, senders and peers. `LockProtects` holds although senders
change the map without `cConnectionLock`, and the invariant says why: senders
only overwrite null entries they created or objects nobody else works on under
the lock, and never delete; apart from the entry whose connection the maintenance
thread has just deleted and not yet erased (`Dangling`), every entry is a live
connection and in no other entry (`MapIsSound`). `NumbersStayDifferent` is proved of
the two counters of the code, for every number of pieces, every offset and every
limit of the identifiers. That `NextID` stays in its cycle and goes to the next
higher number or from the highest to the lowest is `CountersGo`; for the fragmented
counter it needs the multiples of `MAX_FRAGMENTS_PER_PACKET` below an offset that
need not be one of them. So the numbers given in one round are an arc that ends at
the counter (`Arc`), the next number makes the arc longer (`ArcGrows`), and it is in
the arc only when the arc is the whole cycle (`ArcIsWhole`). The invariant says that
of every object, and of a sender between reading and writing that what it read is
still the counter, or nothing has been given yet (`CountersGoRound`): the work of
`m_SendLock` (`Exclusion`).

### VisibleObjectsProofs

The first part has the lemmas about `TemplateList`: if a list holds the
sequence `s`, `AddToTail` makes it hold `s` with one element more, `RemoveObject`
`s` without the element under the cursor, moving the cursor changes nothing, and
where the cursor is after each. From them follow
`TypeCorrect`, `ListStaysWellFormed`, `CursorStaysLive`, `WalksMissNone`,
`SortStaysInItsArrays`, `TwinsStaySeraphs`, `IDsStayUnique` and the refinement
`ImplementsTheVisibleSet` (`Spec => ImplementsVisibleSet`), for every set of elements,
objects and moves. The inductive invariant follows one sequence `s`, what the list
holds now, and ties the walk to it:

    ListInv == nbUnit = list.nb_objects
               /\ \E s : Represents(list, s) /\ Place(s)

`Place(s)` says that the elements kept so far are the first `Len(visited)` of `s`
and that the cursor is on the last of them before `QueryNext`, on the next after
it; during the passes of the sort `visited` is a permutation of the elements.
`Allocated` is why the arrays suffice: `Sort` adds an object only to kill another
in the next step, so `nbUnit` never exceeds the size by more than one, and not
when a store is made.

About identifiers there are two theorems. `TwinsStaySeraphs` holds of the code as it
is: whatever becomes of `SpellID`, `Add` searches for the identifier it is given, and
only a seraph takes another. `IDsStayUnique` is

    Spec /\ [][SpellID' <= SpellID]_vars => []UniqueIDs

and says that the lost decrement is the only thing that breaks uniqueness
(MCVisibleObjectsIDs in section 6 loses one). It rests on `IDInv`: identifiers of the
client are at most `FirstSpellID` and above `SpellID`, with one exception, the one
just given while `SpellID--` is to come or is between its load and its store.

The refinement shows for each action what becomes of the set: a step that adds
adds one object (`Enters`); a step that removes
removes the element under the cursor, which is the one the handler tested
(`ListInv`) and found due, and still is when it was replaced by what it summoned
in between (`KillsTheDue`); every other step leaves the objects as they are and
changes at most who is due.

### TransportProofs

What `Transport` promises holds for networks and timings that do not confuse its
identifiers, which are few, wrap, and start again with every connection. The
theorems name exactly that, and the hand-run configurations of section 6 show that
without it the promises fail. For every set of messages, every size of rings and
lists, every delay, loss, duplication and order:

| theorem | statement |
|---|---|
| `TypeCorrect` | `Spec => []TypeOK` |
| `GivenAtMostOnce` | `Spec /\ []NoLateCopy => []AtMostOnce` |
| `GivenWasSent` | `Spec /\ NumbersAreFree => []OnlySentMessages` |
| `RefusedWasRegistered` | `Spec /\ NumbersAreFree => []OnlyDuplicatesRefused` |
| `AcknowledgedWasRegistered` | `Spec /\ NumbersAreFree => []AckedWasRegistered` |
| `NoCopyIsLate` | `Spec /\ RingsRemember => []NoLateCopy` |

The last one says where the hypothesis of the first property comes from.
`RingsRemember`: a ring forgets an identifier, where it wraps or goes with its
connection, only when no copy of the packet is left.

`NumbersAreFree` stays a hypothesis. Whether it holds is a matter of time: the
counters of the code wrap and start again while the peer's ring, which is never
empty, still stands for old numbers, and what makes a number free is that the ring
has moved on or was deleted. The run `transport` checks it where connections are
deleted and begin again.

The argument follows the packets wherever they are. `Copies(e)` is what there is
of the packets of `e` (queued, pending, in flight, held by the peer), `Known(e)`
are the identifiers the peer remembers or has acknowledged. One lemma per action
says what the step adds to them: `SendPacket` adds packets, accepting a packet adds
its identifier, and every other step adds nothing (`Quiet`) - retransmission,
duplication and the deletion of connections included. So each invariant
is about these sets, and only two of the actions have to be looked at:

* `AllNumbered`: every copy is a piece of a message that was sent, and its
  identifier says which piece.
* `GivenWasRegistered`, for at most once: what a program was given, and what is held
  for it, was registered, so that a message given twice has a piece registered
  twice.
* `Kept`: copies that use one number are of one message (`UsesAreKeptApart`), and a
  copy whose identifier the peer knows was registered (`KnownWasRegistered`). From
  the first follows that a complete list, whose pieces all use the list's group,
  holds one message, and from the mark of the last piece that it holds all of it
  (`CompletedIsSent`); from the second, the two properties about duplicates and
  acknowledgements.
* `Remembered`, for the last theorem: what is in flight and was registered is in the
  ring.

The lemmas on a list of fragments are those of `FragmentedPacketsProofs`, proved
here again: that module has the variables of `FragmentedPackets`.

### Only model-checked

Liveness (`EventuallyEmpty`, `SafeMessagesArrive`, `ConnectionsExpire`,
`EveryPostIsServed`, `GettersStop`, `LockIsGranted`, `AcceptIsAnsweredInTime`,
`SendsEnd`, `DestructorEnds`) is out of the provers' reach. That `NumbersAreFree`
and `NoLateCopy` hold for given delays, budgets and time-outs is checked on the
instance above and not proved: it is arithmetic over the lives of packets and
connections (section 4, `transport`). The types of `FragmentedPackets`,
`VisibleObjects` and `Transport` are proved and not checked by a run.

## 8. Not modelled, and why

* The one-byte ping 0xF1, the list of lost connections, datagrams that are
  malformed or fail their checksum: no state of a connection depends on them.
* Encryption and checksums, pure functions of bytes; in `Transport` a data packet
  arrives as it was sent.
* The slots of threads, and the queues at destruction (`drain` has no caller).
  `LoginSession` and `CommThreads` take from them that a join waits for the thread.
* What happens inside `std::map` when two threads change it, and after a deleted
  connection was used: both are undefined, and `CommThreads` shows that they
  occur, not what follows.
* The checksum packet of `m_bSendCRC` (CommCenter.cpp:482-517): it is built, takes one
  identifier and is never posted, so that one number is left out, once.
* Byte layouts, character sets, the texts of refusals, the parsing of host and
  port, the debug log (one mutex, one bounded list), the drawing of the login
  screen and its text fields.
* The configuration file: one thread writes it, renames it, and writes in place
  when the rename fails (LoginClientConfig.cpp); its failures are those of the
  file system.
* The server: its transport is taken to be the same protocol, its login answers
  are arbitrary.
* Of the visible objects: drawing, sprites, light, overlap grids, attached objects
  (`AttachID`, `Count`), objects that are allowed out of bounds, `ChangeType` to
  corpses that stay, and the queries of the packet thread that walk with the shared
  cursor without `Objects.Lock` (Packet.cpp:1169 and 1182). With such a walk under
  way no property of the list survives, and modelling it would only say so.
* The rest of the Windows client: drawing, sound, windows, scripting and some
  hundred packet handlers that set fields of the interface. Most of the lines of
  the repository are this, vendored libraries and DirectX headers.

## 9. Plan

Done, in this order: identifiers and the ring; reassembly; retransmission; their
composition in `Transport`; the queues; the session; the locks; the visible
objects; the proofs of section 7.

What would add most next:

1. An abstract specification of the transport (a set of messages, each delivered
   at most once) implemented by `Transport` under the hypotheses of section 7.
2. A bound on delays, budgets and the idle time from which `NoLateCopy` follows,
   proved from the ages of packets and connections.
3. `ThreadSlots`: start, timed join, cancel and join, composed with
   `CompletionPort`, so that the 5 s of `WAIT_THREAD` meet the 60 s of
   `NM_WAIT_IO` in one model, and `LoginSession` rests on it.
4. `AttachID` and `Count` of the visible objects: a count kept by search, which
   deletions postpone on both sides.
