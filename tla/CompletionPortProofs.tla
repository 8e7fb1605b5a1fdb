------------------------- MODULE CompletionPortProofs -------------------------
(***************************************************************************)
(* For any finite sets of posters and getters: types, no getter sleeps     *)
(* through a post, and every event is received once, those of one poster   *)
(* in the order in which it posted them.                                   *)
(***************************************************************************)
EXTENDS CompletionPort, FiniteSetTheorems, TLAPS

\* Who is about to block has seen an empty queue, and nobody could fill it
\* since: posting takes the mutex.
ParkedSawNothing == mutex # Nobody => queue = <<>>

IInv == TypeOK /\ ParkedSawNothing /\ EnoughAwake

\* Awake and Notifying are finite, so that their sizes can be added.
LEMMA CountsAreNumbers ==
  /\ IsFiniteSet(Awake) /\ IsFiniteSet(Notifying)
  /\ Cardinality(Awake) \in Nat /\ Cardinality(Notifying) \in Nat
<1>1. Awake \subseteq Getter /\ Notifying \subseteq Poster
  BY DEF Awake, Notifying
<1>2. IsFiniteSet(Awake) /\ IsFiniteSet(Notifying)
  BY <1>1, CompletionPortAssumption, FS_Subset
<1> QED BY <1>2, FS_CardinalityType

LEMMA CountsAreNumbersLater ==
  /\ IsFiniteSet(Awake') /\ IsFiniteSet(Notifying')
  /\ Cardinality(Awake') \in Nat /\ Cardinality(Notifying') \in Nat
<1>1. Awake' \subseteq Getter /\ Notifying' \subseteq Poster
  BY DEF Awake, Notifying
<1>2. IsFiniteSet(Awake') /\ IsFiniteSet(Notifying')
  BY <1>1, CompletionPortAssumption, FS_Subset
<1> QED BY <1>2, FS_CardinalityType

-----------------------------------------------------------------------------
LEMMA InitHolds == Init => IInv
<1> SUFFICES ASSUME Init PROVE IInv
  OBVIOUS
<1>1. TypeOK
  <2>1. queue \in Seq(Event) /\ taken \subseteq Event
    BY DEF Init
  <2>2. \A g \in Getter : mutex = g <=> getter[g] = "park"
    BY CompletionPortAssumption DEF Init
  <2>3. getter \in [Getter -> {"loop", "calling", "park", "wait", "woken",
                               "expired", "stopped"}]
    BY DEF Init
  <2>4. poster \in [Poster -> {"idle", "notify"}] /\ posts \in [Poster -> 0..MaxPosts]
    BY CompletionPortAssumption DEF Init
  <2>5. /\ mutex \in Getter \cup {Nobody} /\ shutdown \in BOOLEAN
        /\ running \in BOOLEAN /\ stopper \in {"idle", "cancel", "notify", "done"}
    BY DEF Init
  <2> QED BY <2>1, <2>2, <2>3, <2>4, <2>5 DEF TypeOK
<1>2. ParkedSawNothing
  BY DEF Init, ParkedSawNothing
<1>3. EnoughAwake
  BY DEF Init, EnoughAwake, Waiting
<1> QED BY <1>1, <1>2, <1>3 DEF IInv

LEMMA TypeStep == TypeOK /\ ParkedSawNothing /\ [Next]_vars => TypeOK'
<1> SUFFICES ASSUME TypeOK, ParkedSawNothing, [Next]_vars PROVE TypeOK'
  OBVIOUS
<1> USE CompletionPortAssumption DEF TypeOK
<1>1. ASSUME NEW p \in Poster, Post(p) PROVE TypeOK'
  <2>1. posts[p] + 1 \in 1..MaxPosts
    BY <1>1 DEF Post
  <2>2. [from |-> p, nr |-> posts[p] + 1] \in Event
    BY <2>1 DEF Event
  <2>3. queue' \in Seq(Event)
    BY <1>1, <2>2 DEF Post
  <2> QED BY <1>1, <2>1, <2>3 DEF Post
<1>2. ASSUME NEW p \in Poster, PostRefused(p) PROVE TypeOK'
  BY <1>2 DEF PostRefused
<1>3. ASSUME NEW p \in Poster, NotifyOne(p) PROVE TypeOK'
  <2>1. CASE Waiting = {}
    BY <1>3, <2>1 DEF NotifyOne
  <2>2. CASE Waiting # {}
    <3>1. PICK g \in Waiting : getter' = [getter EXCEPT ![g] = "woken"]
      BY <1>3, <2>2 DEF NotifyOne
    <3> QED BY <1>3, <3>1 DEF NotifyOne, Waiting
  <2> QED BY <2>1, <2>2
<1>4. ASSUME NEW g \in Getter, Enter(g) \/ Leave(g) PROVE TypeOK'
  BY <1>4 DEF Enter, Leave
<1>5. ASSUME NEW g \in Getter, Take(g) PROVE TypeOK'
  <2>1. Head(queue) \in Event /\ Tail(queue) \in Seq(Event)
    BY <1>5 DEF Take
  <2> QED BY <1>5, <2>1 DEF Take
<1>6. ASSUME NEW g \in Getter, ReturnFalse(g) PROVE TypeOK'
  BY <1>6 DEF ReturnFalse
<1>7. ASSUME NEW g \in Getter, DecideToWait(g) PROVE TypeOK'
  BY <1>7 DEF DecideToWait
<1>8. ASSUME NEW g \in Getter, Park(g) PROVE TypeOK'
  BY <1>8 DEF Park
<1>9. ASSUME NEW g \in Getter, Expire(g) \/ WakeSpuriously(g) PROVE TypeOK'
  BY <1>9 DEF Expire, WakeSpuriously
<1>10. CASE Stop
  BY <1>10 DEF Stop, ClearFlag, StoreShutdown, NotifyAll, Waiting
<1>11. CASE UNCHANGED vars
  BY <1>11 DEF vars
<1> QED
  BY <1>1, <1>2, <1>3, <1>4, <1>5, <1>6, <1>7, <1>8, <1>9, <1>10, <1>11
  DEF Next, Get

LEMMA ParkedStep == TypeOK /\ ParkedSawNothing /\ [Next]_vars => ParkedSawNothing'
<1> SUFFICES ASSUME TypeOK, ParkedSawNothing, [Next]_vars PROVE ParkedSawNothing'
  OBVIOUS
<1> USE DEF ParkedSawNothing
<1>1. ASSUME NEW p \in Poster, Post(p) \/ PostRefused(p) \/ NotifyOne(p)
      PROVE ParkedSawNothing'
  BY <1>1 DEF Post, PostRefused, NotifyOne
<1>2. ASSUME NEW g \in Getter, Get(g) PROVE ParkedSawNothing'
  BY <1>2 DEF Get, Enter, Leave, Take, ReturnFalse, DecideToWait, Park
<1>3. ASSUME NEW g \in Getter, Expire(g) \/ WakeSpuriously(g)
      PROVE ParkedSawNothing'
  BY <1>3 DEF Expire, WakeSpuriously
<1>4. CASE Stop
  BY <1>4 DEF Stop, ClearFlag, StoreShutdown, NotifyAll
<1>5. CASE UNCHANGED vars
  BY <1>5 DEF vars
<1> QED BY <1>1, <1>2, <1>3, <1>4, <1>5 DEF Next

-----------------------------------------------------------------------------
(* A step that does not fill the queue and puts nobody to sleep keeps the  *)
(* count; the other steps change it on both sides.                         *)

LEMMA AwakeStep == IInv /\ [Next]_vars => EnoughAwake'
<1> SUFFICES ASSUME IInv, [Next]_vars PROVE EnoughAwake'
  OBVIOUS
<1> USE DEF IInv
<1>0. /\ IsFiniteSet(Awake) /\ IsFiniteSet(Notifying)
      /\ Cardinality(Awake) \in Nat /\ Cardinality(Notifying) \in Nat
      /\ Cardinality(Awake') \in Nat /\ Cardinality(Notifying') \in Nat
      /\ Len(queue) \in Nat
  BY CountsAreNumbers, CountsAreNumbersLater DEF TypeOK
<1>1. ASSUME NEW p \in Poster, Post(p) PROVE EnoughAwake'
  <2>1. Waiting' = Waiting /\ Awake' = Awake /\ running' = running
    BY <1>1 DEF Post, Waiting, Awake
  <2>2. Len(queue') = Len(queue) + 1
    BY <1>1 DEF Post, TypeOK
  <2>3. p \notin Notifying /\ Notifying' = Notifying \cup {p}
    BY <1>1 DEF Post, Notifying, TypeOK
  <2>4. Cardinality(Notifying') = Cardinality(Notifying) + 1
    BY <1>0, <2>3, FS_AddElement
  <2> QED BY <1>0, <2>1, <2>2, <2>4 DEF EnoughAwake
<1>2. ASSUME NEW p \in Poster, NotifyOne(p) PROVE EnoughAwake'
  <2>1. CASE Waiting = {}
    <3>1. Waiting' = {}
      BY <1>2, <2>1 DEF NotifyOne, Waiting
    <3> QED BY <3>1 DEF EnoughAwake
  <2>2. CASE Waiting # {}
    <3>1. PICK g \in Waiting : getter' = [getter EXCEPT ![g] = "woken"]
      BY <1>2, <2>2 DEF NotifyOne
    <3>2. g \notin Awake /\ Awake' = Awake \cup {g}
      BY <3>1 DEF Waiting, Awake, TypeOK
    <3>3. Cardinality(Awake') = Cardinality(Awake) + 1
      BY <1>0, <3>2, FS_AddElement
    <3>4. p \in Notifying /\ Notifying' = Notifying \ {p}
      BY <1>2 DEF NotifyOne, Notifying, TypeOK
    <3>5. Cardinality(Notifying') = Cardinality(Notifying) - 1
      BY <1>0, <3>4, FS_RemoveElement
    <3>6. queue' = queue /\ running' = running
      BY <1>2 DEF NotifyOne
    <3> QED BY <1>0, <2>2, <3>3, <3>5, <3>6 DEF EnoughAwake
  <2> QED BY <2>1, <2>2
<1>3. ASSUME NEW g \in Getter, Enter(g) \/ Take(g) \/ ReturnFalse(g) \/ DecideToWait(g)
      PROVE EnoughAwake'
  <2>1. /\ Waiting' = Waiting /\ Awake' = Awake /\ Notifying' = Notifying
        /\ running' = running
    BY <1>3 DEF Enter, Take, ReturnFalse, DecideToWait, Waiting, Awake,
                Notifying, TypeOK
  <2>2. Len(queue') \in Nat /\ Len(queue') <= Len(queue)
    BY <1>3 DEF Enter, Take, ReturnFalse, DecideToWait, TypeOK
  <2> QED BY <1>0, <2>1, <2>2 DEF EnoughAwake
<1>4. ASSUME NEW g \in Getter, Leave(g) PROVE EnoughAwake'
  BY <1>4 DEF Leave, EnoughAwake
<1>5. ASSUME NEW g \in Getter, Park(g) PROVE EnoughAwake'
  <2>1. queue' = <<>>
    BY <1>5, CompletionPortAssumption DEF Park, TypeOK, ParkedSawNothing
  <2> QED BY <1>0, <2>1 DEF EnoughAwake
<1>6. ASSUME NEW g \in Getter, Expire(g) \/ WakeSpuriously(g) PROVE EnoughAwake'
  <2>1. g \in Waiting /\ g \notin Awake /\ Awake' = Awake \cup {g}
    BY <1>6 DEF Expire, WakeSpuriously, Waiting, Awake, TypeOK
  <2>2. Cardinality(Awake') = Cardinality(Awake) + 1
    BY <1>0, <2>1, FS_AddElement
  <2>3. queue' = queue /\ running' = running /\ Notifying' = Notifying
    BY <1>6 DEF Expire, WakeSpuriously, Notifying
  <2> QED BY <1>0, <2>1, <2>2, <2>3 DEF EnoughAwake
<1>7. CASE ClearFlag
  BY <1>7 DEF ClearFlag, EnoughAwake
<1>8. CASE NotifyAll
  <2>1. Waiting' = {}
    BY <1>8 DEF NotifyAll, Waiting
  <2> QED BY <2>1 DEF EnoughAwake
<1>9. CASE StoreShutdown \/ (\E p \in Poster : PostRefused(p)) \/ UNCHANGED vars
  <2>1. /\ queue' = queue /\ running' = running
        /\ Waiting' = Waiting /\ Awake' = Awake /\ Notifying' = Notifying
    BY <1>9 DEF StoreShutdown, PostRefused, vars, Waiting, Awake, Notifying
  <2> QED BY <2>1 DEF EnoughAwake
<1> QED
  BY <1>1, <1>2, <1>3, <1>4, <1>5, <1>6, <1>7, <1>8, <1>9 DEF Next, Get, Stop

-----------------------------------------------------------------------------
LEMMA Inductive == Spec => []IInv
<1>1. Init => IInv
  BY InitHolds
<1>2. IInv /\ [Next]_vars => IInv'
  BY TypeStep, ParkedStep, AwakeStep DEF IInv
<1> QED BY <1>1, <1>2, PTL DEF Spec

\* The port and its threads stay in the states VirtualIOCP knows, and m_mutex
\* is held by the getter that is about to block and nobody else.
THEOREM TypeCorrect == Spec => []TypeOK
<1>1. IInv => TypeOK
  BY DEF IInv
<1> QED BY <1>1, Inductive, PTL

\* PostStatus and GetStatus lose no wakeup: as long as the threads run, there
\* are never more events in the queue than threads that will look at it or
\* wake one that will, while another getter is blocked.
THEOREM NoPostIsSleptThrough == Spec => []EnoughAwake
<1>1. IInv => EnoughAwake
  BY DEF IInv
<1> QED BY <1>1, Inductive, PTL
-----------------------------------------------------------------------------
(* Where the events are.  NoneLostNoneTwice is not inductive: an event that*)
(* is posted must be a new one, so that the numbers of those in the queue  *)
(* and of those received never run ahead of posts.                         *)

\* The events of a poster are queued, and then received, in its order.
InOrder ==
  /\ \A i, j \in DOMAIN queue :
       i < j /\ queue[i].from = queue[j].from => queue[i].nr < queue[j].nr
  /\ \A e \in taken : \A i \in DOMAIN queue :
       e.from = queue[i].from => e.nr < queue[i].nr

Queued == {queue[i] : i \in DOMAIN queue}

\* What is queued or received was posted; until the shutdown, what was posted
\* is queued or received.
Accounted ==
  /\ \A e \in taken \cup Queued : e.nr <= posts[e.from]
  /\ ~ shutdown => {e \in Event : e.nr <= posts[e.from]} \subseteq taken \cup Queued

EInv == TypeOK /\ InOrder /\ Accounted

\* The queue as a function of its places.
LEMMA QueueIsAFunction ==
  ASSUME TypeOK
  PROVE  /\ Len(queue) \in Nat /\ DOMAIN queue = 1..Len(queue)
         /\ \A i \in 1..Len(queue) : queue[i] \in Event
         /\ \A e \in Event : e.from \in Poster /\ e.nr \in 1..MaxPosts
         /\ \A p \in Poster : posts[p] \in Nat
<1>1. Len(queue) \in Nat /\ DOMAIN queue = 1..Len(queue)
  BY DEF TypeOK
<1>2. \A i \in 1..Len(queue) : queue[i] \in Event
  BY DEF TypeOK
<1>3. \A e \in Event : e.from \in Poster /\ e.nr \in 1..MaxPosts
  BY DEF Event
<1>4. \A p \in Poster : posts[p] \in Nat
  BY CompletionPortAssumption DEF TypeOK
<1> QED BY <1>1, <1>2, <1>3, <1>4

\* Posting puts an event with a new number behind the others.
LEMMA PostAccounts ==
  ASSUME EInv, NEW p \in Poster, Post(p)
  PROVE  InOrder' /\ Accounted'
<1> DEFINE e == [from |-> p, nr |-> posts[p] + 1]
           len == Len(queue)
<1>1. /\ len \in Nat /\ DOMAIN queue = 1..len
      /\ \A i \in 1..len : queue[i] \in Event
      /\ \A f \in Event : f.from \in Poster /\ f.nr \in Nat
      /\ \A q \in Poster : posts[q] \in Nat
      /\ taken \subseteq Event
  BY QueueIsAFunction, CompletionPortAssumption DEF EInv, TypeOK
<1>2. e \in Event /\ e.from = p /\ e.nr = posts[p] + 1
  <2>1. posts[p] + 1 \in 1..MaxPosts
    BY <1>1, CompletionPortAssumption DEF Post
  <2> QED BY <2>1 DEF Event
<1>3. /\ queue' = Append(queue, e) /\ taken' = taken /\ shutdown' = shutdown
      /\ ~ shutdown
      /\ \A q \in Poster : posts'[q] = IF q = p THEN posts[p] + 1 ELSE posts[q]
  BY DEF Post, EInv, TypeOK
<1>4. /\ DOMAIN queue' = 1..(len + 1) /\ queue'[len + 1] = e
      /\ \A i \in 1..len : queue'[i] = queue[i]
  BY <1>1, <1>3, <1>2 DEF EInv, TypeOK
<1>5. \A f \in taken \cup Queued : f \in Event /\ f.nr <= posts[f.from]
  BY <1>1 DEF EInv, Accounted, Queued
<1> HIDE DEF e, len
<1>6. \A i \in 1..len : queue[i] \in Queued
  BY <1>1 DEF Queued
<1>7. InOrder'
  <2>1. ASSUME NEW i \in 1..(len + 1), NEW j \in 1..(len + 1), i < j,
               queue'[i].from = queue'[j].from
        PROVE  queue'[i].nr < queue'[j].nr
    <3>1. CASE j \in 1..len
      <4>1. i \in DOMAIN queue /\ j \in DOMAIN queue /\ queue[i].from = queue[j].from
        BY <1>1, <1>4, <2>1, <3>1
      <4>2. queue[i].nr < queue[j].nr
        BY <2>1, <4>1 DEF EInv, InOrder
      <4> QED BY <1>1, <1>4, <4>1, <4>2
    <3>2. CASE j = len + 1
      <4>1. i \in 1..len
        BY <1>1, <2>1, <3>2
      <4>2. queue[i].from = p /\ queue[i].nr <= posts[queue[i].from] /\ queue[i] \in Event
        BY <1>2, <1>4, <1>5, <1>6, <2>1, <3>2, <4>1
      <4> QED BY <1>1, <1>2, <1>4, <3>2, <4>1, <4>2
    <3> QED BY <1>1, <3>1, <3>2
  <2>2. ASSUME NEW f \in taken, NEW i \in 1..(len + 1), f.from = queue'[i].from
        PROVE  f.nr < queue'[i].nr
    <3>1. CASE i \in 1..len
      BY <1>1, <1>4, <2>2, <3>1 DEF EInv, InOrder
    <3>2. CASE i = len + 1
      BY <1>1, <1>2, <1>4, <1>5, <2>2, <3>2
    <3> QED BY <1>1, <3>1, <3>2
  <2> QED BY <1>3, <1>4, <2>1, <2>2 DEF InOrder
<1>8. Queued' = Queued \cup {e}
  <2>1. Queued' \subseteq Queued \cup {e}
    BY <1>1, <1>4 DEF Queued
  <2>2. Queued \cup {e} \subseteq Queued'
    BY <1>1, <1>4 DEF Queued
  <2> QED BY <2>1, <2>2
<1>9. \A f \in taken' \cup Queued' : f.nr <= posts'[f.from]
  BY <1>1, <1>2, <1>3, <1>5, <1>8
<1>10. ASSUME NEW f \in Event, f.nr <= posts'[f.from] PROVE f \in taken' \cup Queued'
  <2>1. CASE f.nr <= posts[f.from]
    BY <1>3, <1>8, <2>1 DEF EInv, Accounted
  <2>2. CASE ~ f.nr <= posts[f.from]
    <3>1. f.from = p /\ f.nr = posts[p] + 1
      BY <1>1, <1>3, <1>10, <2>2
    <3>2. f = [from |-> f.from, nr |-> f.nr]
      BY DEF Event
    <3>3. f = e
      BY <3>1, <3>2 DEF e
    <3> QED BY <1>8, <3>3
  <2> QED BY <2>1, <2>2
<1> QED BY <1>3, <1>7, <1>9, <1>10 DEF Accounted

\* Receiving moves the first event of the queue.
LEMMA TakeAccounts ==
  ASSUME EInv, NEW g \in Getter, Take(g)
  PROVE  InOrder' /\ Accounted'
<1> DEFINE len == Len(queue)
<1>1. /\ len \in Nat /\ DOMAIN queue = 1..len /\ len # 0
      /\ \A i \in 1..len : queue[i] \in Event
      /\ \A f \in Event : f.from \in Poster /\ f.nr \in Nat
      /\ taken \subseteq Event
  BY QueueIsAFunction, CompletionPortAssumption DEF EInv, TypeOK, Take
<1>2. /\ taken' = taken \cup {queue[1]} /\ posts' = posts /\ shutdown' = shutdown
      /\ DOMAIN queue' = 1..(len - 1)
      /\ \A i \in 1..(len - 1) : queue'[i] = queue[i + 1]
  BY <1>1 DEF Take, EInv, TypeOK
<1> HIDE DEF len
<1>3. InOrder'
  <2>1. ASSUME NEW i \in 1..(len - 1), NEW j \in 1..(len - 1), i < j,
               queue'[i].from = queue'[j].from
        PROVE  queue'[i].nr < queue'[j].nr
    <3>1. /\ i + 1 \in DOMAIN queue /\ j + 1 \in DOMAIN queue /\ i + 1 < j + 1
          /\ queue'[i] = queue[i + 1] /\ queue'[j] = queue[j + 1]
      BY <1>1, <1>2, <2>1
    <3>2. queue[i + 1].from = queue[j + 1].from
      BY <2>1, <3>1
    <3>3. queue[i + 1].nr < queue[j + 1].nr
      BY <3>1, <3>2 DEF EInv, InOrder
    <3> QED BY <3>1, <3>3
  <2>2. ASSUME NEW f \in taken', NEW i \in 1..(len - 1), f.from = queue'[i].from
        PROVE  f.nr < queue'[i].nr
    <3>1. 1 < i + 1 /\ i + 1 \in 1..len /\ 1 \in 1..len /\ queue'[i] = queue[i + 1]
      BY <1>1, <1>2
    <3>2. CASE f \in taken
      BY <1>1, <2>2, <3>1, <3>2 DEF EInv, InOrder
    <3>3. CASE f = queue[1]
      <4>1. queue[1].from = queue[i + 1].from
        BY <2>2, <3>1, <3>3
      <4>2. queue[1].nr < queue[i + 1].nr
        BY <1>1, <3>1, <4>1 DEF EInv, InOrder
      <4> QED BY <3>1, <3>3, <4>2
    <3> QED BY <1>2, <3>2, <3>3
  <2> QED BY <1>2, <2>1, <2>2 DEF InOrder
<1>4. taken' \cup Queued' = taken \cup Queued
  <2>1. taken' \cup Queued' \subseteq taken \cup Queued
    BY <1>1, <1>2 DEF Queued
  <2>2. ASSUME NEW i \in 1..len PROVE queue[i] \in taken' \cup Queued'
    <3>1. CASE i = 1
      BY <1>2, <3>1
    <3>2. CASE i # 1
      <4>1. i - 1 \in 1..(len - 1) /\ queue'[i - 1] = queue[i]
        BY <1>1, <1>2, <3>2
      <4> QED BY <1>2, <4>1 DEF Queued
    <3> QED BY <3>1, <3>2
  <2> QED BY <1>1, <1>2, <2>1, <2>2 DEF Queued
<1> QED BY <1>2, <1>3, <1>4 DEF EInv, Accounted

\* What the other steps change is not about events, but that a shutdown may
\* have come.
LEMMA OthersAccount ==
  ASSUME EInv, UNCHANGED <<queue, posts, taken>>, shutdown => shutdown'
  PROVE  InOrder' /\ Accounted'
  BY DEF EInv, InOrder, Accounted, Queued

\* After the shutdown posts counts what PostStatus refused as well.
LEMMA RefusalAccounts ==
  ASSUME EInv, NEW p \in Poster, PostRefused(p)
  PROVE  InOrder' /\ Accounted'
<1>1. /\ UNCHANGED <<queue, taken, shutdown>> /\ shutdown
      /\ \A q \in Poster : posts[q] \in Nat /\ posts'[q] >= posts[q]
  BY QueueIsAFunction DEF PostRefused, EInv, TypeOK
<1>2. InOrder' /\ Queued' = Queued
  BY <1>1 DEF EInv, InOrder, Queued
<1>3. ASSUME NEW e \in taken' \cup Queued' PROVE e.nr <= posts'[e.from]
  <2>1. e \in taken \cup Queued /\ e \in Event
    BY <1>1, <1>2, QueueIsAFunction DEF EInv, TypeOK, Queued
  <2>2. e.nr <= posts[e.from] /\ e.from \in Poster /\ e.nr \in Nat
    BY <2>1, CompletionPortAssumption DEF EInv, Accounted, Event
  <2>3. posts'[e.from] \in Nat
    BY <2>2 DEF PostRefused, EInv, TypeOK
  <2> QED BY <1>1, <2>2, <2>3
<1> QED BY <1>1, <1>2, <1>3 DEF Accounted

LEMMA EventsInvariant == Spec => []EInv
<1>1. Init => InOrder /\ Accounted
  <2> SUFFICES ASSUME Init PROVE InOrder /\ Accounted
    OBVIOUS
  <2>1. queue = <<>> /\ taken = {} /\ DOMAIN queue = {} /\ Queued = {}
    BY DEF Init, Queued
  <2>2. \A e \in Event : ~ e.nr <= posts[e.from]
    BY CompletionPortAssumption DEF Init, Event
  <2> QED BY <2>1, <2>2 DEF InOrder, Accounted
<1>2. TypeOK /\ TypeOK' /\ InOrder /\ Accounted /\ [Next]_vars => InOrder' /\ Accounted'
  <2> SUFFICES ASSUME EInv, [Next]_vars PROVE InOrder' /\ Accounted'
    BY DEF EInv
  <2>1. ASSUME NEW p \in Poster, Post(p) PROVE InOrder' /\ Accounted'
    BY <2>1, PostAccounts
  <2>2. ASSUME NEW p \in Poster, PostRefused(p) PROVE InOrder' /\ Accounted'
    BY <2>2, RefusalAccounts
  <2>3. ASSUME NEW p \in Poster, NotifyOne(p) PROVE InOrder' /\ Accounted'
    BY <2>3, OthersAccount DEF NotifyOne
  <2>4. ASSUME NEW g \in Getter, Take(g) PROVE InOrder' /\ Accounted'
    BY <2>4, TakeAccounts
  <2>5. ASSUME NEW g \in Getter,
               Enter(g) \/ Leave(g) \/ ReturnFalse(g) \/ DecideToWait(g) \/ Park(g)
                 \/ Expire(g) \/ WakeSpuriously(g)
        PROVE  InOrder' /\ Accounted'
    BY <2>5, OthersAccount
    DEF Enter, Leave, ReturnFalse, DecideToWait, Park, Expire, WakeSpuriously
  <2>6. CASE Stop
    BY <2>6, OthersAccount DEF Stop, ClearFlag, StoreShutdown, NotifyAll
  <2>7. CASE UNCHANGED vars
    BY <2>7, OthersAccount DEF vars
  <2> QED BY <2>1, <2>2, <2>3, <2>4, <2>5, <2>6, <2>7 DEF Next, Get
<1>3. IInv => TypeOK
  BY DEF IInv
<1> QED BY <1>1, <1>2, <1>3, Inductive, PTL DEF Spec, EInv

\* Two GetStatus, or one after a spurious wakeup, never receive the events of a
\* poster in another order than its calls of PostStatus: a program that sends
\* two packets has them numbered and sent in that order.
THEOREM EventsStayInOrder == Spec => []InOrder
<1>1. EInv => InOrder
  BY DEF EInv
<1> QED BY <1>1, EventsInvariant, PTL

\* VirtualIOCP loses no event and gives none to two threads: while the port is
\* open what was posted is in the queue once or was received.
THEOREM NoEventIsLostOrDoubled == Spec => []NoneLostNoneTwice
<1>1. EInv => NoneLostNoneTwice
  <2> SUFFICES ASSUME EInv PROVE NoneLostNoneTwice
    OBVIOUS
  <2>1. /\ Len(queue) \in Nat /\ DOMAIN queue = 1..Len(queue)
        /\ \A i \in DOMAIN queue : queue[i] \in Event /\ queue[i].nr \in Nat
        /\ taken \subseteq Event
    BY QueueIsAFunction DEF EInv, TypeOK
  <2>2. \A i, j \in DOMAIN queue : queue[i] = queue[j] => i = j
    <3> SUFFICES ASSUME NEW i \in DOMAIN queue, NEW j \in DOMAIN queue,
                        queue[i] = queue[j], i < j
                 PROVE  FALSE
      BY <2>1
    <3> QED BY <2>1 DEF EInv, InOrder
  <2>3. \A i \in DOMAIN queue : queue[i] \notin taken
    BY <2>1 DEF EInv, InOrder
  <2>4. ~ shutdown =>
          {e \in Event : e.nr <= posts[e.from]} = taken \cup Queued
    <3>1. taken \cup Queued \subseteq {e \in Event : e.nr <= posts[e.from]}
      BY <2>1 DEF EInv, Accounted, Queued
    <3> QED BY <3>1 DEF EInv, Accounted
  <2> QED BY <2>2, <2>3, <2>4 DEF NoneLostNoneTwice, Queued
<1> QED BY <1>1, EventsInvariant, PTL
=============================================================================
