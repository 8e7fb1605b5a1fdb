---------------------------- MODULE CompletionPort ----------------------------
(***************************************************************************)
(* VirtualIOCP: a completion port of Windows rebuilt from a mutex, a       *)
(* condition variable, a queue and an atomic flag.  It links the threads   *)
(* of a CommCenter: posters put packets in, a getter is a thread that runs *)
(* "while (bUDPxxxThread) GetQueuedCompletionStatus(...)", and ~CCommCenter*)
(* stops them: it clears the thread's flag, then calls CancelIo.           *)
(*                                                                         *)
(* A critical section is one step unless somebody can interfere: only      *)
(* shutdown() does not take the mutex, so the one moment that matters is   *)
(* between the test of a waiter and its going to sleep.                    *)
(***************************************************************************)
EXTENDS Naturals, Sequences, FiniteSets

CONSTANTS
  Poster,      \* threads that call PostStatus
  Getter,      \* threads that loop on GetStatus
  Nobody,      \* the mutex is free
  WaitsEnd,    \* TRUE: NM_WAIT_IO is finite; FALSE: it is INFINITE
  MaxPosts     \* bound: calls of PostStatus per poster

ASSUME CompletionPortAssumption ==
  /\ IsFiniteSet(Poster) /\ IsFiniteSet(Getter)
  /\ Nobody \notin Getter
  /\ WaitsEnd \in BOOLEAN
  /\ MaxPosts \in Nat

VARIABLES
  queue,      \* m_queue
  mutex,      \* the getter that holds m_mutex from one step to the next
  shutdown,   \* m_shutdown
  running,    \* bUDPxxxThread
  stopper,    \* how far the destructor is
  getter,     \* where each getter is
  poster,     \* where each poster is
  posts,      \* events each poster has posted
  taken       \* events the getters have received

vars == <<queue, mutex, shutdown, running, stopper, getter, poster, posts, taken>>

Event == [from : Poster, nr : 1..MaxPosts]

Init ==
  /\ queue = <<>>
  /\ mutex = Nobody
  /\ shutdown = FALSE
  /\ running = TRUE
  /\ stopper = "idle"
  /\ getter = [g \in Getter |-> "loop"]
  /\ poster = [p \in Poster |-> "idle"]
  /\ posts = [p \in Poster |-> 0]
  /\ taken = {}

-----------------------------------------------------------------------------
(* PostStatus.                                                             *)

Post(p) ==
  /\ poster[p] = "idle" /\ posts[p] < MaxPosts
  /\ mutex = Nobody
  /\ ~ shutdown
  /\ posts' = [posts EXCEPT ![p] = @ + 1]
  /\ queue' = Append(queue, [from |-> p, nr |-> posts[p] + 1])
  /\ poster' = [poster EXCEPT ![p] = "notify"]
  /\ UNCHANGED <<mutex, shutdown, running, stopper, getter, taken>>

\* After a shutdown nothing is queued: the caller of PostStatus never looks at
\* the result, so that its packet is lost.
PostRefused(p) ==
  /\ poster[p] = "idle" /\ posts[p] < MaxPosts
  /\ mutex = Nobody
  /\ shutdown
  /\ posts' = [posts EXCEPT ![p] = @ + 1]
  /\ UNCHANGED <<queue, mutex, shutdown, running, stopper, getter, poster, taken>>

Waiting == {g \in Getter : getter[g] = "wait"}

\* Deviation: the notification is forgotten.
NotifyNobody(p) ==
  /\ poster[p] = "notify"
  /\ poster' = [poster EXCEPT ![p] = "idle"]
  /\ UNCHANGED <<queue, mutex, shutdown, running, stopper, getter, posts, taken>>

\* notify_one, after the mutex was released.
NotifyOne(p) ==
  /\ poster[p] = "notify"
  /\ poster' = [poster EXCEPT ![p] = "idle"]
  /\ IF Waiting = {}
     THEN UNCHANGED getter
     ELSE \E g \in Waiting : getter' = [getter EXCEPT ![g] = "woken"]
  /\ UNCHANGED <<queue, mutex, shutdown, running, stopper, posts, taken>>

-----------------------------------------------------------------------------
(* The loop of a getter, and GetStatus.                                    *)

Enter(g) ==
  /\ getter[g] = "loop" /\ running
  /\ getter' = [getter EXCEPT ![g] = "calling"]
  /\ UNCHANGED <<queue, mutex, shutdown, running, stopper, poster, posts, taken>>

Leave(g) ==
  /\ getter[g] = "loop" /\ ~ running
  /\ getter' = [getter EXCEPT ![g] = "stopped"]
  /\ UNCHANGED <<queue, mutex, shutdown, running, stopper, poster, posts, taken>>

\* Deviation: the event stays in the queue.
TakeCopy(g) ==
  /\ getter[g] \in {"calling", "woken", "expired"}
  /\ mutex = Nobody
  /\ queue # <<>>
  /\ taken' = taken \cup {Head(queue)}
  /\ getter' = [getter EXCEPT ![g] = "loop"]
  /\ UNCHANGED <<queue, mutex, shutdown, running, stopper, poster, posts>>

\* An event there is is returned, even after a shutdown or a timeout.
Take(g) ==
  /\ getter[g] \in {"calling", "woken", "expired"}
  /\ mutex = Nobody
  /\ queue # <<>>
  /\ queue' = Tail(queue)
  /\ taken' = taken \cup {Head(queue)}
  /\ getter' = [getter EXCEPT ![g] = "loop"]
  /\ UNCHANGED <<mutex, shutdown, running, stopper, poster, posts>>

\* Deviation: the thread ends when GetStatus returns false.
ReturnFalseAndStop(g) ==
  /\ getter[g] \in {"calling", "woken", "expired"}
  /\ mutex = Nobody
  /\ queue = <<>>
  /\ shutdown \/ getter[g] = "expired"
  /\ getter' = [getter EXCEPT ![g] = "stopped"]
  /\ UNCHANGED <<queue, mutex, shutdown, running, stopper, poster, posts, taken>>

\* T4C_ERROR_OPERATION_ABORTED or T4C_WAIT_TIMEOUT.
ReturnFalse(g) ==
  /\ getter[g] \in {"calling", "woken", "expired"}
  /\ mutex = Nobody
  /\ queue = <<>>
  /\ shutdown \/ getter[g] = "expired"
  /\ getter' = [getter EXCEPT ![g] = "loop"]
  /\ UNCHANGED <<queue, mutex, shutdown, running, stopper, poster, posts, taken>>

\* The predicate of the wait is false: the getter is about to block.
DecideToWait(g) ==
  /\ getter[g] \in {"calling", "woken"}
  /\ mutex = Nobody
  /\ queue = <<>> /\ ~ shutdown
  /\ mutex' = g
  /\ getter' = [getter EXCEPT ![g] = "park"]
  /\ UNCHANGED <<queue, shutdown, running, stopper, poster, posts, taken>>

\* Blocks and releases the mutex.
Park(g) ==
  /\ getter[g] = "park"
  /\ mutex' = Nobody
  /\ getter' = [getter EXCEPT ![g] = "wait"]
  /\ UNCHANGED <<queue, shutdown, running, stopper, poster, posts, taken>>

\* Deviation: wait instead of wait_until.
ExpireNever(g) == FALSE /\ UNCHANGED vars /\ g \in Getter

Expire(g) ==
  /\ WaitsEnd
  /\ getter[g] = "wait"
  /\ getter' = [getter EXCEPT ![g] = "expired"]
  /\ UNCHANGED <<queue, mutex, shutdown, running, stopper, poster, posts, taken>>

\* A condition variable may wake a waiter for no reason.
WakeSpuriously(g) ==
  /\ getter[g] = "wait"
  /\ getter' = [getter EXCEPT ![g] = "woken"]
  /\ UNCHANGED <<queue, mutex, shutdown, running, stopper, poster, posts, taken>>

-----------------------------------------------------------------------------
(* ~CCommCenter: the flag of the thread, then CancelIo: shutdown().        *)

ClearFlag ==
  /\ stopper = "idle"
  /\ stopper' = "cancel"
  /\ running' = FALSE
  /\ UNCHANGED <<queue, mutex, shutdown, getter, poster, posts, taken>>

StoreShutdown ==
  /\ stopper = "cancel"
  /\ stopper' = "notify"
  /\ shutdown' = TRUE
  /\ UNCHANGED <<queue, mutex, running, getter, poster, posts, taken>>

\* notify_all, without the mutex.
NotifyAll ==
  /\ stopper = "notify"
  /\ stopper' = "done"
  /\ getter' = [g \in Getter |-> IF g \in Waiting THEN "woken" ELSE getter[g]]
  /\ UNCHANGED <<queue, mutex, shutdown, running, poster, posts, taken>>

-----------------------------------------------------------------------------
\* What a getter does by itself, spurious wakeups apart.
Get(g) ==
  Enter(g) \/ Leave(g) \/ Take(g) \/ ReturnFalse(g) \/ DecideToWait(g) \/ Park(g)

Stop == ClearFlag \/ StoreShutdown \/ NotifyAll

Next ==
  \/ \E p \in Poster : Post(p) \/ PostRefused(p) \/ NotifyOne(p)
  \/ \E g \in Getter : Get(g) \/ Expire(g) \/ WakeSpuriously(g)
  \/ Stop

Spec == Init /\ [][Next]_vars

\* Threads that can run do run, and a wait that ends ends.
FairSpec ==
  /\ Spec
  /\ \A g \in Getter : WF_vars(Get(g)) /\ WF_vars(Expire(g))
  /\ \A p \in Poster : WF_vars(NotifyOne(p))
  /\ WF_vars(StoreShutdown) /\ WF_vars(NotifyAll)

-----------------------------------------------------------------------------
\* The port and its threads are in one of the states above; the mutex is held
\* across steps by exactly the getter that is about to block.
TypeOK ==
  /\ queue \in Seq(Event)
  /\ mutex \in Getter \cup {Nobody}
  /\ shutdown \in BOOLEAN
  /\ running \in BOOLEAN
  /\ stopper \in {"idle", "cancel", "notify", "done"}
  /\ getter \in [Getter -> {"loop", "calling", "park", "wait", "woken",
                            "expired", "stopped"}]
  /\ poster \in [Poster -> {"idle", "notify"}]
  /\ posts \in [Poster -> 0..MaxPosts]
  /\ taken \subseteq Event
  /\ \A g \in Getter : mutex = g <=> getter[g] = "park"

Awake == {g \in Getter : getter[g] \notin {"wait", "stopped"}}
Notifying == {p \in Poster : poster[p] = "notify"}

\* No getter sleeps through a post: while one is blocked there are as many
\* threads that will still look at the queue, or are about to wake one that
\* will, as there are events.
EnoughAwake ==
  running /\ Waiting # {} =>
    Len(queue) <= Cardinality(Awake) + Cardinality(Notifying)

\* Every event is received once: none is received twice, none disappears.
NoneLostNoneTwice ==
  /\ \A i, j \in DOMAIN queue : queue[i] = queue[j] => i = j
  /\ \A i \in DOMAIN queue : queue[i] \notin taken
  /\ ~ shutdown =>
       {e \in Event : e.nr <= posts[e.from]} =
         taken \cup {queue[i] : i \in DOMAIN queue}

\* Every posted event is received, unless the threads are being stopped.
EveryPostIsServed ==
  \A e \in Event : e.nr <= posts[e.from] ~> e \in taken \/ ~ running

\* Once the destructor has begun, every getter leaves its loop.
GettersStop == ~ running ~> \A g \in Getter : getter[g] = "stopped"

\* shutdown() wakes all waiters: when it has returned, none is still blocked.
ShutdownWakesAll == stopper = "done" => Waiting = {}
=============================================================================
