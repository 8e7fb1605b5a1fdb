-------------------------- MODULE LoginSessionProofs --------------------------
(***************************************************************************)
(* Proofs about the login session, for any number of sessions and replies: *)
(* the version packet is sent at most once and only after an acceptance,   *)
(* and a finished pipeline was accepted twice by the server of that very   *)
(* session.                                                                *)
(***************************************************************************)
EXTENDS LoginSession, TLAPS

AccountOK == [op |-> 14, ok |-> TRUE]
VersionOK == [op |-> 99, ok |-> TRUE]

\* Where the UI thread is while a published session may be running.
Running == {"ui", "start", "restart", "quit"}
\* Where it stops one.
Stopping == {"join", "join quit"}

Types ==
  /\ main \in Running \cup Stopping
               \cup {"create", "resolve", "publish", "join fail", "done"}
  /\ thread \in {"none", "get", "accepted", "sent", "verified", "list"}
  /\ g_sessionMutex = IF main \in {"ui", "done"} THEN "nobody" ELSE "main"
  /\ sessions \in 0..MaxSessions
  /\ g_comm \in {0, sessions}
  /\ g_serverAddr \in 0..MaxSessions
  /\ g_pipelineStep \in 0..3
  /\ listening \in BOOLEAN /\ g_successAlreadyShown \in BOOLEAN
  /\ g_pendingSuccessDialog \in BOOLEAN
  /\ inbox \in Seq(Reply)
  /\ replies \in [Session -> Seq(Reply)]
  /\ auths \in [Session -> Nat]
  /\ registered \subseteq Session /\ accepts \subseteq Session

\* There is a CCommCenter, or none, where the UI thread is.
Phases ==
  /\ main \in {"start", "restart", "join", "create"} => sessions < MaxSessions
  /\ main \in {"create", "done"} => g_comm = 0 /\ thread = "none"
  /\ main \in {"resolve", "publish", "join fail"} => g_comm # 0
  /\ thread # "none" => g_comm # 0
  /\ g_comm # 0 /\ main \in Running \cup Stopping => g_serverAddr = g_comm

\* Nothing is known of a session that has not started.
Unborn ==
  \A n \in Session : n > sessions =>
    auths[n] = 0 /\ n \notin registered /\ n \notin accepts /\ replies[n] = <<>>

\* A session that is not yet published has heard nothing the callback acts on.
Unpublished ==
  main \in {"resolve", "publish", "join fail"} =>
    auths[g_comm] = 0 /\ g_pipelineStep # 1 /\ thread \in {"none", "get"}

\* The step is 1 from the publication until the version packet was sent.
StepOne ==
  g_pipelineStep = 1 =>
    /\ main \in Running /\ g_comm # 0
    /\ auths[g_comm] > 0 => thread = "sent"

\* What the callback does between its load and its store.
Answering ==
  /\ thread = "accepted" => g_comm \in accepts /\ auths[g_comm] = 0
  /\ thread = "sent" => g_comm \in accepts /\ auths[g_comm] = 1

\* The replies the callback has taken from the inbox.
Handled(n) == Len(replies[n]) - Len(inbox)

\* The inbox is what is left of the replies of this session.
InboxIsLeft ==
  /\ g_comm = 0 => inbox = <<>>
  /\ g_comm # 0 =>
       /\ Len(inbox) <= Len(replies[g_comm])
       /\ \A i \in DOMAIN inbox : inbox[i] = replies[g_comm][Handled(g_comm) + i]

\* A verdict about the version, and the list, come only after the packet that
\* asks for them.
RepliesWereAsked ==
  \A n \in Session : \A i \in DOMAIN replies[n] :
    replies[n][i].op \in {99, 26} => auths[n] > 0

\* An acceptance that was read is among the replies handled.
AcceptWasHandled ==
  g_comm # 0 /\ g_comm \in accepts =>
    \E i \in DOMAIN replies[g_comm] :
      i <= Handled(g_comm) /\ replies[g_comm][i] = AccountOK

AcceptedTwice ==
  \E i, j \in DOMAIN replies[g_comm] :
    i < j /\ replies[g_comm][i] = AccountOK /\ replies[g_comm][j] = VersionOK

\* The callback stores step 3, and it stays, for a session accepted twice.
Finishing ==
  /\ thread = "verified" => AcceptedTwice
  /\ main \in Running /\ g_comm # 0 /\ g_pipelineStep = 3 => AcceptedTwice

IInv ==
  /\ Types /\ Phases /\ Unborn /\ Unpublished /\ StepOne /\ Answering
  /\ AuthenticatesOnce
  /\ InboxIsLeft /\ RepliesWereAsked /\ AcceptWasHandled /\ Finishing

-----------------------------------------------------------------------------
(* The steps of the UI thread.                                             *)

LEMMA InitHolds == Init => IInv
<1> SUFFICES ASSUME Init PROVE IInv
  OBVIOUS
<1> USE LoginSessionAssumption DEF Session, Running
<1>1. /\ main = "ui" /\ thread = "none" /\ g_sessionMutex = "nobody"
      /\ g_comm = 0 /\ g_pipelineStep = 0 /\ g_serverAddr = 0 /\ sessions = 0
      /\ inbox = <<>> /\ registered = {} /\ accepts = {}
      /\ replies = [n \in 1..MaxSessions |-> <<>>] /\ auths = [n \in 1..MaxSessions |-> 0]
  BY DEF Init
<1>2. Types
  BY <1>1 DEF Init, Types
<1>3. Phases /\ Unborn /\ Unpublished /\ StepOne /\ Answering /\ AuthenticatesOnce
  BY <1>1 DEF Phases, Unborn, Unpublished, StepOne, Answering, AuthenticatesOnce
<1>4. InboxIsLeft /\ RepliesWereAsked /\ AcceptWasHandled /\ Finishing
  BY <1>1 DEF InboxIsLeft, RepliesWereAsked, AcceptWasHandled, Finishing
<1> QED BY <1>2, <1>3, <1>4 DEF IInv

\* The mutex is taken; the old session still runs.
LEMMA StartSessionStep == ASSUME IInv, StartSession PROVE IInv'
<1> USE LoginSessionAssumption DEF IInv, StartSession, shared, history, Session, Running, Stopping
<1>1. Types'
  BY DEF Types, Phases
<1>2. Phases' /\ Unborn' /\ Unpublished'
  BY DEF Types, Phases, Unborn, Unpublished, StepOne, RepliesWereAsked
<1>3. StepOne' /\ Answering' /\ AuthenticatesOnce'
  BY DEF Types, Phases, Unpublished, StepOne, Answering, AuthenticatesOnce
<1>4. InboxIsLeft' /\ RepliesWereAsked'
  BY DEF Types, Phases, Unborn, InboxIsLeft, RepliesWereAsked, Handled
<1>5. AcceptWasHandled' /\ Finishing'
  BY DEF Types, Phases, Unborn, StepOne, InboxIsLeft, AcceptWasHandled, Finishing, Handled,
         AcceptedTwice
<1> QED BY <1>1, <1>2, <1>3, <1>4, <1>5

\* Only the flag of the dialog changes.
LEMMA ClearPendingDialogStep == ASSUME IInv, ClearPendingDialog PROVE IInv'
<1> USE LoginSessionAssumption DEF IInv, ClearPendingDialog, shared, history, Session, Running, Stopping
<1>1. Types'
  BY DEF Types, Phases
<1>2. Phases' /\ Unborn' /\ Unpublished'
  BY DEF Types, Phases, Unborn, Unpublished, StepOne, RepliesWereAsked
<1>3. StepOne' /\ Answering' /\ AuthenticatesOnce'
  BY DEF Types, Phases, Unpublished, StepOne, Answering, AuthenticatesOnce
<1>4. InboxIsLeft' /\ RepliesWereAsked'
  BY DEF Types, Phases, Unborn, InboxIsLeft, RepliesWereAsked, Handled
<1>5. AcceptWasHandled' /\ Finishing'
  BY DEF Types, Phases, Unborn, StepOne, InboxIsLeft, AcceptWasHandled, Finishing, Handled,
         AcceptedTwice
<1> QED BY <1>1, <1>2, <1>3, <1>4, <1>5

\* The step is reset; a callback that is under way goes on.
LEMMA ShutdownUnlockedStep == ASSUME IInv, ShutdownUnlocked PROVE IInv'
<1> USE LoginSessionAssumption DEF IInv, Session, Running, Stopping
<1>1. g_pipelineStep' = 0
  BY DEF ShutdownUnlocked
<1>2. /\ main \in {"restart", "quit"}
      /\ main' = IF main = "quit" THEN "join quit" ELSE "join"
      /\ UNCHANGED <<thread, inbox, sessions, replies, registered, auths, accepts,
                     g_sessionMutex, g_comm, g_serverAddr>>
  BY DEF ShutdownUnlocked, history
<1>3. g_pipelineStep' \in 0..3 /\ StepOne'
  BY <1>1 DEF StepOne
<1>4. Types'
  BY <1>2, <1>3 DEF ShutdownUnlocked, Types
<1>5. Phases' /\ Unborn' /\ Unpublished'
  BY <1>2 DEF Phases, Unborn, Unpublished, Types
<1>6. Answering' /\ AuthenticatesOnce'
  BY <1>2 DEF Answering, AuthenticatesOnce
<1>7. InboxIsLeft' /\ RepliesWereAsked' /\ AcceptWasHandled'
  BY <1>2 DEF InboxIsLeft, RepliesWereAsked, AcceptWasHandled, Handled
<1>8. Finishing'
  BY <1>2 DEF Finishing, AcceptedTwice
<1> QED BY <1>3, <1>4, <1>5, <1>6, <1>7, <1>8

\* The join ends without a callback: nothing is left of the session.
LEMMA JoinThreadsStep == ASSUME IInv, JoinThreads PROVE IInv'
<1> USE LoginSessionAssumption DEF IInv, Session, Running, Stopping
<1>1. /\ thread = "none" /\ g_comm' = 0 /\ inbox' = <<>>
      /\ <<main, main'>> \in {<<"join", "create">>, <<"join fail", "ui">>, <<"join quit", "done">>}
      /\ g_sessionMutex' = IF main' \in {"ui", "done"} THEN "nobody" ELSE "main"
      /\ UNCHANGED <<thread, sessions, replies, registered, auths, accepts,
                     g_pipelineStep, g_serverAddr>>
  BY DEF JoinThreads, Joined, history, Types
<1>2. UNCHANGED <<listening, g_successAlreadyShown, g_pendingSuccessDialog>>
  BY DEF JoinThreads, Joined
<1>8. main' \in {"ui", "create", "done"} /\ g_comm' \in {0, sessions'}
  BY <1>1
<1>11. <<>> \in Seq(Reply)
  OBVIOUS
<1>10. inbox' \in Seq(Reply)
  BY <1>1, <1>11, Zenon
<1>9. /\ UNCHANGED <<thread, sessions, replies, registered, auths, accepts,
                     g_pipelineStep, g_serverAddr>>
      /\ g_sessionMutex' = IF main' \in {"ui", "done"} THEN "nobody" ELSE "main"
  BY <1>1
<1>3. Types'
  BY <1>2, <1>8, <1>9, <1>10 DEF Types
<1>4. Phases' /\ Unborn' /\ Unpublished'
  BY <1>1 DEF Types, Phases, Unborn, Unpublished
<1>5. StepOne' /\ Answering' /\ AuthenticatesOnce'
  BY <1>1 DEF Types, StepOne, Answering, AuthenticatesOnce
<1>6. InboxIsLeft' /\ RepliesWereAsked'
  BY <1>1 DEF InboxIsLeft, RepliesWereAsked
<1>7. AcceptWasHandled' /\ Finishing'
  BY <1>1 DEF AcceptWasHandled, Finishing
<1> QED BY <1>3, <1>4, <1>5, <1>6, <1>7

\* Without a CCommCenter there is nothing to keep.
LEMMA StartFailsStep == ASSUME IInv, StartFails PROVE IInv'
<1> USE LoginSessionAssumption DEF IInv, StartFails, shared, history, Session, Running, Stopping
<1>1. Types'
  BY DEF Types, Phases
<1>2. Phases' /\ Unborn' /\ Unpublished'
  BY DEF Types, Phases, Unborn, Unpublished, StepOne, RepliesWereAsked
<1>3. StepOne' /\ Answering' /\ AuthenticatesOnce'
  BY DEF Types, Phases, Unpublished, StepOne, Answering, AuthenticatesOnce
<1>4. InboxIsLeft' /\ RepliesWereAsked'
  BY DEF Types, Phases, Unborn, InboxIsLeft, RepliesWereAsked, Handled
<1>5. AcceptWasHandled' /\ Finishing'
  BY DEF Types, Phases, Unborn, StepOne, InboxIsLeft, AcceptWasHandled, Finishing, Handled,
         AcceptedTwice
<1> QED BY <1>1, <1>2, <1>3, <1>4, <1>5

\* The new session has no step, no replies and no callback under way.
LEMMA CreateCommCenterStep == ASSUME IInv, CreateCommCenter PROVE IInv'
<1> USE LoginSessionAssumption DEF IInv, CreateCommCenter, shared, history, Session, Running, Stopping
<1>1. Types'
  BY DEF Types, Phases
<1>2. Phases' /\ Unborn' /\ Unpublished'
  BY DEF Types, Phases, Unborn, Unpublished, StepOne, RepliesWereAsked
<1>3. StepOne' /\ Answering' /\ AuthenticatesOnce'
  BY DEF Types, Phases, Unpublished, StepOne, Answering, AuthenticatesOnce
<1>4. InboxIsLeft' /\ RepliesWereAsked'
  BY DEF Types, Phases, Unborn, InboxIsLeft, RepliesWereAsked, Handled
<1>5. AcceptWasHandled' /\ Finishing'
  BY DEF Types, Phases, Unborn, StepOne, InboxIsLeft, AcceptWasHandled, Finishing, Handled,
         AcceptedTwice
<1> QED BY <1>1, <1>2, <1>3, <1>4, <1>5

\* The session that is not published is stopped.
LEMMA ResolveFailsStep == ASSUME IInv, ResolveFails PROVE IInv'
<1> USE LoginSessionAssumption DEF IInv, ResolveFails, shared, history, Session, Running, Stopping
<1>1. Types'
  BY DEF Types, Phases
<1>2. Phases' /\ Unborn' /\ Unpublished'
  BY DEF Types, Phases, Unborn, Unpublished, StepOne, RepliesWereAsked
<1>3. StepOne' /\ Answering' /\ AuthenticatesOnce'
  BY DEF Types, Phases, Unpublished, StepOne, Answering, AuthenticatesOnce
<1>4. InboxIsLeft' /\ RepliesWereAsked'
  BY DEF Types, Phases, Unborn, InboxIsLeft, RepliesWereAsked, Handled
<1>5. AcceptWasHandled' /\ Finishing'
  BY DEF Types, Phases, Unborn, StepOne, InboxIsLeft, AcceptWasHandled, Finishing, Handled,
         AcceptedTwice
<1> QED BY <1>1, <1>2, <1>3, <1>4, <1>5

\* The request changes nothing the callback looks at.
LEMMA SendRegisterStep == ASSUME IInv, SendRegister PROVE IInv'
<1> USE LoginSessionAssumption DEF IInv, SendRegister, shared, history, Session, Running, Stopping
<1>1. Types'
  BY DEF Types, Phases
<1>2. Phases' /\ Unborn' /\ Unpublished'
  BY DEF Types, Phases, Unborn, Unpublished, StepOne, RepliesWereAsked
<1>3. StepOne' /\ Answering' /\ AuthenticatesOnce'
  BY DEF Types, Phases, Unpublished, StepOne, Answering, AuthenticatesOnce
<1>4. InboxIsLeft' /\ RepliesWereAsked'
  BY DEF Types, Phases, Unborn, InboxIsLeft, RepliesWereAsked, Handled
<1>5. AcceptWasHandled' /\ Finishing'
  BY DEF Types, Phases, Unborn, StepOne, InboxIsLeft, AcceptWasHandled, Finishing, Handled,
         AcceptedTwice
<1> QED BY <1>1, <1>2, <1>3, <1>4, <1>5

\* The step becomes 1 for a session that was never asked about its version.
LEMMA PublishStepStep == ASSUME IInv, PublishStep PROVE IInv'
<1> USE LoginSessionAssumption DEF IInv, PublishStep, shared, history, Session, Running, Stopping
<1>1. Types'
  BY DEF Types, Phases
<1>2. Phases' /\ Unborn' /\ Unpublished'
  BY DEF Types, Phases, Unborn, Unpublished, StepOne, RepliesWereAsked
<1>3. StepOne' /\ Answering' /\ AuthenticatesOnce'
  BY DEF Types, Phases, Unpublished, StepOne, Answering, AuthenticatesOnce
<1>4. InboxIsLeft' /\ RepliesWereAsked'
  BY DEF Types, Phases, Unborn, InboxIsLeft, RepliesWereAsked, Handled
<1>5. AcceptWasHandled' /\ Finishing'
  BY DEF Types, Phases, Unborn, StepOne, InboxIsLeft, AcceptWasHandled, Finishing, Handled,
         AcceptedTwice
<1> QED BY <1>1, <1>2, <1>3, <1>4, <1>5

\* The mutex is taken; the session still runs.
LEMMA QuitStep == ASSUME IInv, Quit PROVE IInv'
<1> USE LoginSessionAssumption DEF IInv, Quit, shared, history, Session, Running, Stopping
<1>1. Types'
  BY DEF Types, Phases
<1>2. Phases' /\ Unborn' /\ Unpublished'
  BY DEF Types, Phases, Unborn, Unpublished, StepOne, RepliesWereAsked
<1>3. StepOne' /\ Answering' /\ AuthenticatesOnce'
  BY DEF Types, Phases, Unpublished, StepOne, Answering, AuthenticatesOnce
<1>4. InboxIsLeft' /\ RepliesWereAsked'
  BY DEF Types, Phases, Unborn, InboxIsLeft, RepliesWereAsked, Handled
<1>5. AcceptWasHandled' /\ Finishing'
  BY DEF Types, Phases, Unborn, StepOne, InboxIsLeft, AcceptWasHandled, Finishing, Handled,
         AcceptedTwice
<1> QED BY <1>1, <1>2, <1>3, <1>4, <1>5

\* Only the flag of the dialog changes.
LEMMA ConsumeSuccessDialogStep == ASSUME IInv, ConsumeSuccessDialog PROVE IInv'
<1> USE LoginSessionAssumption DEF IInv, ConsumeSuccessDialog, shared, history, Session, Running, Stopping
<1>1. Types'
  BY DEF Types, Phases
<1>2. Phases' /\ Unborn' /\ Unpublished'
  BY DEF Types, Phases, Unborn, Unpublished, StepOne, RepliesWereAsked
<1>3. StepOne' /\ Answering' /\ AuthenticatesOnce'
  BY DEF Types, Phases, Unpublished, StepOne, Answering, AuthenticatesOnce
<1>4. InboxIsLeft' /\ RepliesWereAsked'
  BY DEF Types, Phases, Unborn, InboxIsLeft, RepliesWereAsked, Handled
<1>5. AcceptWasHandled' /\ Finishing'
  BY DEF Types, Phases, Unborn, StepOne, InboxIsLeft, AcceptWasHandled, Finishing, Handled,
         AcceptedTwice
<1> QED BY <1>1, <1>2, <1>3, <1>4, <1>5

-----------------------------------------------------------------------------
(* The steps of the callback.                                              *)

\* Taking a packet: it was sent in this session and is the next to be handled.
LEMMA PacketTaken ==
  ASSUME IInv, NEW r \in Reply, NextPacket(r),
         UNCHANGED <<g_comm, replies, sessions>>
  PROVE  /\ g_comm \in Session /\ inbox' \in Seq(Reply)
         /\ InboxIsLeft'
         /\ Handled(g_comm) \in Nat /\ Handled(g_comm)' = Handled(g_comm) + 1
         /\ Handled(g_comm) + 1 \in DOMAIN replies[g_comm]
         /\ replies[g_comm][Handled(g_comm) + 1] = r
<1>1. g_comm \in Session /\ inbox \in Seq(Reply) /\ replies[g_comm] \in Seq(Reply)
  <2>1. thread # "none"
    BY DEF NextPacket
  <2>2. g_comm # 0 /\ g_comm \in {0, sessions} /\ sessions \in 0..MaxSessions
    BY <2>1 DEF IInv, Types, Phases
  <2>3. g_comm \in Session
    BY <2>2, LoginSessionAssumption DEF Session
  <2> QED BY <2>3 DEF IInv, Types
<1>10. PICK n \in Nat, q \in Seq(Reply) : n = Len(inbox) /\ q = replies[g_comm]
  BY <1>1
<1>11. PICK h : h = Len(q) - n
  OBVIOUS
<1>2. n \in Nat /\ q \in Seq(Reply) /\ n = Len(inbox) /\ q = replies[g_comm] /\ h = Len(q) - n
  BY <1>10, <1>11
<1>3. /\ inbox # <<>> /\ r = Head(inbox) /\ inbox' = Tail(inbox)
  BY DEF NextPacket
<1>4. /\ n > 0 /\ DOMAIN inbox = 1..n /\ inbox[1] = r
      /\ inbox' \in Seq(Reply) /\ Len(inbox') = n - 1 /\ DOMAIN inbox' = 1..(n - 1)
      /\ \A i \in 1..(n - 1) : inbox'[i] = inbox[i + 1]
  BY <1>1, <1>2, <1>3
<1>5. h \in Nat /\ \A i \in 1..n : inbox[i] = q[h + i]
  <2>1. g_comm # 0
    BY <1>1 DEF Session
  <2>2. /\ Len(inbox) <= Len(replies[g_comm])
        /\ \A i \in DOMAIN inbox : inbox[i] = replies[g_comm][Handled(g_comm) + i]
    BY <2>1 DEF IInv, InboxIsLeft
  <2>3. n <= Len(q) /\ Len(q) \in Nat /\ Handled(g_comm) = h
    BY <1>2, <2>2 DEF Handled
  <2> QED BY <1>2, <1>4, <2>2, <2>3
<1>6. Handled(g_comm) = h /\ Handled(g_comm)' = h + 1
  BY <1>2, <1>4 DEF Handled
<1>7. h + 1 \in DOMAIN q /\ q[h + 1] = r
  BY <1>2, <1>4, <1>5
<1>8. \A i \in 1..(n - 1) : inbox'[i] = q[h + 1 + i]
  <2> SUFFICES ASSUME NEW i \in 1..(n - 1) PROVE inbox'[i] = q[h + 1 + i]
    OBVIOUS
  <2>1. i + 1 \in 1..n /\ h + (i + 1) = h + 1 + i
    BY <1>5
  <2> QED BY <1>4, <1>5, <2>1
<1>9. InboxIsLeft'
  <2>1. g_comm # 0 /\ n - 1 <= Len(q) /\ Len(q) \in Nat
    BY <1>1, <1>2, <1>5 DEF Session
  <2> QED BY <1>1, <1>2, <1>4, <1>6, <1>8, <2>1 DEF InboxIsLeft
<1> QED BY <1>1, <1>2, <1>4, <1>5, <1>6, <1>7, <1>9

\* A packet that is taken leaves everything as it was but the inbox, the flag of
\* the dialog, where the callback is, and what it has accepted.
LEMMA TakenKeeps ==
  ASSUME IInv, NEW r \in Reply, NextPacket(r),
         UNCHANGED <<main, sessions, replies, registered, auths, g_sessionMutex,
                     g_comm, g_pipelineStep, g_serverAddr>>,
         listening' \in BOOLEAN, g_successAlreadyShown' \in BOOLEAN,
         g_pendingSuccessDialog' \in BOOLEAN,
         thread' \in {"none", "get", "accepted", "verified", "list"},
         accepts' = accepts \/ (r = AccountOK /\ accepts' = accepts \cup {g_comm})
  PROVE  /\ Types' /\ Phases' /\ Unborn' /\ AuthenticatesOnce'
         /\ InboxIsLeft' /\ RepliesWereAsked' /\ AcceptWasHandled'
<1> USE DEF IInv
<1>1. /\ g_comm \in Session /\ inbox' \in Seq(Reply)
      /\ InboxIsLeft'
      /\ Handled(g_comm) \in Nat /\ Handled(g_comm)' = Handled(g_comm) + 1
      /\ Handled(g_comm) + 1 \in DOMAIN replies[g_comm]
      /\ replies[g_comm][Handled(g_comm) + 1] = r
  BY PacketTaken
<1>2. accepts' \subseteq Session
  BY <1>1 DEF Types
<1>3. Types'
  BY <1>1, <1>2 DEF Types
<1>9. thread # "none"
  BY DEF NextPacket
<1>4. g_comm # 0 /\ g_comm = sessions /\ sessions \in Nat
  <2>1. g_comm # 0
    BY <1>9 DEF Phases
  <2>2. g_comm \in {0, sessions} /\ sessions \in 0..MaxSessions
    BY DEF Types
  <2> QED BY <2>1, <2>2, LoginSessionAssumption
<1>5. Phases'
  BY <1>4, <1>9 DEF Phases
<1>6. Unborn'
  BY <1>4 DEF Unborn, Session
<1>7. AuthenticatesOnce' /\ RepliesWereAsked'
  BY DEF AuthenticatesOnce, RepliesWereAsked
<1>8. AcceptWasHandled'
  <2>1. CASE g_comm \in accepts
    <3>1. PICK i \in DOMAIN replies[g_comm] :
            i <= Handled(g_comm) /\ replies[g_comm][i] = AccountOK
      BY <1>4, <2>1 DEF AcceptWasHandled
    <3>2. i \in Nat
      <4>1. replies[g_comm] \in Seq(Reply)
        BY <1>1 DEF Types
      <4> QED BY <3>1, <4>1
    <3>3. i <= Handled(g_comm)'
      BY <1>1, <3>1, <3>2
    <3> QED BY <3>1, <3>3 DEF AcceptWasHandled
  <2>2. CASE g_comm \notin accepts /\ r = AccountOK
    BY <1>1, <2>2 DEF AcceptWasHandled
  <2>3. CASE g_comm \notin accepts /\ accepts' = accepts
    BY <2>3 DEF AcceptWasHandled
  <2> QED BY <2>1, <2>2, <2>3
<1> QED BY <1>1, <1>3, <1>5, <1>6, <1>7, <1>8

\* A reply that had to be asked for finds the session published.
LEMMA TakenWasAsked ==
  ASSUME IInv, NEW r \in Reply, r.op \in {99, 26}, NextPacket(r),
         UNCHANGED <<g_comm, replies, sessions>>
  PROVE  /\ auths[g_comm] > 0 /\ g_comm \in accepts
         /\ main \notin {"resolve", "publish", "join fail"}
<1>1. /\ g_comm \in Session /\ Handled(g_comm) + 1 \in DOMAIN replies[g_comm]
      /\ replies[g_comm][Handled(g_comm) + 1] = r
  BY PacketTaken
<1>2. auths[g_comm] > 0
  BY <1>1 DEF IInv, RepliesWereAsked
<1>3. auths[g_comm] \in Nat /\ auths[g_comm] <= 1
  BY <1>1 DEF IInv, Types, AuthenticatesOnce
<1>4. g_comm \in accepts
  BY <1>1, <1>2, <1>3 DEF IInv, AuthenticatesOnce
<1>5. main \notin {"resolve", "publish", "join fail"}
  <2>1. main \in {"resolve", "publish", "join fail"} => auths[g_comm] = 0
    BY DEF IInv, Unpublished
  <2>2. auths[g_comm] # 0
    BY <1>2, <1>3
  <2> QED BY <2>1, <2>2
<1> QED BY <1>2, <1>4, <1>5

\* The acceptance is answered only if the step is 1: then nothing was asked yet.
LEMMA ReadAcceptStep == ASSUME IInv, ReadAccept PROVE IInv'
<1> USE DEF IInv
<1>1. /\ AccountOK \in Reply /\ NextPacket(AccountOK) /\ thread = "get"
      /\ UNCHANGED <<main, sessions, replies, registered, auths, g_sessionMutex,
                     g_comm, g_pipelineStep, g_serverAddr>>
      /\ accepts' = accepts \cup {g_comm}
      /\ thread' = IF g_pipelineStep = 1 THEN "accepted" ELSE LoopHead
  BY DEF ReadAccept, NextPacket, AccountOK, Reply, shared
<1>2. listening' \in BOOLEAN /\ g_successAlreadyShown' \in BOOLEAN /\ g_pendingSuccessDialog' \in BOOLEAN
  BY DEF ReadAccept, shared, Types
<1>3. (thread' = "accepted" /\ g_pipelineStep = 1) \/ thread' \in {"get", "none"}
  BY <1>1 DEF LoopHead
<1>4. thread' \in {"none", "get", "accepted", "verified", "list"}
  BY <1>3
<1>5. /\ Types' /\ Phases' /\ Unborn' /\ AuthenticatesOnce'
      /\ InboxIsLeft' /\ RepliesWereAsked' /\ AcceptWasHandled'
  BY <1>1, <1>2, <1>4, TakenKeeps
<1>6. g_comm \in Session /\ auths[g_comm] \in Nat
  BY <1>1, PacketTaken DEF Types
<1>7. Unpublished'
  BY <1>1, <1>3 DEF Unpublished
<1>8. StepOne'
  BY <1>1, <1>3 DEF StepOne
<1>9. Answering'
  BY <1>1, <1>3, <1>6 DEF Answering, StepOne
<1>10. Finishing'
  BY <1>1, <1>3 DEF Finishing, AcceptedTwice
<1> QED BY <1>5, <1>7, <1>8, <1>9, <1>10

\* The version packet: the callback has the mutex only while no session is being
\* started or stopped, so the server it asks is that of its own session.
LEMMA SendAuthenticateStep == ASSUME IInv, SendAuthenticate PROVE IInv'
<1> USE DEF IInv
<1>1. /\ thread = "accepted" /\ thread' = "sent" /\ g_sessionMutex = "nobody"
      /\ UNCHANGED <<main, inbox, sessions, replies, registered, accepts, g_sessionMutex,
                     g_comm, g_pipelineStep, g_serverAddr>>
  BY DEF SendAuthenticate, shared
<1>2. UNCHANGED <<listening, g_successAlreadyShown, g_pendingSuccessDialog>>
  BY DEF SendAuthenticate, shared
<1>3. main = "ui"
  BY <1>1 DEF Types, Phases
<1>4. g_comm # 0 /\ g_serverAddr = g_comm
  BY <1>1, <1>3 DEF Phases, Running
<1>5. g_comm \in Session /\ g_comm = sessions /\ sessions \in Nat
  <2>1. g_comm \in {0, sessions} /\ sessions \in 0..MaxSessions
    BY DEF Types
  <2> QED BY <1>4, <2>1, LoginSessionAssumption DEF Session
<1>6. auths' = [auths EXCEPT ![g_comm] = @ + 1]
  BY <1>4 DEF SendAuthenticate
<1>7. g_comm \in accepts /\ auths[g_comm] = 0
  BY <1>1 DEF Answering
<1>8. auths' \in [Session -> Nat] /\ auths'[g_comm] = 1
  <2>1. auths \in [Session -> Nat]
    BY DEF Types
  <2> QED BY <1>5, <1>6, <1>7, <2>1
<1>9. \A n \in Session : n # g_comm => auths'[n] = auths[n]
  BY <1>6 DEF Types
<1>10. Types'
  BY <1>1, <1>2, <1>8 DEF Types
<1>11. Phases' /\ Unpublished'
  BY <1>1, <1>3, <1>4 DEF Phases, Unpublished
<1>12. Unborn'
  BY <1>1, <1>5, <1>9 DEF Unborn, Session
<1>13. StepOne'
  BY <1>1 DEF StepOne
<1>14. Answering'
  BY <1>1, <1>7, <1>8 DEF Answering
<1>15. AuthenticatesOnce'
  BY <1>1, <1>7, <1>8, <1>9 DEF AuthenticatesOnce
<1>16. RepliesWereAsked'
  <2> SUFFICES ASSUME NEW n \in Session, NEW i \in DOMAIN replies[n],
                      replies[n][i].op \in {99, 26}
               PROVE  auths'[n] > 0
    BY <1>1 DEF RepliesWereAsked
  <2>1. auths[n] > 0
    BY DEF RepliesWereAsked
  <2> QED BY <1>8, <1>9, <2>1
<1>17. InboxIsLeft' /\ AcceptWasHandled' /\ Finishing'
  BY <1>1 DEF InboxIsLeft, AcceptWasHandled, Finishing, Handled, AcceptedTwice
<1> QED BY <1>10, <1>11, <1>12, <1>13, <1>14, <1>15, <1>16, <1>17

\* The store of step 2, whatever happened since the load.
LEMMA StoreStep2Step == ASSUME IInv, StoreStep2 PROVE IInv'
<1> USE DEF IInv
<1>1. g_pipelineStep' = 2
  BY DEF StoreStep2
<1>2. /\ thread = "sent"
      /\ UNCHANGED <<main, inbox, sessions, replies, registered, auths, accepts,
                     g_sessionMutex, g_comm, g_serverAddr>>
  BY DEF StoreStep2, history
<1>3. UNCHANGED <<listening, g_successAlreadyShown, g_pendingSuccessDialog>>
  BY DEF StoreStep2
<1>4. thread' \in {"get", "none"}
  BY DEF StoreStep2, LoopHead
<1>5. g_pipelineStep' \in 0..3 /\ StepOne'
  BY <1>1 DEF StepOne
<1>6. Types'
  BY <1>2, <1>3, <1>4, <1>5 DEF Types
<1>7. g_pipelineStep' # 1 /\ g_pipelineStep' # 3
  BY <1>1
<1>8. Phases' /\ Unborn' /\ AuthenticatesOnce'
  BY <1>2, <1>4 DEF Phases, Unborn, AuthenticatesOnce
<1>9. Unpublished' /\ Answering'
  BY <1>2, <1>4, <1>7 DEF Unpublished, Answering
<1>10. InboxIsLeft' /\ RepliesWereAsked' /\ AcceptWasHandled'
  BY <1>2 DEF InboxIsLeft, RepliesWereAsked, AcceptWasHandled, Handled
<1>11. Finishing'
  BY <1>2, <1>4, <1>7 DEF Finishing
<1> QED BY <1>5, <1>6, <1>8, <1>9, <1>10, <1>11

\* The verdict was asked for after an acceptance that was handled before it.
LEMMA ReadVersionOKStep == ASSUME IInv, ReadVersionOK PROVE IInv'
<1> USE DEF IInv
<1>1. /\ VersionOK \in Reply /\ VersionOK.op = 99 /\ NextPacket(VersionOK) /\ thread = "get"
      /\ UNCHANGED <<main, sessions, replies, registered, auths, accepts, g_sessionMutex,
                     g_comm, g_pipelineStep, g_serverAddr>>
      /\ thread' = IF g_pipelineStep = 2 THEN "verified" ELSE LoopHead
  BY DEF ReadVersionOK, NextPacket, VersionOK, Reply, shared, history
<1>2. listening' \in BOOLEAN /\ g_successAlreadyShown' \in BOOLEAN /\ g_pendingSuccessDialog' \in BOOLEAN
  BY DEF ReadVersionOK, shared, Types
<1>3. thread' \in {"verified", "get", "none"}
  BY <1>1 DEF LoopHead
<1>4. thread' \in {"none", "get", "accepted", "verified", "list"}
  BY <1>3
<1>12. accepts' = accepts
  BY <1>1
<1>5. /\ Types' /\ Phases' /\ Unborn' /\ AuthenticatesOnce'
      /\ InboxIsLeft' /\ RepliesWereAsked' /\ AcceptWasHandled'
  <2>1. accepts' = accepts \/ (VersionOK = AccountOK /\ accepts' = accepts \cup {g_comm})
    BY <1>12
  <2>2. UNCHANGED <<main, sessions, replies, registered, auths, g_sessionMutex,
                    g_comm, g_pipelineStep, g_serverAddr>>
    BY <1>1
  <2>3. VersionOK \in Reply /\ NextPacket(VersionOK)
    BY <1>1
  <2> QED BY <2>1, <2>2, <2>3, <1>2, <1>4, TakenKeeps
<1>6. /\ g_comm \in Session /\ Handled(g_comm) \in Nat
      /\ Handled(g_comm) + 1 \in DOMAIN replies[g_comm]
      /\ replies[g_comm][Handled(g_comm) + 1] = VersionOK
  BY <1>1, PacketTaken
<1>7. g_comm \in accepts /\ main \notin {"resolve", "publish", "join fail"}
  BY <1>1, TakenWasAsked
<1>8. AcceptedTwice
  <2>1. g_comm # 0 /\ replies[g_comm] \in Seq(Reply)
    <3>1. g_comm # 0
      BY <1>6, LoginSessionAssumption DEF Session
    <3>2. replies \in [Session -> Seq(Reply)]
      BY DEF Types
    <3> QED BY <1>6, <3>1, <3>2
  <2>2. PICK i \in DOMAIN replies[g_comm] :
          i <= Handled(g_comm) /\ replies[g_comm][i] = AccountOK
    BY <1>7, <2>1 DEF AcceptWasHandled
  <2>3. i \in Nat
    BY <2>1, <2>2
  <2>4. i < Handled(g_comm) + 1
    BY <1>6, <2>2, <2>3
  <2> QED BY <1>6, <2>2, <2>4 DEF AcceptedTwice
<1>9. Unpublished'
  BY <1>1, <1>7 DEF Unpublished
<1>10. StepOne' /\ Answering'
  BY <1>1, <1>3 DEF StepOne, Answering
<1>11. Finishing'
  BY <1>1, <1>8 DEF Finishing, AcceptedTwice
<1> QED BY <1>5, <1>9, <1>10, <1>11

\* The store of step 3, for a session that was accepted twice.
LEMMA StoreStep3Step == ASSUME IInv, StoreStep3 PROVE IInv'
<1> USE DEF IInv
<1>1. g_pipelineStep' = 3
  BY DEF StoreStep3
<1>2. /\ thread = "verified"
      /\ UNCHANGED <<main, inbox, sessions, replies, registered, auths, accepts,
                     g_sessionMutex, g_comm, g_serverAddr>>
  BY DEF StoreStep3, history
<1>3. UNCHANGED <<listening, g_successAlreadyShown, g_pendingSuccessDialog>>
  BY DEF StoreStep3
<1>4. thread' \in {"get", "none"}
  BY DEF StoreStep3, LoopHead
<1>5. g_pipelineStep' \in 0..3 /\ StepOne'
  BY <1>1 DEF StepOne
<1>6. Types'
  BY <1>2, <1>3, <1>4, <1>5 DEF Types
<1>7. g_pipelineStep' # 1
  BY <1>1
<1>8. Phases' /\ Unborn' /\ AuthenticatesOnce'
  BY <1>2, <1>4 DEF Phases, Unborn, AuthenticatesOnce
<1>9. Unpublished' /\ Answering'
  BY <1>2, <1>4, <1>7 DEF Unpublished, Answering
<1>10. InboxIsLeft' /\ RepliesWereAsked' /\ AcceptWasHandled'
  BY <1>2 DEF InboxIsLeft, RepliesWereAsked, AcceptWasHandled, Handled
<1>11. Finishing'
  BY <1>2 DEF Finishing, AcceptedTwice
<1> QED BY <1>5, <1>6, <1>8, <1>9, <1>10, <1>11

\* A refusal changes nothing.
LEMMA ReadRefusalStep == ASSUME IInv, ReadRefusal PROVE IInv'
<1> USE DEF IInv
<1>1. PICK op \in {14, 99} : NextPacket([op |-> op, ok |-> FALSE])
  BY DEF ReadRefusal
<1>2. [op |-> op, ok |-> FALSE] \in Reply
  BY DEF Reply
<1>3. /\ thread = "get"
      /\ UNCHANGED <<main, sessions, replies, registered, auths, accepts, g_sessionMutex,
                     g_comm, g_pipelineStep, g_serverAddr>>
  BY DEF ReadRefusal, NextPacket, shared, history
<1>4. listening' \in BOOLEAN /\ g_successAlreadyShown' \in BOOLEAN /\ g_pendingSuccessDialog' \in BOOLEAN
  BY DEF ReadRefusal, shared, Types
<1>5. thread' \in {"get", "none"}
  BY DEF ReadRefusal, LoopHead
<1>6. /\ Types' /\ Phases' /\ Unborn' /\ AuthenticatesOnce'
      /\ InboxIsLeft' /\ RepliesWereAsked' /\ AcceptWasHandled'
  <2>1. accepts' = accepts \/ ([op |-> op, ok |-> FALSE] = AccountOK /\ accepts' = accepts \cup {g_comm})
    BY <1>3
  <2>2. UNCHANGED <<main, sessions, replies, registered, auths, g_sessionMutex,
                    g_comm, g_pipelineStep, g_serverAddr>>
    BY <1>3
  <2>3. thread' \in {"none", "get", "accepted", "verified", "list"}
    BY <1>5
  <2> QED BY <1>1, <1>2, <1>4, <2>1, <2>2, <2>3, TakenKeeps
<1>7. Unpublished' /\ StepOne' /\ Answering'
  BY <1>3, <1>5 DEF Unpublished, StepOne, Answering
<1>8. Finishing'
  BY <1>3, <1>5 DEF Finishing, AcceptedTwice
<1> QED BY <1>6, <1>7, <1>8

\* The list concerns the dialog only.
LEMMA ReadListStep == ASSUME IInv, ReadList PROVE IInv'
<1> USE DEF IInv
<1> DEFINE r == [op |-> 26, ok |-> TRUE]
<1>1. /\ r \in Reply /\ r.op = 26 /\ NextPacket(r) /\ thread = "get"
  BY DEF ReadList, NextPacket, Reply
<1>2. UNCHANGED <<main, sessions, replies, registered, auths, accepts, g_sessionMutex,
                  g_comm, g_pipelineStep, g_serverAddr>>
  BY DEF ReadList, history
<1>3. listening' \in BOOLEAN /\ g_successAlreadyShown' \in BOOLEAN /\ g_pendingSuccessDialog' \in BOOLEAN
  BY DEF ReadList, Types
<1>4. thread' \in {"list", "get", "none"}
  BY DEF ReadList, LoopHead
<1>5. thread' \in {"none", "get", "accepted", "verified", "list"}
  BY <1>4
<1> HIDE DEF r
<1>6. /\ Types' /\ Phases' /\ Unborn' /\ AuthenticatesOnce'
      /\ InboxIsLeft' /\ RepliesWereAsked' /\ AcceptWasHandled'
  <2>1. accepts' = accepts \/ (r = AccountOK /\ accepts' = accepts \cup {g_comm})
    BY <1>2
  <2>2. UNCHANGED <<main, sessions, replies, registered, auths, g_sessionMutex,
                    g_comm, g_pipelineStep, g_serverAddr>>
    BY <1>2
  <2> QED BY <1>1, <1>3, <1>5, <2>1, <2>2, TakenKeeps
<1>7. main \notin {"resolve", "publish", "join fail"}
  BY <1>1, <1>2, TakenWasAsked
<1>8. Unpublished' /\ StepOne' /\ Answering'
  BY <1>1, <1>2, <1>4, <1>7 DEF Unpublished, StepOne, Answering
<1>9. Finishing'
  BY <1>2, <1>4 DEF Finishing, AcceptedTwice
<1> QED BY <1>6, <1>8, <1>9

\* Only the flag of the dialog changes.
LEMMA StorePendingDialogStep == ASSUME IInv, StorePendingDialog PROVE IInv'
<1> USE DEF IInv
<1>1. /\ thread = "list"
      /\ UNCHANGED <<main, inbox, sessions, replies, registered, auths, accepts,
                     g_sessionMutex, g_comm, g_pipelineStep, g_serverAddr>>
  BY DEF StorePendingDialog, history
<1>2. listening' \in BOOLEAN /\ g_successAlreadyShown' \in BOOLEAN /\ g_pendingSuccessDialog' \in BOOLEAN
  BY DEF StorePendingDialog, Types
<1>3. thread' \in {"get", "none"}
  BY DEF StorePendingDialog, LoopHead
<1>4. Types'
  BY <1>1, <1>2, <1>3 DEF Types
<1>5. Phases' /\ Unborn' /\ AuthenticatesOnce'
  BY <1>1, <1>3 DEF Phases, Unborn, AuthenticatesOnce
<1>6. Unpublished' /\ StepOne' /\ Answering'
  BY <1>1, <1>3 DEF Unpublished, StepOne, Answering
<1>7. InboxIsLeft' /\ RepliesWereAsked' /\ AcceptWasHandled'
  BY <1>1 DEF InboxIsLeft, RepliesWereAsked, AcceptWasHandled, Handled
<1>8. Finishing'
  BY <1>1, <1>3 DEF Finishing, AcceptedTwice
<1> QED BY <1>4, <1>5, <1>6, <1>7, <1>8

\* The callback is not under way.
LEMMA EndThreadStep == ASSUME IInv, EndThread PROVE IInv'
<1> USE LoginSessionAssumption DEF IInv, EndThread, shared, history, Session, Running, Stopping
<1>1. Types'
  BY DEF Types, Phases
<1>2. Phases' /\ Unborn' /\ Unpublished'
  BY DEF Types, Phases, Unborn, Unpublished, StepOne, RepliesWereAsked
<1>3. StepOne' /\ Answering' /\ AuthenticatesOnce'
  BY DEF Types, Phases, Unpublished, StepOne, Answering, AuthenticatesOnce
<1>4. InboxIsLeft' /\ RepliesWereAsked'
  BY DEF Types, Phases, Unborn, InboxIsLeft, RepliesWereAsked, Handled
<1>5. AcceptWasHandled' /\ Finishing'
  BY DEF Types, Phases, Unborn, StepOne, InboxIsLeft, AcceptWasHandled, Finishing, Handled,
         AcceptedTwice
<1> QED BY <1>1, <1>2, <1>3, <1>4, <1>5

-----------------------------------------------------------------------------
(* The server.                                                             *)

\* A reply is added to what the server said and to the inbox.
LEMMA ServerRepliesStep ==
  ASSUME IInv, NEW r \in Reply, ServerReplies(r)
  PROVE  IInv'
<1> USE DEF IInv
<1>1. /\ g_comm \in registered
      /\ r.op \in {99, 26} => auths[g_comm] > 0
      /\ replies' = [replies EXCEPT ![g_comm] = Append(@, r)]
      /\ inbox' = Append(inbox, r)
      /\ UNCHANGED <<main, thread, sessions, registered, auths, accepts, g_sessionMutex,
                     g_comm, g_pipelineStep, g_serverAddr>>
  BY DEF ServerReplies, shared
<1>2. UNCHANGED <<listening, g_successAlreadyShown, g_pendingSuccessDialog>>
  BY DEF ServerReplies, shared
<1>3. g_comm \in Session /\ inbox \in Seq(Reply) /\ replies \in [Session -> Seq(Reply)]
  BY <1>1 DEF Types
<1>4. PICK n \in Nat, q \in Seq(Reply) : n = Len(inbox) /\ q = replies[g_comm]
  BY <1>3
<1>5. /\ inbox' \in Seq(Reply) /\ Len(inbox') = n + 1 /\ DOMAIN inbox' = 1..(n + 1)
      /\ inbox'[n + 1] = r /\ \A i \in 1..n : i \in DOMAIN inbox /\ inbox'[i] = inbox[i]
  BY <1>1, <1>3, <1>4
<1>6. PICK l \in Nat : l = Len(q)
  BY <1>4
<1>7. /\ replies'[g_comm] \in Seq(Reply) /\ Len(replies'[g_comm]) = l + 1
      /\ DOMAIN replies'[g_comm] = 1..(l + 1) /\ replies'[g_comm][l + 1] = r
      /\ DOMAIN q = 1..l /\ \A i \in 1..l : replies'[g_comm][i] = q[i]
  BY <1>1, <1>3, <1>4, <1>6
<1>8. /\ replies' \in [Session -> Seq(Reply)]
      /\ \A m \in Session : m # g_comm => replies'[m] = replies[m]
  BY <1>1, <1>3, <1>7
<1>9. Types'
  BY <1>1, <1>2, <1>5, <1>8 DEF Types
<1>10. Phases' /\ Unpublished' /\ StepOne' /\ Answering' /\ AuthenticatesOnce'
  BY <1>1 DEF Phases, Unpublished, StepOne, Answering, AuthenticatesOnce
<1>11. g_comm # 0 /\ g_comm = sessions /\ sessions \in Nat
  <2>1. g_comm \in {0, sessions}
    BY DEF Types
  <2> QED BY <1>3, <2>1 DEF Session
<1>12. Unborn'
  BY <1>1, <1>8, <1>11 DEF Unborn, Session
<1>13. RepliesWereAsked'
  <2> SUFFICES ASSUME NEW m \in Session, NEW i \in DOMAIN replies'[m],
                      replies'[m][i].op \in {99, 26}
               PROVE  auths[m] > 0
    BY <1>1 DEF RepliesWereAsked
  <2>1. CASE m # g_comm
    BY <1>8, <2>1 DEF RepliesWereAsked
  <2>2. CASE m = g_comm /\ i = l + 1
    BY <1>1, <1>7, <2>2
  <2>3. CASE m = g_comm /\ i # l + 1
    <3>1. i \in 1..l /\ i \in DOMAIN replies[m] /\ replies'[m][i] = replies[m][i]
      BY <1>4, <1>7, <2>3
    <3>2. replies[m][i].op \in {99, 26}
      BY <3>1
    <3> QED BY <3>1, <3>2 DEF RepliesWereAsked
  <2> QED BY <2>1, <2>2, <2>3
<1>14. n <= l /\ \A i \in 1..n : inbox[i] = q[l - n + i]
  BY <1>3, <1>4, <1>5, <1>6, <1>11 DEF InboxIsLeft, Handled
<1>15. Handled(g_comm) = l - n /\ Handled(g_comm)' = l - n
  BY <1>1, <1>4, <1>5, <1>6, <1>7 DEF Handled
<1>16. \A i \in 1..(n + 1) : inbox'[i] = replies'[g_comm][l - n + i]
  <2> SUFFICES ASSUME NEW i \in 1..(n + 1) PROVE inbox'[i] = replies'[g_comm][l - n + i]
    OBVIOUS
  <2>1. CASE i = n + 1
    <3>1. l - n + (n + 1) = l + 1
      BY <1>14
    <3> QED BY <1>5, <1>7, <2>1, <3>1
  <2>2. CASE i # n + 1
    <3>1. i \in 1..n /\ l - n + i \in 1..l
      BY <1>14, <2>2
    <3> QED BY <1>5, <1>7, <1>14, <3>1
  <2> QED BY <2>1, <2>2
<1>17. InboxIsLeft'
  <2>1. g_comm' = g_comm /\ g_comm' # 0
    BY <1>1, <1>11
  <2>2. Len(inbox') <= Len(replies'[g_comm])
    BY <1>5, <1>7, <1>14
  <2>3. ASSUME NEW i \in DOMAIN inbox'
        PROVE  inbox'[i] = replies'[g_comm][Handled(g_comm)' + i]
    BY <1>5, <1>15, <1>16
  <2> QED BY <2>1, <2>2, <2>3 DEF InboxIsLeft, Handled
<1>18. AcceptWasHandled'
  <2>1. \A i \in DOMAIN q : i \in DOMAIN replies'[g_comm] /\ replies'[g_comm][i] = q[i]
    BY <1>7
  <2> QED BY <1>1, <1>4, <1>15, <2>1 DEF AcceptWasHandled
<1>19. AcceptedTwice => AcceptedTwice'
  <2>1. \A i \in DOMAIN q : i \in DOMAIN replies'[g_comm] /\ replies'[g_comm][i] = q[i]
    BY <1>7
  <2> QED BY <1>1, <1>4, <2>1 DEF AcceptedTwice
<1>20. Finishing'
  BY <1>1, <1>19 DEF Finishing
<1> QED BY <1>9, <1>10, <1>12, <1>13, <1>17, <1>18, <1>20

-----------------------------------------------------------------------------
(* The theorems.                                                           *)

LEMMA StepHolds == IInv /\ [Next]_vars => IInv'
<1> SUFFICES ASSUME IInv, [Next]_vars PROVE IInv'
  OBVIOUS
<1>1. CASE UNCHANGED vars
  <2>1. UNCHANGED <<main, thread, inbox, sessions, replies, registered, auths, accepts,
                    g_sessionMutex, g_comm, g_pipelineStep, g_serverAddr>>
    BY <1>1 DEF vars, shared, history
  <2>2. UNCHANGED <<listening, g_successAlreadyShown, g_pendingSuccessDialog>>
    BY <1>1 DEF vars, shared
  <2>3. Types'
    BY <2>1, <2>2 DEF IInv, Types
  <2>4. Phases' /\ Unborn' /\ Unpublished'
    BY <2>1 DEF IInv, Phases, Unborn, Unpublished
  <2>5. StepOne' /\ Answering' /\ AuthenticatesOnce'
    BY <2>1 DEF IInv, StepOne, Answering, AuthenticatesOnce
  <2>6. InboxIsLeft' /\ RepliesWereAsked' /\ AcceptWasHandled' /\ Finishing'
    BY <2>1 DEF IInv, InboxIsLeft, RepliesWereAsked, AcceptWasHandled, Finishing, Handled,
                AcceptedTwice
  <2> QED BY <2>3, <2>4, <2>5, <2>6 DEF IInv
<1>2. CASE UI
  BY <1>2, StartSessionStep, ClearPendingDialogStep, ShutdownUnlockedStep,
     JoinThreadsStep, StartFailsStep, CreateCommCenterStep, ResolveFailsStep,
     SendRegisterStep, PublishStepStep, QuitStep, ConsumeSuccessDialogStep DEF UI, Start
<1>3. CASE Analyse
  BY <1>3, ReadAcceptStep, SendAuthenticateStep, StoreStep2Step, ReadVersionOKStep,
     StoreStep3Step, ReadRefusalStep, ReadListStep, StorePendingDialogStep,
     EndThreadStep DEF Analyse
<1> QED BY <1>1, <1>2, <1>3, ServerRepliesStep DEF Next

LEMMA InvariantHolds == Spec => []IInv
BY InitHolds, StepHolds, PTL DEF Spec

\* The shared state keeps its types, and the UI thread holds the mutex exactly
\* from the start of an operation to its end.
THEOREM TypeCorrect == Spec => []TypeOK
<1>1. IInv => TypeOK
  <2> SUFFICES ASSUME IInv PROVE TypeOK
    OBVIOUS
  <2>1. /\ g_comm \in {0, sessions} /\ sessions \in 0..MaxSessions
        /\ g_serverAddr \in 0..MaxSessions /\ g_pipelineStep \in 0..3
    BY DEF IInv, Types
  <2>2. g_comm \in 0..MaxSessions
    BY <2>1, LoginSessionAssumption
  <2>3. /\ thread \in {"none", "get", "accepted", "sent", "verified", "list"}
        /\ g_sessionMutex = IF main \in {"ui", "done"} THEN "nobody" ELSE "main"
    BY DEF IInv, Types
  <2>4. <<listening, g_successAlreadyShown, g_pendingSuccessDialog>>
           \in BOOLEAN \X BOOLEAN \X BOOLEAN
    BY DEF IInv, Types
  <2> QED BY <2>1, <2>2, <2>3, <2>4 DEF TypeOK
<1> QED BY <1>1, InvariantHolds, PTL

\* A server is asked about the version at most once, after it accepted the account.
THEOREM AsksOnce == Spec => []AuthenticatesOnce
<1>1. IInv => AuthenticatesOnce
  BY DEF IInv
<1> QED BY <1>1, InvariantHolds, PTL

\* A finished pipeline was accepted twice by the server of its own session.
THEOREM FinishedIsAccepted == Spec => []FinishedWasAccepted
<1>1. IInv => FinishedWasAccepted
  BY DEF IInv, Finishing, AcceptedTwice, FinishedWasAccepted, Running, AccountOK, VersionOK
<1> QED BY <1>1, InvariantHolds, PTL
=============================================================================
