----------------------------- MODULE LoginSession -----------------------------
(***************************************************************************)
(* T4CLoginSession: the login of the Linux client.  The UI thread starts a *)
(* session (a new CCommCenter that sends RQ_RegisterAccount) and closes it;*)
(* the analyse thread of the CCommCenter runs CommReadCallback on what the *)
(* server answers.  They share g_sessionMutex, g_comm, g_pipelineStep and  *)
(* the two flags of the success dialog.                                    *)
(*                                                                         *)
(* Every load or store of an atomic that the other thread can come between *)
(* is a step of its own.  A session is named by its number: 0 is none.     *)
(***************************************************************************)
EXTENDS Naturals, Sequences

CONSTANTS
  MaxSessions,   \* bound: sessions the user starts
  MaxReplies     \* bound: replies of a server to one session

ASSUME LoginSessionAssumption == MaxSessions \in Nat /\ MaxReplies \in Nat

Session == 1..MaxSessions

\* What a server says: 14 (register) and 99 (version) with a verdict, 26 (the
\* list of characters).
Reply == [op : {14, 99}, ok : BOOLEAN] \cup [op : {26}, ok : {TRUE}]

VARIABLES
  main,            \* where the UI thread is
  thread,          \* where the analyse thread of g_comm is
  g_sessionMutex,  \* who holds it
  g_comm,          \* the session whose CCommCenter exists
  listening,       \* bUDPAnalyseThread of that CCommCenter
  g_pipelineStep,
  g_serverAddr,    \* the session whose server is the target
  g_successAlreadyShown,
  g_pendingSuccessDialog,
  sessions,        \* sessions started
  inbox,           \* hhUDPAnalyseIO: replies posted for analysis
  replies,         \* replies[n]: what the server of session n has said
  registered,      \* sessions whose RQ_RegisterAccount was sent
  auths,           \* auths[n]: version packets sent to the server of n
  accepts,         \* sessions whose acceptance the callback has read
  dialogs          \* dialogs[n]: success dialogs shown during session n

shared == <<g_sessionMutex, g_comm, listening, g_pipelineStep, g_serverAddr,
            g_successAlreadyShown, g_pendingSuccessDialog>>
history == <<sessions, replies, registered, auths, accepts, dialogs>>
vars == <<main, thread, inbox, shared, history>>

Init ==
  /\ main = "ui" /\ thread = "none"
  /\ g_sessionMutex = "nobody"
  /\ g_comm = 0 /\ listening = FALSE
  /\ g_pipelineStep = 0 /\ g_serverAddr = 0
  /\ g_successAlreadyShown = FALSE /\ g_pendingSuccessDialog = FALSE
  /\ sessions = 0 /\ inbox = <<>>
  /\ replies = [n \in Session |-> <<>>]
  /\ registered = {} /\ accepts = {}
  /\ auths = [n \in Session |-> 0]
  /\ dialogs = [n \in 0..MaxSessions |-> 0]

-----------------------------------------------------------------------------
(* T4CLoginSessionStart: the UI thread holds the mutex from StartSession   *)
(* until it is back at the "ui".                                           *)

StartSession ==
  /\ main = "ui" /\ sessions < MaxSessions
  /\ g_sessionMutex = "nobody"
  /\ g_sessionMutex' = "main"
  /\ g_successAlreadyShown' = FALSE
  /\ main' = "start"
  /\ UNCHANGED <<thread, inbox, history, g_comm, listening, g_pipelineStep,
                 g_serverAddr, g_pendingSuccessDialog>>

ClearPendingDialog ==
  /\ main = "start"
  /\ g_pendingSuccessDialog' = FALSE
  /\ main' = "restart"
  /\ UNCHANGED <<thread, inbox, history, g_sessionMutex, g_comm, listening,
                 g_pipelineStep, g_serverAddr, g_successAlreadyShown>>

\* ShutdownUnlocked: the step, then ~CCommCenter stops its threads.
ShutdownUnlocked ==
  /\ main \in {"restart", "quit"}
  /\ g_pipelineStep' = 0
  /\ listening' = FALSE
  /\ main' = IF main = "quit" THEN "join quit" ELSE "join"
  /\ UNCHANGED <<thread, inbox, history, g_sessionMutex, g_comm, g_serverAddr,
                 g_successAlreadyShown, g_pendingSuccessDialog>>

\* WAIT_THREAD: the callback in progress is waited for.  A thread that does not
\* end in time is cancelled and joined, but one that waits for a mutex is not
\* at a cancellation point: there is no end to that join.
Joined(next, unlocked) ==
  /\ thread = "none"
  /\ g_comm' = 0
  /\ inbox' = <<>>
  /\ main' = next
  /\ g_sessionMutex' = IF unlocked THEN "nobody" ELSE g_sessionMutex
  /\ UNCHANGED <<thread, history, listening, g_pipelineStep, g_serverAddr,
                 g_successAlreadyShown, g_pendingSuccessDialog>>

JoinThreads ==
  \/ main = "join"      /\ Joined("create", FALSE)
  \/ main = "join fail" /\ Joined("ui", TRUE)
  \/ main = "join quit" /\ Joined("done", TRUE)

\* The host is empty or no socket can be bound.
StartFails ==
  /\ main = "create"
  /\ main' = "ui"
  /\ g_sessionMutex' = "nobody"
  /\ UNCHANGED <<thread, inbox, history, g_comm, listening, g_pipelineStep,
                 g_serverAddr, g_successAlreadyShown, g_pendingSuccessDialog>>

CreateCommCenter ==
  /\ main = "create"
  /\ sessions' = sessions + 1
  /\ g_comm' = sessions + 1
  /\ listening' = TRUE
  /\ thread' = "get"
  /\ main' = "resolve"
  /\ UNCHANGED <<inbox, replies, registered, auths, accepts, dialogs,
                 g_sessionMutex, g_pipelineStep, g_serverAddr,
                 g_successAlreadyShown, g_pendingSuccessDialog>>

\* The host cannot be resolved: the new CCommCenter is destroyed again.
ResolveFails ==
  /\ main = "resolve"
  /\ listening' = FALSE
  /\ main' = "join fail"
  /\ UNCHANGED <<thread, inbox, history, g_sessionMutex, g_comm,
                 g_pipelineStep, g_serverAddr, g_successAlreadyShown,
                 g_pendingSuccessDialog>>

SendRegister ==
  /\ main = "resolve"
  /\ registered' = registered \cup {g_comm}
  /\ main' = "publish"
  /\ UNCHANGED <<thread, inbox, sessions, replies, auths, accepts, dialogs, shared>>

\* Deviation: the mutex is not released at the end of a successful start.
PublishStepLocked ==
  /\ main = "publish"
  /\ g_serverAddr' = g_comm
  /\ g_pipelineStep' = 1
  /\ main' = "ui"
  /\ UNCHANGED <<thread, inbox, history, g_sessionMutex, g_comm, listening,
                 g_successAlreadyShown, g_pendingSuccessDialog>>

\* Only now does the callback know that an answer is expected.
PublishStep ==
  /\ main = "publish"
  /\ g_serverAddr' = g_comm
  /\ g_pipelineStep' = 1
  /\ g_sessionMutex' = "nobody"
  /\ main' = "ui"
  /\ UNCHANGED <<thread, inbox, history, g_comm, listening,
                 g_successAlreadyShown, g_pendingSuccessDialog>>

\* T4CLoginSessionShutdown, when the window is closed.
Quit ==
  /\ main = "ui"
  /\ g_sessionMutex = "nobody"
  /\ g_sessionMutex' = "main"
  /\ main' = "quit"
  /\ UNCHANGED <<thread, inbox, history, g_comm, listening, g_pipelineStep,
                 g_serverAddr, g_successAlreadyShown, g_pendingSuccessDialog>>

\* T4CLoginSessionConsumeNetworkSuccessDialog, in every turn of the UI loop.
ConsumeSuccessDialog ==
  /\ main = "ui"
  /\ g_pendingSuccessDialog
  /\ g_pendingSuccessDialog' = FALSE
  /\ dialogs' = [dialogs EXCEPT ![g_comm] = @ + 1]
  /\ UNCHANGED <<main, thread, inbox, sessions, replies, registered, auths,
                 accepts, g_sessionMutex, g_comm, listening, g_pipelineStep,
                 g_serverAddr, g_successAlreadyShown>>

-----------------------------------------------------------------------------
(* The analyse thread: CommReadCallback.                                   *)

NextPacket(r) ==
  /\ thread = "get"
  /\ inbox # <<>> /\ r = Head(inbox)
  /\ inbox' = Tail(inbox)

\* Back at the head of "while (bUDPAnalyseThread)".
LoopHead == IF listening THEN "get" ELSE "none"

\* Deviation: the step is not looked at.
ReadAcceptAlways ==
  /\ NextPacket([op |-> 14, ok |-> TRUE])
  /\ accepts' = accepts \cup {g_comm}
  /\ thread' = "accepted"
  /\ UNCHANGED <<main, shared, sessions, replies, registered, auths, dialogs>>

\* Deviation: the wrong step is compared.
ReadAcceptAtStep2 ==
  /\ NextPacket([op |-> 14, ok |-> TRUE])
  /\ accepts' = accepts \cup {g_comm}
  /\ thread' = IF g_pipelineStep = 2 THEN "accepted" ELSE LoopHead
  /\ UNCHANGED <<main, shared, sessions, replies, registered, auths, dialogs>>

\* LogRegisterAccountReply, result 0.
ReadAccept ==
  /\ NextPacket([op |-> 14, ok |-> TRUE])
  /\ accepts' = accepts \cup {g_comm}
  /\ thread' = IF g_pipelineStep = 1 THEN "accepted" ELSE LoopHead
  /\ UNCHANGED <<main, shared, sessions, replies, registered, auths, dialogs>>

\* SendToServerLocked: takes and releases the mutex.
SendAuthenticate ==
  /\ thread = "accepted"
  /\ g_sessionMutex = "nobody"
  /\ auths' = IF g_comm = 0 THEN auths
                           ELSE [auths EXCEPT ![g_serverAddr] = @ + 1]
  /\ thread' = "sent"
  /\ UNCHANGED <<main, inbox, shared, sessions, replies, registered, accepts, dialogs>>

StoreStep2 ==
  /\ thread = "sent"
  /\ g_pipelineStep' = 2
  /\ thread' = LoopHead
  /\ UNCHANGED <<main, inbox, history, g_sessionMutex, g_comm, listening,
                 g_serverAddr, g_successAlreadyShown, g_pendingSuccessDialog>>

\* Deviation: any verdict ends the pipeline.
ReadVersionAny ==
  /\ \E b \in BOOLEAN : NextPacket([op |-> 99, ok |-> b])
  /\ thread' = IF g_pipelineStep = 2 THEN "verified" ELSE LoopHead
  /\ UNCHANGED <<main, history, shared>>

\* HandleAuthenticateServerVersionReply, version accepted.
ReadVersionOK ==
  /\ NextPacket([op |-> 99, ok |-> TRUE])
  /\ thread' = IF g_pipelineStep = 2 THEN "verified" ELSE LoopHead
  /\ UNCHANGED <<main, history, shared>>

StoreStep3 ==
  /\ thread = "verified"
  /\ g_pipelineStep' = 3
  /\ thread' = LoopHead
  /\ UNCHANGED <<main, inbox, history, g_sessionMutex, g_comm, listening,
                 g_serverAddr, g_successAlreadyShown, g_pendingSuccessDialog>>

\* A refusal is only written to the log.
ReadRefusal ==
  /\ \E op \in {14, 99} : NextPacket([op |-> op, ok |-> FALSE])
  /\ thread' = LoopHead
  /\ UNCHANGED <<main, history, shared>>

\* The list of characters: g_successAlreadyShown.exchange(true).
ReadList ==
  /\ NextPacket([op |-> 26, ok |-> TRUE])
  /\ g_successAlreadyShown' = TRUE
  /\ thread' = IF g_successAlreadyShown THEN LoopHead ELSE "list"
  /\ UNCHANGED <<main, history, g_sessionMutex, g_comm, listening,
                 g_pipelineStep, g_serverAddr, g_pendingSuccessDialog>>

StorePendingDialog ==
  /\ thread = "list"
  /\ g_pendingSuccessDialog' = TRUE
  /\ thread' = LoopHead
  /\ UNCHANGED <<main, inbox, history, g_sessionMutex, g_comm, listening,
                 g_pipelineStep, g_serverAddr, g_successAlreadyShown>>

\* GetQueuedCompletionStatus returns because of CancelIo.
EndThread ==
  /\ thread = "get" /\ ~ listening
  /\ thread' = "none"
  /\ UNCHANGED <<main, inbox, history, shared>>

-----------------------------------------------------------------------------
\* The server and the network: a reply to what was sent, in this session or
\* not at all (the port of an earlier one is closed).  No reply may ever come.
ServerReplies(r) ==
  /\ g_comm \in registered
  /\ Len(replies[g_comm]) < MaxReplies
  /\ r.op \in {99, 26} => auths[g_comm] > 0
  /\ replies' = [replies EXCEPT ![g_comm] = Append(@, r)]
  /\ inbox' = Append(inbox, r)
  /\ UNCHANGED <<main, thread, shared, sessions, registered, auths, accepts, dialogs>>

Start ==
  \/ ClearPendingDialog \/ ShutdownUnlocked \/ JoinThreads
  \/ StartFails \/ CreateCommCenter \/ ResolveFails \/ SendRegister \/ PublishStep

UI == StartSession \/ Start \/ Quit \/ ConsumeSuccessDialog

Analyse ==
  \/ ReadAccept \/ SendAuthenticate \/ StoreStep2
  \/ ReadVersionOK \/ StoreStep3 \/ ReadRefusal
  \/ ReadList \/ StorePendingDialog \/ EndThread

Next == UI \/ Analyse \/ \E r \in Reply : ServerReplies(r)

Spec == Init /\ [][Next]_vars

\* Both threads run on, once the user has clicked.
FairSpec == Spec /\ WF_vars(Start) /\ WF_vars(Analyse)

-----------------------------------------------------------------------------
\* The shared state has its types, and the UI thread holds the mutex exactly
\* from the start of an operation to its end.
TypeOK ==
  /\ g_comm \in 0..MaxSessions /\ g_serverAddr \in 0..MaxSessions
  /\ g_pipelineStep \in 0..3
  /\ <<listening, g_successAlreadyShown, g_pendingSuccessDialog>>
       \in BOOLEAN \X BOOLEAN \X BOOLEAN
  /\ thread \in {"none", "get", "accepted", "sent", "verified", "list"}
  /\ g_sessionMutex = IF main \in {"ui", "done"} THEN "nobody" ELSE "main"

\* The server of a session is asked to check the version at most once, and
\* only after it accepted the account, however often it answers and whenever
\* the session is closed.
AuthenticatesOnce ==
  \A n \in Session :
    /\ auths[n] <= 1
    /\ auths[n] = 1 => n \in accepts

\* The pipeline of the running session is finished only if its server accepted
\* the account and then the version: no step of an earlier session leaks in.
FinishedWasAccepted ==
  main = "ui" /\ g_comm # 0 /\ g_pipelineStep = 3 =>
    \E i, j \in DOMAIN replies[g_comm] :
      /\ i < j
      /\ replies[g_comm][i] = [op |-> 14, ok |-> TRUE]
      /\ replies[g_comm][j] = [op |-> 99, ok |-> TRUE]

\* The callback gets the mutex, unless the UI thread is waiting for its end.
LockIsGranted ==
  thread = "accepted" ~>
    thread # "accepted" \/ main \in {"join", "join fail", "join quit"}

\* An acceptance that is still to be read when the step is published (nothing
\* of it was lost by coming early) is answered with the version packet, unless
\* the user starts again or quits.
AcceptIsAnsweredInTime ==
  /\ main = "ui" /\ g_pipelineStep = 1
  /\ \E i \in DOMAIN inbox : inbox[i] = [op |-> 14, ok |-> TRUE]
  ~> main # "ui" \/ \E n \in Session : g_comm = n /\ auths[n] > 0

\* "Wait for each threads to complete": the wait comes to an end.
JoinEnds == main \in {"join", "join quit"} ~> main \notin {"join", "join quit"}

\* After the acceptance (2/5) comes the version packet (3/5).
AcceptIsAnswered ==
  main = "ui" /\ thread = "get" /\ g_comm \in accepts => auths[g_comm] > 0

\* Step 0 is "inactif": without a session there is no step.
InactiveIsStepZero == main = "ui" /\ g_comm = 0 => g_pipelineStep = 0

\* The success dialog is asked for once.
OneDialogPerSession == \A n \in Session : dialogs[n] <= 1
=============================================================================
