------------------------------- MODULE Broker -------------------------------
(***************************************************************************)
(* The gateway's broker (internal/gateway/broker.go, session.go) under the *)
(* front ends that call it at the same time: the chat route, the OpenAI    *)
(* route and the terminal (the caller waits), the task API (a goroutine    *)
(* runs it, the client polls), the event stream (the client may leave) and *)
(* the broker's own queue.                                                 *)
(* A message is named by the caller that sends it; what matters of a reply *)
(* is whether the run answered with text, with nothing, or failed (an error *)
(* or a panic).  Two runs of one conversation are not serialised.          *)
(***************************************************************************)
EXTENDS Naturals, Sequences, SequencesExt

CONSTANTS
  BkCallers,   \* the messages sent
  BkMixes,     \* the assignments of front ends to them: a set of functions
  BkKey,       \* [BkCallers -> a conversation]: Key(channel, user)
  BkQueueCap   \* bound of the inbound channel (64 in the code)

BkWaiting == {"chat", "openai", "terminal"}
BkFronts == BkWaiting \union {"stream", "task", "queue"}

ASSUME BkAssumption ==
  /\ BkMixes \subseteq [BkCallers -> BkFronts] /\ DOMAIN BkKey = BkCallers
  /\ BkQueueCap \in Nat \ {0}

BkKeys == {BkKey[c] : c \in BkCallers}
BkOutcomes == {"text", "nothing", "failed"}

VARIABLES
  bkFront,     \* the front end each message came through
  bkSessions,  \* Sessions.m: the turns recorded for each conversation
  bkCall,      \* where each caller stands
  bkReply,     \* what Handle returned to it
  bkSeen,      \* what its client was given
  bkQueue,     \* Broker.inbound
  bkLoop,      \* the Start loop: "idle", "stopped" or the message it handles
  bkTasks,     \* Server.tasks: what GET /api/v1/task finds for it
  bkCut        \* ghost: the conversation was reset while the message ran

bkVars == <<bkFront, bkSessions, bkCall, bkReply, bkSeen, bkQueue, bkLoop, bkTasks, bkCut>>

BkInit ==
  /\ bkFront \in BkMixes
  /\ bkSessions = [k \in BkKeys |-> <<>>]
  /\ bkCall  = [c \in BkCallers |-> "new"]
  /\ bkReply = [c \in BkCallers |-> "none"]
  /\ bkSeen  = [c \in BkCallers |-> "none"]
  /\ bkQueue = <<>>
  /\ bkLoop  = "idle"
  /\ bkTasks = [c \in BkCallers |-> "absent"]
  /\ bkCut   = [c \in BkCallers |-> FALSE]

BkAppended(c, role) == [bkSessions EXCEPT ![BkKey[c]] = Append(@, [role |-> role, of |-> c])]

\* The beginning of Handle: the user's turn is recorded before the engine runs.
BkHandle(c) ==
  /\ bkSessions' = BkAppended(c, "user")
  /\ bkCall' = [bkCall EXCEPT ![c] = "run"]

\* mutant: the reply is recorded whatever became of the run
BkRecordedAlways(c, out) == BkAppended(c, "assistant")

\* The end of Handle: a turn is recorded only when the engine answered; an error
\* or a panic becomes the text of the reply and leaves the user's turn alone.
BkRecorded(c, out) == IF out \in {"text", "nothing"} THEN BkAppended(c, "assistant") ELSE bkSessions

BkReturn(c) ==
  /\ bkCall[c] = "run"
  /\ \E out \in BkOutcomes :
       /\ bkReply' = [bkReply EXCEPT ![c] = out]
       /\ bkSessions' = BkRecorded(c, out)
  /\ bkCall' = [bkCall EXCEPT ![c] = "back"]
  /\ UNCHANGED <<bkSeen, bkQueue, bkLoop, bkTasks, bkCut>>

\* A request without a text, a token or a method it may have is turned away
\* before anything is recorded.
BkRefuse(c) ==
  /\ bkCall[c] = "new" /\ bkFront[c] # "queue"
  /\ bkCall' = [bkCall EXCEPT ![c] = "refused"]
  /\ UNCHANGED <<bkSessions, bkReply, bkSeen, bkQueue, bkLoop, bkTasks, bkCut>>

BkCallNow(c, front) ==
  /\ bkCall[c] = "new" /\ bkFront[c] = front
  /\ BkHandle(c)
  /\ UNCHANGED <<bkReply, bkSeen, bkQueue, bkLoop, bkTasks, bkCut>>

BkChat(c)     == BkCallNow(c, "chat")
BkOpenAI(c)   == BkCallNow(c, "openai")
BkTerminal(c) == BkCallNow(c, "terminal")
BkStream(c)   == BkCallNow(c, "stream")

\* The reply is written to a client that is still there.
BkAnswer(c) ==
  /\ bkCall[c] = "back" /\ bkFront[c] \in BkWaiting \union {"stream"} /\ bkSeen[c] = "none"
  /\ bkSeen' = [bkSeen EXCEPT ![c] = bkReply[c]]
  /\ UNCHANGED <<bkSessions, bkCall, bkReply, bkQueue, bkLoop, bkTasks, bkCut>>

\* The client of a stream goes: the handler returns, the run goes on and is recorded.
BkLeave(c) ==
  /\ bkFront[c] = "stream" /\ bkCall[c] \in {"run", "back"} /\ bkSeen[c] = "none"
  /\ bkSeen' = [bkSeen EXCEPT ![c] = "gone"]
  /\ UNCHANGED <<bkSessions, bkCall, bkReply, bkQueue, bkLoop, bkTasks, bkCut>>

\* POST /api/v1/task: the entry exists, empty, before the goroutine that runs it.
BkPostTask(c) ==
  /\ bkCall[c] = "new" /\ bkFront[c] = "task"
  /\ bkTasks' = [bkTasks EXCEPT ![c] = "pending"]
  /\ bkCall' = [bkCall EXCEPT ![c] = "posted"]
  /\ UNCHANGED <<bkSessions, bkReply, bkSeen, bkQueue, bkLoop, bkCut>>

BkRunTask(c) ==
  /\ bkCall[c] = "posted"
  /\ BkHandle(c)
  /\ UNCHANGED <<bkReply, bkSeen, bkQueue, bkLoop, bkTasks, bkCut>>

\* mutant: the goroutine returns on an error before it stores the reply
BkStoreTaskOnSuccess(c) ==
  /\ bkCall[c] = "back" /\ bkFront[c] = "task" /\ bkTasks[c] = "pending" /\ bkReply[c] # "failed"
  /\ bkTasks' = [bkTasks EXCEPT ![c] = bkReply[c]]
  /\ UNCHANGED <<bkSessions, bkCall, bkReply, bkSeen, bkQueue, bkLoop, bkCut>>

BkStoreTask(c) ==
  /\ bkCall[c] = "back" /\ bkFront[c] = "task" /\ bkTasks[c] = "pending"
  /\ bkTasks' = [bkTasks EXCEPT ![c] = bkReply[c]]
  /\ UNCHANGED <<bkSessions, bkCall, bkReply, bkSeen, bkQueue, bkLoop, bkCut>>

\* GET /api/v1/task: "done" is told by the reply not being empty.
BkDone(c) == bkTasks[c] \notin {"absent", "pending", "nothing"}

BkPollTask(c) ==
  /\ BkDone(c) /\ bkSeen[c] = "none"
  /\ bkSeen' = [bkSeen EXCEPT ![c] = bkTasks[c]]
  /\ UNCHANGED <<bkSessions, bkCall, bkReply, bkQueue, bkLoop, bkTasks, bkCut>>

\* A channel calls Enqueue.
BkOffer(c) ==
  /\ bkCall[c] = "new" /\ bkFront[c] = "queue"
  /\ bkCall' = [bkCall EXCEPT ![c] = "offered"]
  /\ UNCHANGED <<bkSessions, bkReply, bkSeen, bkQueue, bkLoop, bkTasks, bkCut>>

\* mutant: a queue without a bound
BkEnqueueUnbounded(c) ==
  /\ bkCall[c] = "offered"
  /\ bkQueue' = Append(bkQueue, c)
  /\ bkCall' = [bkCall EXCEPT ![c] = "queued"]
  /\ UNCHANGED <<bkSessions, bkReply, bkSeen, bkLoop, bkTasks, bkCut>>

\* Enqueue blocks while the channel is full, whether Start still reads it or not.
BkEnqueue(c) ==
  /\ bkCall[c] = "offered" /\ Len(bkQueue) < BkQueueCap
  /\ bkQueue' = Append(bkQueue, c)
  /\ bkCall' = [bkCall EXCEPT ![c] = "queued"]
  /\ UNCHANGED <<bkSessions, bkReply, bkSeen, bkLoop, bkTasks, bkCut>>

\* One round of Start: it takes a message, handles it, and calls the handler of
\* its channel, whose panic is recovered; only then does it take the next.
BkTake ==
  /\ bkLoop = "idle" /\ bkQueue # <<>>
  /\ BkHandle(Head(bkQueue))
  /\ bkLoop' = Head(bkQueue)
  /\ bkQueue' = Tail(bkQueue)
  /\ UNCHANGED <<bkReply, bkSeen, bkTasks, bkCut>>

BkDeliver(c) ==
  /\ bkLoop = c /\ bkCall[c] = "back"
  /\ bkSeen' = [bkSeen EXCEPT ![c] = bkReply[c]]
  /\ bkLoop' = "idle"
  /\ UNCHANGED <<bkSessions, bkCall, bkReply, bkQueue, bkTasks, bkCut>>

BkStop ==
  /\ bkLoop = "idle"
  /\ bkLoop' = "stopped"
  /\ UNCHANGED <<bkSessions, bkCall, bkReply, bkSeen, bkQueue, bkTasks, bkCut>>

\* /reset of a channel or of the terminal, at any moment.
BkReset(k) ==
  /\ bkSessions[k] # <<>>
  /\ bkSessions' = [bkSessions EXCEPT ![k] = <<>>]
  /\ bkCut' = [c \in BkCallers |-> bkCut[c] \/ (BkKey[c] = k /\ bkCall[c] # "new")]
  /\ UNCHANGED <<bkCall, bkReply, bkSeen, bkQueue, bkLoop, bkTasks>>

BkStep(c) ==
  \/ BkRefuse(c) \/ BkChat(c) \/ BkOpenAI(c) \/ BkTerminal(c) \/ BkStream(c)
  \/ BkReturn(c) \/ BkAnswer(c) \/ BkLeave(c)
  \/ BkPostTask(c) \/ BkRunTask(c) \/ BkStoreTask(c) \/ BkPollTask(c)
  \/ BkOffer(c) \/ BkEnqueue(c) \/ BkDeliver(c)

BkNext ==
  /\ (\E c \in BkCallers : BkStep(c)) \/ BkTake \/ BkStop \/ (\E k \in BkKeys : BkReset(k))
  /\ UNCHANGED bkFront

\* A run ends within 120 seconds; goroutines, clients that wait and the loop go on.
BkProgress(c) ==
  \/ BkReturn(c) \/ BkAnswer(c) \/ BkRunTask(c) \/ BkStoreTask(c) \/ BkPollTask(c)
  \/ BkEnqueue(c) \/ BkDeliver(c)

-----------------------------------------------------------------------------
BkTypeOK ==
  /\ bkFront \in BkMixes
  /\ bkSessions \in [BkKeys -> Seq([role : {"user", "assistant"}, of : BkCallers])]
  /\ bkCall \in [BkCallers -> {"new", "refused", "posted", "offered", "queued", "run", "back"}]
  /\ bkReply \in [BkCallers -> BkOutcomes \union {"none"}]
  /\ bkSeen \in [BkCallers -> BkOutcomes \union {"none", "gone"}]
  /\ bkQueue \in Seq(BkCallers) /\ Len(bkQueue) <= BkQueueCap
  /\ bkLoop \in BkCallers \union {"idle", "stopped"}
  /\ bkTasks \in [BkCallers -> BkOutcomes \union {"absent", "pending"}]
  /\ bkCut \in [BkCallers -> BOOLEAN]

BkAt(c, role) == {i \in DOMAIN bkSessions[BkKey[c]] : bkSessions[BkKey[c]][i] = [role |-> role, of |-> c]}

\* Runs of one conversation overlap, are reset and fail, yet its record tells the
\* truth: a message that was handled and never reset away stands in it once, its
\* answer stands behind it exactly when the engine gave one, and an answer alone
\* is one whose question a reset took.
BkRecordFaithful ==
  \A c \in BkCallers :
    LET asked == BkAt(c, "user") IN LET told == BkAt(c, "assistant") IN
    /\ ~bkCut[c] => /\ (asked # {}) = (bkCall[c] \in {"run", "back"})
                    /\ (told # {}) = (bkReply[c] \in {"text", "nothing"})
    /\ \A i, j \in asked \union told : bkSessions[BkKey[c]][i] = bkSessions[BkKey[c]][j] => i = j
    /\ \A i \in told : bkReply[c] \in {"text", "nothing"} /\ (asked = {} => bkCut[c]) /\ \A j \in asked : j < i

\* A caller waits until it is told, or has left; the one who never will be is the
\* poster of a task whose answer is empty, which GET /api/v1/task reports as not
\* done for ever.  Whoever is blocked in Enqueue, or has a message in the queue, is
\* served while Start runs; once it has returned, messages stay in the queue and a
\* sender that finds it full stays blocked.
BkToldOf(c) == bkSeen[c] # "none" \/ bkTasks[c] = "nothing"

BkWaits(c) ==
  \/ bkCall[c] \in {"posted", "run", "back"} /\ ~BkToldOf(c)
  \/ bkCall[c] \in {"offered", "queued"} /\ bkLoop # "stopped"
=============================================================================
