--------------------------- MODULE TelegramPolling ---------------------------
(***************************************************************************)
(* The Telegram adapter (internal/gateway/telegram.go, telegram_rich.go,   *)
(* telegram_policy.go): one goroutine fetches batches of updates and       *)
(* handles each in turn; an update number is confirmed to Telegram, which  *)
(* then forgets the update, by asking for the numbers behind it.  The      *)
(* offset lives in memory and, after every whole batch, in a file.         *)
(*                                                                         *)
(* What a message says is its kind: text, a voice note, a pressed button   *)
(* or a poll vote, an edit, a registered command, /speak, or something     *)
(* nobody may send.  Telegram's side (what is pending, which updates come  *)
(* in one batch) is the environment.                                       *)
(***************************************************************************)
EXTENDS Naturals, Sequences, FiniteSets

CONSTANTS
  TgKinds,     \* the kinds of update that occur
  TgMax,       \* bound on the updates sent
  TgFaults,    \* bound on failed polls, failed sends, failed saves and stops together
  TgChunks     \* messages a long reply is cut into

ASSUME TgAssumption ==
  /\ TgKinds \subseteq {"text", "voice", "button", "vote", "edit", "command", "speak", "denied"}
  /\ TgMax \in Nat /\ TgFaults \in Nat /\ TgChunks \in Nat \ {0}

TgIds == 1..TgMax

VARIABLES
  tgKind,      \* what each update sent so far is, by number
  tgForgotten, \* the updates Telegram no longer keeps: those below this number
  tgOffset,    \* RunPolling's offset: the next number to ask for
  tgDisk,      \* the offset file
  tgBatch,     \* updates of the batch not yet handled
  tgPc,        \* where RunPolling stands
  tgNow,       \* the update being handled
  tgLeft,      \* chunks of its reply still to send
  tgRuns,      \* how often each update was given to the engine
  tgEnded,     \* the updates whose handling came to its end
  tgStreak,    \* HealthMonitor.FailStreak, up to 4: the third tells the operator
  tgFaulty     \* faults so far

tgWire == <<tgKind, tgForgotten>>
tgVars == <<tgKind, tgForgotten, tgOffset, tgDisk, tgBatch, tgPc, tgNow, tgLeft, tgRuns, tgEnded,
            tgStreak, tgFaulty>>

TgInit ==
  /\ tgKind = <<>> /\ tgForgotten = 1 /\ tgOffset = 0 /\ tgDisk = 0
  /\ tgBatch = <<>> /\ tgPc = "poll" /\ tgNow = 0 /\ tgLeft = 0
  /\ tgRuns = [u \in TgIds |-> 0] /\ tgEnded = {}
  /\ tgStreak = 0 /\ tgFaulty = 0

\* A user writes, speaks, presses, votes or edits.
TgArrive(k) ==
  /\ Len(tgKind) < TgMax
  /\ tgKind' = Append(tgKind, k)
  /\ UNCHANGED <<tgForgotten, tgOffset, tgDisk, tgBatch, tgPc, tgNow, tgLeft, tgRuns, tgEnded, tgStreak, tgFaulty>>

\* getUpdates: what is below the offset is forgotten, any number of what follows is sent.
TgFirst == IF tgOffset > tgForgotten THEN tgOffset ELSE tgForgotten

TgFetch ==
  /\ tgPc = "poll"
  /\ tgForgotten' = TgFirst
  /\ \E last \in (IF TgFirst > Len(tgKind) THEN {TgFirst - 1} ELSE TgFirst..Len(tgKind)) :
        tgBatch' = [i \in 1..(last - TgFirst + 1) |-> TgFirst + i - 1]
  /\ tgPc' = "next"
  /\ UNCHANGED <<tgKind, tgOffset, tgDisk, tgNow, tgLeft, tgRuns, tgEnded, tgStreak, tgFaulty>>

TgFault == tgFaulty < TgFaults /\ tgFaulty' = tgFaulty + 1

TgRecordFailure == tgStreak' = IF tgStreak < 4 THEN tgStreak + 1 ELSE tgStreak
TgRecordSuccess == tgStreak' = 0

\* Telegram answers 429: the streak grows, the loop waits as it was told (at most
\* five minutes) or two seconds.  A transport error only waits.  Telegram may have
\* seen the offset of a request whose answer is lost or cannot be read.
TgPollFails ==
  /\ tgPc = "poll" /\ TgFault
  /\ \/ TgRecordFailure /\ UNCHANGED tgForgotten
     \/ UNCHANGED tgStreak /\ tgForgotten' \in {tgForgotten, TgFirst}
  /\ tgPc' = "wait"
  /\ UNCHANGED <<tgKind, tgOffset, tgDisk, tgBatch, tgNow, tgLeft, tgRuns, tgEnded>>

TgWaited ==
  /\ tgPc = "wait"
  /\ tgPc' = "poll"
  /\ UNCHANGED <<tgWire, tgOffset, tgDisk, tgBatch, tgNow, tgLeft, tgRuns, tgEnded, tgStreak, tgFaulty>>

\* mutant: the offset file passes an update before it is handled
TgAdvanceSaved ==
  /\ tgPc = "next" /\ tgBatch # <<>>
  /\ tgNow' = Head(tgBatch)
  /\ tgBatch' = Tail(tgBatch)
  /\ tgOffset' = Head(tgBatch) + 1 /\ tgDisk' = Head(tgBatch) + 1
  /\ tgPc' = "handle"
  /\ UNCHANGED <<tgWire, tgLeft, tgRuns, tgEnded, tgStreak, tgFaulty>>

\* The next update of the batch: the offset moves past it before it is handled.
TgAdvance ==
  /\ tgPc = "next" /\ tgBatch # <<>>
  /\ tgNow' = Head(tgBatch)
  /\ tgBatch' = Tail(tgBatch)
  /\ tgOffset' = IF Head(tgBatch) >= tgOffset THEN Head(tgBatch) + 1 ELSE tgOffset
  /\ tgPc' = "handle"
  /\ UNCHANGED <<tgWire, tgDisk, tgLeft, tgRuns, tgEnded, tgStreak, tgFaulty>>

TgRoute(k, pc) ==
  /\ tgPc = "handle" /\ tgKind[tgNow] = k
  /\ tgPc' = pc
  /\ tgEnded' = IF pc = "next" THEN tgEnded \union {tgNow} ELSE tgEnded
  /\ UNCHANGED <<tgWire, tgOffset, tgDisk, tgBatch, tgNow, tgLeft, tgRuns, tgStreak, tgFaulty>>

\* handleUpdate's routing.  A sender or a group that may not, a text without the
\* mention a group asks for, a registered command and /speak end at once; the
\* rest goes to the engine.
TgDenied  == TgRoute("denied", "next")
TgCommand == TgRoute("command", "next")
TgSpeak   == TgRoute("speak", "next")
TgText    == TgRoute("text", "run")
TgButton  == TgRoute("button", "run")
TgVote    == TgRoute("vote", "run")
TgEdited  == TgRoute("edit", "run")

\* A voice note is fetched and transcribed, or an apology is sent.
TgHear      == TgRoute("voice", "hear")
TgHearFails == TgRoute("voice", "next")

TgHandled(pc) ==
  /\ tgRuns' = [tgRuns EXCEPT ![tgNow] = @ + 1]
  /\ tgPc' = pc
  /\ UNCHANGED <<tgWire, tgOffset, tgDisk, tgBatch, tgNow, tgEnded, tgStreak, tgFaulty>>

\* Broker.Handle returns, at the latest after 120 seconds, with a reply of some
\* chunks; the answer to an edit replaces a message first.
TgRun ==
  /\ tgPc = "run"
  /\ TgHandled(IF tgKind[tgNow] = "edit" THEN "replace" ELSE "send")
  /\ tgLeft' \in {1, TgChunks}

\* handleVoice asks the engine and sends the reply itself (nobody counts how those
\* calls fare); then it hands the text back, and handleUpdate goes on with it,
\* up to the mention a group may ask for.
TgRunVoice ==
  /\ tgPc = "hear"
  /\ TgHandled("voice")
  /\ tgLeft' \in {1, TgChunks}

TgSendVoice ==
  /\ tgPc = "voice"
  /\ tgLeft' = tgLeft - 1
  /\ IF tgLeft > 1 THEN UNCHANGED <<tgPc, tgEnded>>
     ELSE \/ tgPc' = "run" /\ UNCHANGED tgEnded
          \/ tgPc' = "next" /\ tgEnded' = tgEnded \union {tgNow}
  /\ UNCHANGED <<tgWire, tgOffset, tgDisk, tgBatch, tgNow, tgRuns, tgStreak, tgFaulty>>

\* An empty reply to an edit is dropped; a message that can no longer be edited is
\* answered with a new one.
TgReplace ==
  /\ tgPc = "replace"
  /\ \/ tgPc' = "next" /\ tgEnded' = tgEnded \union {tgNow} /\ tgLeft' = 0
     \/ tgPc' = "send" /\ UNCHANGED <<tgEnded, tgLeft>>
  /\ UNCHANGED <<tgWire, tgOffset, tgDisk, tgBatch, tgNow, tgRuns, tgStreak, tgFaulty>>

\* One chunk of the reply is sent, or is lost: a failure stops neither the rest of
\* the reply nor the batch.
TgSend ==
  /\ tgPc = "send"
  /\ \/ TgRecordSuccess /\ UNCHANGED tgFaulty
     \/ TgFault /\ TgRecordFailure
  /\ tgLeft' = tgLeft - 1
  /\ IF tgLeft = 1 THEN tgPc' = "next" /\ tgEnded' = tgEnded \union {tgNow}
                   ELSE UNCHANGED <<tgPc, tgEnded>>
  /\ UNCHANGED <<tgWire, tgOffset, tgDisk, tgBatch, tgNow, tgRuns>>

\* The batch is done: the offset goes to the file by way of a temporary one, so
\* that the file holds the old number or the new one; a failure is ignored.
TgSave ==
  /\ tgPc = "next" /\ tgBatch = <<>>
  /\ \/ tgDisk' = tgOffset /\ UNCHANGED tgFaulty
     \/ UNCHANGED tgDisk /\ TgFault
  /\ tgPc' = "poll"
  /\ UNCHANGED <<tgWire, tgOffset, tgBatch, tgNow, tgLeft, tgRuns, tgEnded, tgStreak>>

\* A request to Telegram, or a transcriber, never comes back: only the poll has a
\* deadline, the rest goes by http.DefaultClient with the context of the process.
TgHang ==
  /\ tgPc \in {"handle", "hear", "voice", "run", "replace", "send"}
  /\ tgPc' = "hung"
  /\ UNCHANGED <<tgWire, tgOffset, tgDisk, tgBatch, tgNow, tgLeft, tgRuns, tgEnded, tgStreak, tgFaulty>>

\* The process is stopped or dies.  A stop is noticed between two polls, two
\* updates or two chunks, a kill at any moment; neither saves the offset.
TgStop ==
  /\ tgPc # "stopped" /\ TgFault
  /\ tgPc' = "stopped"
  /\ tgBatch' = <<>>
  /\ UNCHANGED <<tgWire, tgOffset, tgDisk, tgNow, tgLeft, tgRuns, tgEnded, tgStreak>>

\* mutant: a restart begins behind what is pending
TgRestartFresh ==
  /\ tgPc = "stopped"
  /\ tgOffset' = Len(tgKind) + 1
  /\ tgPc' = "poll" /\ tgNow' = 0 /\ tgLeft' = 0
  /\ tgStreak' = 0
  /\ UNCHANGED <<tgWire, tgDisk, tgBatch, tgRuns, tgEnded, tgFaulty>>

\* loadOffset: a file that is missing or cannot be read means 0.
TgRestart ==
  /\ tgPc = "stopped"
  /\ tgOffset' = tgDisk
  /\ tgPc' = "poll" /\ tgNow' = 0 /\ tgLeft' = 0
  /\ tgStreak' = 0
  /\ UNCHANGED <<tgWire, tgDisk, tgBatch, tgRuns, tgEnded, tgFaulty>>

TgHandling ==
  \/ TgDenied \/ TgCommand \/ TgSpeak \/ TgText \/ TgButton \/ TgVote \/ TgEdited
  \/ TgHear \/ TgHearFails \/ TgRunVoice \/ TgSendVoice \/ TgRun \/ TgReplace \/ TgSend

TgStep == TgFetch \/ TgWaited \/ TgAdvance \/ TgHandling \/ TgSave \/ TgRestart

TgNext == (\E k \in TgKinds : TgArrive(k)) \/ TgStep \/ TgPollFails \/ TgHang \/ TgStop

\* What a process that is up and whose requests come back does by itself with a batch
\* it has read.  That a poll gets through, or that somebody starts the process again,
\* is not up to the code.
TgWorks == TgAdvance \/ TgHandling \/ TgSave

-----------------------------------------------------------------------------
TgTypeOK ==
  /\ tgKind \in Seq(TgKinds) /\ Len(tgKind) <= TgMax
  /\ tgForgotten \in 1..(TgMax + 1) /\ tgOffset \in 0..(TgMax + 1) /\ tgDisk \in 0..(TgMax + 1)
  /\ tgBatch \in Seq(TgIds)
  /\ tgPc \in {"poll", "wait", "next", "handle", "hear", "voice", "run", "replace", "send", "hung", "stopped"}
  /\ tgNow \in 0..TgMax /\ tgLeft \in 0..TgChunks
  /\ tgRuns \in [TgIds -> 0..(2 * (TgFaults + 1))] /\ tgEnded \subseteq TgIds
  /\ tgStreak \in 0..4
  /\ tgFaulty \in 0..TgFaults

\* Telegram forgets an update, and the offset file passes it, only when it was
\* handled to its end: a stop, a kill, a failed save or a lost answer may make an
\* update come twice, and none makes it go unhandled.
TgNothingLost == \A u \in TgIds : u < tgForgotten \/ u < tgDisk => u \in tgEnded

\* What the users see of the polling: messages sent, handled and forgotten.
TgDelivery == INSTANCE OrderedDelivery WITH sent <- Len(tgKind), handled <- tgEnded, kept <- tgForgotten

\* The adapter delivers in order and at least once, through stops, kills, failed
\* saves and lost answers: no update is overtaken by one sent after it, and none is
\* forgotten before its turn.
TgDeliversInOrder == TgDelivery!Spec

\* An update of the batch that was read, not yet handled to its end by a process that
\* is up and has no request hanging.  One hung request holds up all that come behind.
TgWaits(u) ==
  /\ tgPc \notin {"hung", "stopped"} /\ u \notin tgEnded
  /\ u \in {tgBatch[i] : i \in DOMAIN tgBatch} \union {tgNow}

\* An update is given to the engine once: handleUpdate "routes one update's text
\* (or transcribed voice) through the broker", and a restart "skips already-seen
\* updates".
TgHandledOnce == \A u \in TgIds : tgRuns[u] <= 1
=============================================================================
