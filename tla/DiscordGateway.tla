--------------------------- MODULE DiscordGateway ---------------------------
(***************************************************************************)
(* The Discord websocket client (internal/gateway/discord_ws.go): Connect  *)
(* runs one session after another, each a dial, HELLO, IDENTIFY and a read *)
(* loop that handles every event before it reads the next frame, beside a  *)
(* heartbeat goroutine that shares the connection, the last sequence       *)
(* number and the flag that a beat is unanswered.  A session is never      *)
(* resumed: events sent while there is none are lost.                      *)
(*                                                                         *)
(* Frames in flight are what the server sent and the client has not read.  *)
(* Discord, the network and the length of a run are the environment.       *)
(***************************************************************************)
EXTENDS Naturals, Sequences, SequencesExt

CONSTANTS
  DcEvents,       \* bound on the events Discord sends
  DcInFlight,     \* bound on the frames in flight
  DcFaults,       \* bound on servers that fall silent, refuse, close or ask to reconnect
  DcMaxAttempts   \* wsMaxAttempts (5 in the code)

ASSUME DcAssumption == DcEvents \in Nat /\ DcInFlight \in Nat /\ DcFaults \in Nat /\ DcMaxAttempts \in Nat \ {0}

VARIABLES
  dcPc,        \* where Connect and runSession stand
  dcAttempt,   \* Connect's attempt
  dcGood,      \* this session was established (IDENTIFY sent)
  dcOpen,      \* the connection is open on our side
  dcWire,      \* frames sent by the server and not yet read
  dcBeat,      \* the heartbeat goroutine: "off", "timer" or "sent" (sent, flag not yet set)
  dcAwait,     \* awaitingAck
  dcOwed,      \* beats the server has received and not acknowledged
  dcSeq,       \* seq: the number of the last event read (0: none)
  dcSent,      \* events sent so far: the number of the last
  dcHandled,   \* the events given to the broker, in order
  dcSilent,    \* the server no longer answers on this connection
  dcRow,       \* ghost: sessions in a row that were not established
  dcCtx,       \* the process was told to stop
  dcFaulty,    \* faults so far
  dcKilled     \* ghost: the heartbeat closed a connection on which nothing was owed

dcLink == <<dcOpen, dcWire, dcSilent>>
dcPulse == <<dcBeat, dcAwait, dcOwed>>
dcFeed == <<dcSeq, dcSent, dcHandled>>
dcTries == <<dcAttempt, dcGood, dcRow>>
dcRest == <<dcCtx, dcFaulty, dcKilled>>
dcVars == <<dcPc, dcOpen, dcWire, dcSilent, dcBeat, dcAwait, dcOwed, dcSeq, dcSent, dcHandled,
            dcAttempt, dcGood, dcRow, dcCtx, dcFaulty, dcKilled>>

DcInit ==
  /\ dcPc = "lookup" /\ dcAttempt = 0 /\ dcGood = FALSE /\ dcRow = 0
  /\ dcOpen = FALSE /\ dcWire = <<>> /\ dcSilent = FALSE
  /\ dcBeat = "off" /\ dcAwait = FALSE /\ dcOwed = 0
  /\ dcSeq = 0 /\ dcSent = 0 /\ dcHandled = <<>>
  /\ dcCtx = FALSE /\ dcFaulty = 0 /\ dcKilled = FALSE

DcFault == dcFaulty < DcFaults /\ dcFaulty' = dcFaulty + 1

-----------------------------------------------------------------------------
\* Discord's side: an event, an acknowledgement, a request for a beat, an end.
DcPut(op, n) == dcOpen /\ ~dcSilent /\ Len(dcWire) < DcInFlight /\ dcWire' = Append(dcWire, [op |-> op, n |-> n])

DcOps == {"message", "press"}   \* the events the broker is asked about; of others only the number counts

DcIdentified == dcPc \in DcOps \union {"read", "reply", "ending"}

DcEmit ==
  /\ dcSent < DcEvents /\ dcSent' = dcSent + 1
  /\ \/ DcIdentified /\ \E op \in DcOps \union {"other"} : DcPut(op, dcSent')
     \/ ~(DcIdentified /\ dcOpen) /\ UNCHANGED dcWire        \* nobody listens: lost
  /\ UNCHANGED <<dcPc, dcTries, dcOpen, dcSilent, dcPulse, dcSeq, dcHandled, dcRest>>

DcAck ==
  /\ dcOwed > 0 /\ DcPut("ack", 0)
  /\ dcOwed' = dcOwed - 1
  /\ UNCHANGED <<dcPc, dcTries, dcOpen, dcSilent, dcBeat, dcAwait, dcFeed, dcRest>>

\* An end the server asks for (close, reconnect, invalid session) or a request for
\* a beat; a server or a network that is silent from now on.
DcAsk ==
  /\ DcIdentified /\ DcFault
  /\ \/ \E op \in {"beat", "end"} : DcPut(op, 0) /\ UNCHANGED dcSilent
     \/ dcOpen /\ dcSilent' = TRUE /\ UNCHANGED dcWire
  /\ UNCHANGED <<dcPc, dcTries, dcOpen, dcPulse, dcFeed, dcCtx, dcKilled>>

-----------------------------------------------------------------------------
\* Connect asks for the address once: without it there is no gateway, and no retry.
DcLookup ==
  /\ dcPc = "lookup"
  /\ \/ dcPc' = "dial" /\ UNCHANGED dcFaulty
     \/ dcPc' = "nourl" /\ (IF dcCtx THEN UNCHANGED dcFaulty ELSE DcFault)
  /\ UNCHANGED <<dcTries, dcLink, dcPulse, dcFeed, dcCtx, dcKilled>>

\* runSession.
DcDial ==
  /\ dcPc = "dial"
  /\ dcGood' = FALSE
  /\ \/ ~dcCtx /\ dcPc' = "hello" /\ dcOpen' = TRUE /\ UNCHANGED dcFaulty
     \/ dcCtx /\ dcPc' = "over" /\ UNCHANGED <<dcOpen, dcFaulty>>
     \/ DcFault /\ dcPc' = "over" /\ UNCHANGED dcOpen
  /\ dcWire' = <<>> /\ dcSilent' = FALSE /\ dcOwed' = 0
  /\ UNCHANGED <<dcAttempt, dcRow, dcBeat, dcAwait, dcFeed, dcCtx, dcKilled>>

\* HELLO is read and IDENTIFY sent; sequence and flag start anew and the heartbeat
\* goroutine with them.  Anything else than HELLO, or none in 30 seconds, ends it.
DcHello ==
  /\ dcPc = "hello"
  /\ \/ /\ dcOpen /\ dcGood' = TRUE /\ dcPc' = "read"
        /\ dcSeq' = 0 /\ dcAwait' = FALSE /\ dcBeat' = "timer"
        /\ UNCHANGED <<dcOpen, dcFaulty>>
     \/ /\ dcPc' = "over" /\ dcOpen' = FALSE
        /\ IF dcOpen THEN DcFault ELSE UNCHANGED dcFaulty
        /\ UNCHANGED <<dcGood, dcSeq, dcAwait, dcBeat>>
  /\ UNCHANGED <<dcAttempt, dcRow, dcWire, dcSilent, dcOwed, dcSent, dcHandled, dcCtx, dcKilled>>

\* One frame.  What was received before the connection was closed can still be read.
DcRead ==
  /\ dcPc = "read" /\ dcWire # <<>>
  /\ dcWire' = Tail(dcWire)
  /\ LET op == Head(dcWire).op IN
       /\ dcSeq' = IF op \in DcOps \union {"other"} THEN Head(dcWire).n ELSE dcSeq
       /\ dcAwait' = (dcAwait /\ op # "ack")
       /\ dcOwed' = IF op = "beat" /\ dcOpen THEN dcOwed + 1 ELSE dcOwed
       /\ dcPc' = CASE op \in DcOps -> op [] op = "end" -> "ending" [] OTHER -> "read"
  /\ UNCHANGED <<dcTries, dcOpen, dcSilent, dcBeat, dcSent, dcHandled, dcRest>>

\* The read fails: the connection is closed, or nothing came for two beats and
\* fifteen seconds.
DcReadFails ==
  /\ dcPc = "read" /\ (~dcOpen \/ (dcSilent /\ dcWire = <<>>))
  /\ dcPc' = "ending"
  /\ UNCHANGED <<dcTries, dcLink, dcPulse, dcFeed, dcRest>>

\* The engine runs, for as long as two minutes, before the loop reads again.
DcRun(op) ==
  /\ dcPc = op
  /\ dcHandled' = Append(dcHandled, dcSeq)
  /\ dcPc' \in {"read", "reply"}        \* an empty reply is not sent
  /\ UNCHANGED <<dcTries, dcLink, dcPulse, dcSeq, dcSent, dcRest>>

DcMessage == DcRun("message")   \* handleMessageCreate
DcPress   == DcRun("press")     \* handleInteractionCreate

\* The chunks of the reply are posted, all of them or up to the first that fails;
\* either way the session goes on.
DcReply ==
  /\ dcPc = "reply"
  /\ dcPc' = "read"
  /\ UNCHANGED <<dcTries, dcLink, dcPulse, dcFeed, dcRest>>

\* The end of runSession: it closes the connection and waits for the heartbeat
\* goroutine before it returns.
DcEnd ==
  /\ dcPc = "ending"
  /\ dcOpen' = FALSE
  /\ IF dcBeat = "off" THEN dcPc' = "over" ELSE UNCHANGED dcPc
  /\ UNCHANGED <<dcTries, dcWire, dcSilent, dcPulse, dcFeed, dcRest>>

-----------------------------------------------------------------------------
\* heartbeatLoop: the timer fires; an unanswered beat means a stale connection.  A
\* beat is tens of seconds: a loop that waits for a frame has by then read what came.
DcBeatDue ==
  /\ dcBeat = "timer" /\ (dcPc = "read" /\ dcOpen => dcWire = <<>>)
  /\ IF dcAwait
       THEN /\ dcOpen' = FALSE /\ dcBeat' = "off"
            /\ dcKilled' = (dcKilled \/ (dcOpen /\ dcOwed = 0))
            /\ UNCHANGED dcOwed
       ELSE /\ IF dcOpen THEN dcBeat' = "sent" /\ dcOwed' = dcOwed + 1
                         ELSE dcBeat' = "off" /\ UNCHANGED dcOwed
            /\ UNCHANGED <<dcOpen, dcKilled>>
  /\ UNCHANGED <<dcPc, dcTries, dcWire, dcSilent, dcAwait, dcFeed, dcCtx, dcFaulty>>

\* The flag is set after the beat was sent.
DcBeatSent ==
  /\ dcBeat = "sent"
  /\ dcAwait' = TRUE /\ dcBeat' = "timer"
  /\ UNCHANGED <<dcPc, dcTries, dcLink, dcOwed, dcFeed, dcRest>>

DcBeatStops ==
  /\ dcBeat = "timer" /\ (dcCtx \/ (dcPc = "ending" /\ ~dcOpen))
  /\ dcBeat' = "off"
  /\ UNCHANGED <<dcPc, dcTries, dcLink, dcAwait, dcOwed, dcFeed, dcRest>>

-----------------------------------------------------------------------------
\* Connect: a session that was established starts the count anew, the failure that
\* ended it is its first.
DcOver ==
  /\ dcPc = "over"
  /\ LET attempt == (IF dcGood THEN 0 ELSE dcAttempt) + 1 IN
       /\ dcAttempt' = attempt
       /\ dcPc' = IF dcCtx THEN "cancelled" ELSE IF attempt >= DcMaxAttempts THEN "gaveup" ELSE "pause"
  /\ dcRow' = IF dcGood THEN 0 ELSE dcRow + 1
  /\ UNCHANGED <<dcGood, dcLink, dcPulse, dcFeed, dcRest>>

DcRetry ==
  /\ dcPc = "pause"
  /\ dcPc' = IF dcCtx THEN "cancelled" ELSE "dial"
  /\ UNCHANGED <<dcTries, dcLink, dcPulse, dcFeed, dcRest>>

\* The process is told to stop: the connection is closed under whoever reads it, and
\* the waits end; only a run of the engine goes on to its end.
DcCancel ==
  /\ ~dcCtx /\ dcPc \notin {"nourl", "gaveup", "cancelled"}
  /\ dcCtx' = TRUE /\ dcOpen' = FALSE
  /\ UNCHANGED <<dcPc, dcTries, dcWire, dcSilent, dcPulse, dcFeed, dcFaulty, dcKilled>>

DcStep ==
  \/ DcLookup \/ DcDial \/ DcHello \/ DcRead \/ DcReadFails \/ DcMessage \/ DcPress \/ DcReply \/ DcEnd
  \/ DcBeatDue \/ DcBeatSent \/ DcBeatStops \/ DcOver \/ DcRetry

\* What is done about a silent server without any request coming back: HELLO has a
\* deadline, frames that came are read, the timer of the heartbeat fires.  Posting a
\* reply has no deadline and may keep the read loop for ever; the heartbeat does not wait for it.
DcWatch == DcHello \/ DcRead \/ DcReadFails \/ DcEnd \/ DcBeatDue \/ DcBeatSent

DcNext == DcStep \/ DcEmit \/ DcAck \/ DcAsk \/ DcCancel

-----------------------------------------------------------------------------
DcTypeOK ==
  /\ dcPc \in {"lookup", "nourl", "dial", "hello", "read", "message", "press", "reply", "ending", "over", "pause", "gaveup", "cancelled"}
  /\ dcAttempt \in 0..DcMaxAttempts /\ dcGood \in BOOLEAN /\ dcRow \in 0..DcMaxAttempts
  /\ dcOpen \in BOOLEAN /\ dcSilent \in BOOLEAN
  /\ dcWire \in Seq([op : DcOps \union {"other", "ack", "beat", "end"}, n : 0..DcEvents]) /\ Len(dcWire) <= DcInFlight
  /\ dcBeat \in {"off", "timer", "sent"} /\ dcAwait \in BOOLEAN /\ dcOwed \in Nat
  /\ dcSeq \in 0..DcEvents /\ dcSent \in 0..DcEvents /\ dcHandled \in Seq(1..DcEvents)
  /\ dcCtx \in BOOLEAN /\ dcFaulty \in 0..DcFaults /\ dcKilled \in BOOLEAN

\* One session at a time, and nothing of it outlives it: between two sessions no
\* heartbeat runs and no connection is open; no event is handled twice or out of
\* order, however often the session was lost; and Connect gives up only when the
\* attempts after the last established session, or all of them, failed in a row.
DcSessionsApart ==
  /\ dcPc \in {"dial", "over", "pause", "gaveup", "cancelled"} => dcBeat = "off" /\ ~dcOpen
  /\ \A i \in 1..(Len(dcHandled) - 1) : dcHandled[i] < dcHandled[i + 1]
  /\ dcPc = "gaveup" => dcRow >= DcMaxAttempts - 1

\* The client is held by a server that has fallen silent.
DcHeld == dcSilent /\ dcOpen

\* The heartbeat closes a connection only when a beat is unanswered: "If an ACK is
\* still outstanding when the next beat is due, the connection is presumed stale".
DcLiveKept == ~dcKilled
=============================================================================
