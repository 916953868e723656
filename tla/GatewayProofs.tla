---------------------------- MODULE GatewayProofs ----------------------------
(***************************************************************************)
(* The front ends: what their runs check of the broker's record, of        *)
(* Telegram's offsets, of Discord's sessions and of the websocket server   *)
(* holds for every set of callers, every bound and every number of faults. *)
(* Each component has an inductive invariant of its own; that they are     *)
(* composed in MCServe without disturbing each other is the last part.     *)
(***************************************************************************)
EXTENDS MCServe, SequenceTheorems, TLAPS

\* Taking the first of a queue: what follows moves up by one place.
LEMMA HeadAndTail ==
  ASSUME NEW S, NEW s \in Seq(S), s # <<>>
  PROVE  /\ Len(s) \in Nat /\ Len(s) > 0 /\ DOMAIN s = 1..Len(s) /\ 1 \in DOMAIN s
         /\ Head(s) = s[1] /\ Head(s) \in S
         /\ Tail(s) \in Seq(S) /\ Len(Tail(s)) = Len(s) - 1
         /\ \A i \in DOMAIN Tail(s) : i \in Nat /\ i > 0 /\ i + 1 \in DOMAIN s /\ Tail(s)[i] = s[i + 1]
  OBVIOUS

\* Joining the end of a queue.
LEMMA AtTheEnd ==
  ASSUME NEW S, NEW s \in Seq(S), NEW e \in S
  PROVE  /\ Append(s, e) \in Seq(S) /\ Len(s) \in Nat /\ Len(Append(s, e)) = Len(s) + 1
         /\ DOMAIN s = 1..Len(s) /\ DOMAIN Append(s, e) = 1..(Len(s) + 1)
         /\ \A i \in DOMAIN s : Append(s, e)[i] = s[i] /\ i < Len(s) + 1
         /\ Append(s, e)[Len(s) + 1] = e
         /\ \A i \in DOMAIN Append(s, e) : i \in DOMAIN s \/ i = Len(s) + 1
  OBVIOUS

BkSpec == BkInit /\ [][BkNext]_bkVars

----------------------------------------------------------------------------
(* Broker.  That a message stands in the record once is not inductive: it   *)
(* needs that a queued message has not been handled and is queued once, and *)
(* that Handle has returned exactly when it has a reply.                    *)

BkQueuedOnce ==
  /\ \A i \in DOMAIN bkQueue : bkCall[bkQueue[i]] = "queued"
  /\ \A i, j \in DOMAIN bkQueue : bkQueue[i] = bkQueue[j] => i = j

BkBackWithReply == \A c \in BkCallers : bkReply[c] # "none" <=> bkCall[c] = "back"

\* Nothing is recorded of a message that is not being, or has not been, handled.
BkUnhandled == \A c \in BkCallers : bkCall[c] \notin {"run", "back"} => BkAt(c, "user") = {}

\* BkRecordFaithful in terms of the places of a message and of its answer only.
BkPlacedAt(c) ==
  LET asked == BkAt(c, "user") IN LET told == BkAt(c, "assistant") IN
  /\ ~bkCut[c] => /\ (asked # {}) <=> (bkCall[c] \in {"run", "back"})
                  /\ (told # {}) <=> (bkReply[c] \in {"text", "nothing"})
  /\ \A i, j \in asked : i = j
  /\ \A i, j \in told : i = j
  /\ \A i \in told : bkReply[c] \in {"text", "nothing"} /\ (asked = {} => bkCut[c]) /\ \A j \in asked : j < i

BkPlaced == \A c \in BkCallers : BkPlacedAt(c)

BkInv == BkTypeOK /\ BkQueuedOnce /\ BkBackWithReply /\ BkUnhandled /\ BkPlaced

BkTurn(c, role) == [role |-> role, of |-> c]
BkTurns == [role : {"user", "assistant"}, of : BkCallers]
BkStandings == {"new", "refused", "posted", "offered", "queued", "run", "back"}

LEMMA BkPlacedIsFaithful == BkPlaced => BkRecordFaithful
<1> SUFFICES ASSUME BkPlaced, NEW c \in BkCallers,
                    NEW i \in BkAt(c, "user") \cup BkAt(c, "assistant"),
                    NEW j \in BkAt(c, "user") \cup BkAt(c, "assistant"),
                    bkSessions[BkKey[c]][i] = bkSessions[BkKey[c]][j]
             PROVE  i = j
  BY DEF BkPlaced, BkPlacedAt, BkRecordFaithful
<1>1. BkTurn(c, "user") # BkTurn(c, "assistant")
  BY DEF BkTurn
<1>2. (i \in BkAt(c, "user") /\ j \in BkAt(c, "user")) \/ (i \in BkAt(c, "assistant") /\ j \in BkAt(c, "assistant"))
  BY <1>1 DEF BkAt, BkTurn
<1> QED
  BY <1>2 DEF BkPlaced, BkPlacedAt

LEMMA BkAppendedAt ==
  ASSUME BkTypeOK, NEW c \in BkCallers, NEW role \in {"user", "assistant"},
         bkSessions' = BkAppended(c, role)
  PROVE  /\ bkSessions' \in [BkKeys -> Seq(BkTurns)]
         /\ \A d \in BkCallers, r \in {"user", "assistant"} :
              BkAt(d, r)' = IF d = c /\ r = role THEN BkAt(c, role) \cup {Len(bkSessions[BkKey[c]]) + 1}
                                                 ELSE BkAt(d, r)
<1> DEFINE k == BkKey[c]
           e == BkTurn(c, role)
<1>1. k \in BkKeys /\ bkSessions[k] \in Seq(BkTurns) /\ e \in BkTurns
  BY DEF BkKeys, BkTypeOK, BkTurns, BkTurn
<1>2. bkSessions' = [bkSessions EXCEPT ![k] = Append(bkSessions[k], e)]
  BY DEF BkAppended, BkTurn
<1>3. bkSessions' \in [BkKeys -> Seq(BkTurns)]
  <2>1. Append(bkSessions[k], e) \in Seq(BkTurns)
    BY <1>1
  <2> QED
    BY <1>1, <1>2, <2>1 DEF BkTypeOK, BkTurns
<1>4. /\ Len(bkSessions[k]) \in Nat /\ DOMAIN bkSessions[k] = 1..Len(bkSessions[k])
      /\ DOMAIN Append(bkSessions[k], e) = 1..(Len(bkSessions[k]) + 1)
      /\ \A i \in 1..Len(bkSessions[k]) : Append(bkSessions[k], e)[i] = bkSessions[k][i]
      /\ Append(bkSessions[k], e)[Len(bkSessions[k]) + 1] = e
  BY <1>1
<1>5. ASSUME NEW d \in BkCallers, NEW r \in {"user", "assistant"}
      PROVE  BkAt(d, r)' = IF d = c /\ r = role THEN BkAt(c, role) \cup {Len(bkSessions[k]) + 1}
                                                ELSE BkAt(d, r)
  <2>1. CASE BkKey[d] # k
    <3>1. BkKey[d] \in BkKeys
      BY DEF BkKeys
    <3> QED
      BY <1>1, <1>2, <2>1, <3>1 DEF BkAt, BkTypeOK
  <2>2. CASE BkKey[d] = k
    <3>1. bkSessions'[BkKey[d]] = Append(bkSessions[k], e)
      BY <1>1, <1>2, <2>2 DEF BkTypeOK
    <3>2. (e = BkTurn(d, r)) <=> (d = c /\ r = role)
      BY DEF BkTurn
    <3> QED
      BY <1>4, <2>2, <3>1, <3>2 DEF BkAt, BkTurn
  <2> QED
    BY <2>1, <2>2
<1> QED
  BY <1>3, <1>5

\* What an action that leaves the record and the callers' standing alone preserves.
LEMMA BkRest ==
  ASSUME BkInv, UNCHANGED <<bkSessions, bkCall, bkReply, bkCut>>
  PROVE  BkBackWithReply' /\ BkUnhandled' /\ BkPlaced'
<1>1. \A c \in BkCallers : BkAt(c, "user")' = BkAt(c, "user") /\ BkAt(c, "assistant")' = BkAt(c, "assistant")
  BY DEF BkAt
<1>2. \A c \in BkCallers : BkPlacedAt(c)'
  BY <1>1 DEF BkInv, BkPlaced, BkPlacedAt
<1> QED
  BY <1>1, <1>2 DEF BkInv, BkBackWithReply, BkUnhandled, BkPlaced

\* Handle begins for a message that was not handled before: it stands in the
\* record once, at the end, and unanswered.
LEMMA BkHandleInv ==
  ASSUME BkInv, NEW c \in BkCallers, bkCall[c] \notin {"run", "back"},
         BkHandle(c), UNCHANGED <<bkReply, bkCut>>
  PROVE  /\ bkSessions' \in [BkKeys -> Seq(BkTurns)]
         /\ bkCall' \in [BkCallers -> BkStandings]
         /\ BkBackWithReply' /\ BkUnhandled' /\ BkPlaced'
<1> USE DEF BkInv
<1>1. /\ bkSessions' \in [BkKeys -> Seq(BkTurns)]
      /\ \A d \in BkCallers, r \in {"user", "assistant"} :
           BkAt(d, r)' = IF d = c /\ r = "user" THEN BkAt(c, "user") \cup {Len(bkSessions[BkKey[c]]) + 1}
                                                ELSE BkAt(d, r)
  BY BkAppendedAt DEF BkHandle
<1>2. bkCall' = [bkCall EXCEPT ![c] = "run"] /\ bkCall' \in [BkCallers -> BkStandings]
  BY DEF BkHandle, BkTypeOK, BkStandings
<1>3. BkBackWithReply' /\ BkUnhandled'
  BY <1>1, <1>2 DEF BkBackWithReply, BkUnhandled, BkTypeOK
<1>4. BkAt(c, "user") = {} /\ BkAt(c, "assistant") = {} /\ bkReply[c] = "none"
  BY DEF BkUnhandled, BkBackWithReply, BkPlaced, BkPlacedAt
<1>5. BkPlaced'
  <2>1. ASSUME NEW d \in BkCallers, d # c
        PROVE  BkPlacedAt(d)'
    <3>1. /\ BkAt(d, "user")' = BkAt(d, "user") /\ BkAt(d, "assistant")' = BkAt(d, "assistant")
          /\ bkCall'[d] = bkCall[d]
      BY <1>1, <1>2, <2>1 DEF BkTypeOK
    <3> QED
      BY <3>1 DEF BkPlaced, BkPlacedAt
  <2>2. BkPlacedAt(c)'
    <3>1. /\ BkAt(c, "user")' = {Len(bkSessions[BkKey[c]]) + 1} /\ BkAt(c, "assistant")' = {}
          /\ bkCall'[c] = "run"
      BY <1>1, <1>2, <1>4 DEF BkTypeOK
    <3> QED
      BY <1>4, <3>1 DEF BkPlacedAt
  <2> QED
    BY <2>1, <2>2 DEF BkPlaced
<1> QED
  BY <1>1, <1>2, <1>3, <1>5

\* Handle returns: an answer stands behind its question, if the question is there.
LEMMA BkReturnInv ==
  ASSUME BkInv, NEW c \in BkCallers, BkReturn(c)
  PROVE  /\ bkSessions' \in [BkKeys -> Seq(BkTurns)]
         /\ bkCall' \in [BkCallers -> BkStandings]
         /\ bkReply' \in [BkCallers -> BkOutcomes \cup {"none"}]
         /\ BkBackWithReply' /\ BkUnhandled' /\ BkPlaced'
<1> USE DEF BkInv
<1> PICK out \in BkOutcomes :
      /\ bkReply' = [bkReply EXCEPT ![c] = out]
      /\ bkSessions' = BkRecorded(c, out)
  BY DEF BkReturn
<1>1. /\ bkCall[c] = "run" /\ bkCall' = [bkCall EXCEPT ![c] = "back"]
      /\ bkCall' \in [BkCallers -> BkStandings]
      /\ bkReply' \in [BkCallers -> BkOutcomes \cup {"none"}]
      /\ bkCut' = bkCut
  BY DEF BkReturn, BkTypeOK, BkStandings
<1>2. bkReply[c] = "none" /\ BkAt(c, "assistant") = {}
  BY <1>1 DEF BkBackWithReply, BkPlaced, BkPlacedAt
<1>3. BkBackWithReply'
  BY <1>1 DEF BkBackWithReply, BkTypeOK, BkOutcomes
<1>4. CASE out = "failed"
  <2>1. bkSessions' = bkSessions
    BY <1>4 DEF BkRecorded
  <2>2. bkSessions' \in [BkKeys -> Seq(BkTurns)]
    BY <2>1 DEF BkTypeOK, BkTurns
  <2>3. \A d \in BkCallers, r \in {"user", "assistant"} : BkAt(d, r)' = BkAt(d, r)
    BY <2>1 DEF BkAt
  <2>4. \A d \in BkCallers : BkPlacedAt(d)'
    BY <1>1, <1>2, <1>4, <2>3 DEF BkPlaced, BkPlacedAt, BkTypeOK
  <2>5. BkUnhandled' /\ BkPlaced'
    BY <1>1, <2>3, <2>4 DEF BkUnhandled, BkPlaced, BkTypeOK
  <2> QED
    BY <1>1, <1>3, <2>2, <2>5
<1>5. CASE out # "failed"
  <2>1. /\ bkSessions' \in [BkKeys -> Seq(BkTurns)]
        /\ \A d \in BkCallers, r \in {"user", "assistant"} :
             BkAt(d, r)' = IF d = c /\ r = "assistant" THEN BkAt(c, r) \cup {Len(bkSessions[BkKey[c]]) + 1}
                                                       ELSE BkAt(d, r)
    <3>1. bkSessions' = BkAppended(c, "assistant")
      BY <1>5 DEF BkRecorded, BkOutcomes
    <3> QED
      BY <3>1, BkAppendedAt
  <2>2. \A i \in BkAt(c, "user") : i < Len(bkSessions[BkKey[c]]) + 1
    BY DEF BkAt, BkTypeOK, BkKeys
  <2>3. BkUnhandled'
    BY <1>1, <2>1 DEF BkUnhandled, BkTypeOK
  <2>4. ASSUME NEW d \in BkCallers, d # c
        PROVE  /\ BkAt(d, "user")' = BkAt(d, "user") /\ BkAt(d, "assistant")' = BkAt(d, "assistant")
               /\ bkCall'[d] = bkCall[d] /\ bkReply'[d] = bkReply[d]
    BY <1>1, <2>1, <2>4 DEF BkTypeOK
  <2>5. /\ BkAt(c, "user")' = BkAt(c, "user") /\ BkAt(c, "assistant")' = {Len(bkSessions[BkKey[c]]) + 1}
        /\ bkCall'[c] = "back" /\ bkReply'[c] \in {"text", "nothing"}
    BY <1>1, <1>2, <1>5, <2>1 DEF BkTypeOK, BkOutcomes
  <2>6. BkPlaced'
    <3>1. ASSUME NEW d \in BkCallers, d # c
          PROVE  BkPlacedAt(d)'
      BY <1>1, <2>4, <3>1 DEF BkPlaced, BkPlacedAt
    <3>2. BkPlacedAt(c) /\ bkCut[c] \in BOOLEAN /\ bkCut'[c] = bkCut[c]
      BY <1>1 DEF BkPlaced, BkTypeOK
    <3>3. BkAt(c, "user") = {} => bkCut'[c]
      BY <1>1, <3>2 DEF BkPlacedAt
    <3>4. \A i, j \in BkAt(c, "user") : i = j
      BY <3>2 DEF BkPlacedAt
    <3>5. BkPlacedAt(c)'
      <4>1. ~bkCut[c]' => BkAt(c, "user")' # {} /\ BkAt(c, "assistant")' # {}
        BY <2>5, <3>2, <3>3
      <4> QED
        BY <1>1, <2>2, <2>5, <3>3, <3>4, <4>1 DEF BkPlacedAt
    <3> QED
      BY <3>1, <3>5 DEF BkPlaced
  <2> QED
    BY <1>1, <1>3, <2>1, <2>3, <2>6
<1> QED
  BY <1>4, <1>5

\* A step that moves a message from one waiting place to another.
LEMMA BkMovedInv ==
  ASSUME BkInv, NEW c \in BkCallers, NEW to \in {"refused", "posted", "offered", "queued"},
         bkCall[c] \in {"new", "offered"}, bkCall' = [bkCall EXCEPT ![c] = to],
         UNCHANGED <<bkSessions, bkReply, bkCut>>
  PROVE  BkBackWithReply' /\ BkUnhandled' /\ BkPlaced' /\ bkCall' \in [BkCallers -> BkStandings]
<1> USE DEF BkInv
<1>1. \A d \in BkCallers : BkAt(d, "user")' = BkAt(d, "user") /\ BkAt(d, "assistant")' = BkAt(d, "assistant")
  BY DEF BkAt
<1>2. bkCall' \in [BkCallers -> BkStandings]
  BY DEF BkTypeOK, BkStandings
<1>3. BkBackWithReply' /\ BkUnhandled'
  BY <1>1 DEF BkBackWithReply, BkUnhandled, BkTypeOK
<1>4. ASSUME NEW d \in BkCallers
      PROVE  BkPlacedAt(d)'
  <2>1. bkCall'[d] = bkCall[d] \/ (d = c /\ bkCall'[d] = to)
    BY DEF BkTypeOK
  <2> QED
    BY <1>1, <2>1 DEF BkPlaced, BkPlacedAt
<1> QED
  BY <1>2, <1>3, <1>4 DEF BkPlaced

LEMMA BkStepInv ==
  ASSUME BkInv, NEW c \in BkCallers, BkStep(c), UNCHANGED bkFront
  PROVE  BkInv'
<1> USE DEF BkInv
<1>1. CASE BkRefuse(c)
  <2>1. BkBackWithReply' /\ BkUnhandled' /\ BkPlaced' /\ bkCall' \in [BkCallers -> BkStandings]
    BY <1>1, BkMovedInv DEF BkRefuse
  <2>2. BkTypeOK'
    BY <1>1, <2>1 DEF BkRefuse, BkTypeOK, BkStandings
  <2>3. BkQueuedOnce'
    BY <1>1 DEF BkRefuse, BkQueuedOnce, BkTypeOK
  <2> QED
    BY <2>1, <2>2, <2>3
<1>2. CASE BkChat(c) \/ BkOpenAI(c) \/ BkTerminal(c) \/ BkStream(c) \/ BkRunTask(c)
  <2>1. /\ BkHandle(c) /\ bkCall[c] \in {"new", "posted"}
        /\ UNCHANGED <<bkReply, bkSeen, bkQueue, bkLoop, bkCut>>
        /\ bkTasks' = bkTasks
    BY <1>2 DEF BkChat, BkOpenAI, BkTerminal, BkStream, BkCallNow, BkRunTask
  <2>2. /\ bkSessions' \in [BkKeys -> Seq(BkTurns)]
        /\ bkCall' \in [BkCallers -> BkStandings]
        /\ BkBackWithReply' /\ BkUnhandled' /\ BkPlaced'
    BY <2>1, BkHandleInv
  <2>3. BkTypeOK'
    BY <2>1, <2>2 DEF BkTypeOK, BkTurns, BkStandings
  <2>4. BkQueuedOnce'
    BY <2>1 DEF BkQueuedOnce, BkHandle, BkTypeOK
  <2> QED
    BY <2>2, <2>3, <2>4
<1>3. CASE BkReturn(c)
  <2>1. /\ bkSessions' \in [BkKeys -> Seq(BkTurns)]
        /\ bkCall' \in [BkCallers -> BkStandings]
        /\ bkReply' \in [BkCallers -> BkOutcomes \cup {"none"}]
        /\ BkBackWithReply' /\ BkUnhandled' /\ BkPlaced'
    BY <1>3, BkReturnInv
  <2>2. BkTypeOK'
    BY <1>3, <2>1 DEF BkReturn, BkTypeOK, BkTurns, BkStandings
  <2>3. BkQueuedOnce'
    BY <1>3 DEF BkReturn, BkQueuedOnce, BkTypeOK
  <2> QED
    BY <2>1, <2>2, <2>3
<1>4. CASE BkAnswer(c) \/ BkLeave(c) \/ BkPollTask(c) \/ BkDeliver(c)
  <2>1. BkBackWithReply' /\ BkUnhandled' /\ BkPlaced'
    BY <1>4, BkRest DEF BkAnswer, BkLeave, BkPollTask, BkDeliver
  <2>2. BkQueuedOnce'
    BY <1>4 DEF BkAnswer, BkLeave, BkPollTask, BkDeliver, BkQueuedOnce
  <2>3. bkSeen' \in [BkCallers -> BkOutcomes \union {"none", "gone"}]
    BY <1>4 DEF BkAnswer, BkLeave, BkPollTask, BkDeliver, BkDone, BkTypeOK
  <2>4. BkTypeOK'
    BY <1>4, <2>3 DEF BkAnswer, BkLeave, BkPollTask, BkDeliver, BkTypeOK
  <2> QED
    BY <2>1, <2>2, <2>4
<1>5. CASE BkStoreTask(c)
  <2>1. BkBackWithReply' /\ BkUnhandled' /\ BkPlaced'
    BY <1>5, BkRest DEF BkStoreTask
  <2>2. BkTypeOK'
    BY <1>5 DEF BkStoreTask, BkTypeOK, BkBackWithReply, BkOutcomes
  <2>3. BkQueuedOnce'
    BY <1>5 DEF BkStoreTask, BkQueuedOnce
  <2> QED
    BY <2>1, <2>2, <2>3
<1>6. CASE BkPostTask(c)
  <2>1. BkBackWithReply' /\ BkUnhandled' /\ BkPlaced' /\ bkCall' \in [BkCallers -> BkStandings]
    BY <1>6, BkMovedInv DEF BkPostTask
  <2>2. BkTypeOK'
    BY <1>6, <2>1 DEF BkPostTask, BkTypeOK, BkStandings
  <2>3. BkQueuedOnce'
    BY <1>6 DEF BkPostTask, BkQueuedOnce, BkTypeOK
  <2> QED
    BY <2>1, <2>2, <2>3
<1>7. CASE BkEnqueue(c)
  <2>1. BkBackWithReply' /\ BkUnhandled' /\ BkPlaced' /\ bkCall' \in [BkCallers -> BkStandings]
    BY <1>7, BkMovedInv DEF BkEnqueue
  <2>2. bkQueue \in Seq(BkCallers) /\ bkQueue' = Append(bkQueue, c) /\ Len(bkQueue) < BkQueueCap
    BY <1>7 DEF BkEnqueue, BkTypeOK
  <2>3. bkQueue' \in Seq(BkCallers) /\ Len(bkQueue') = Len(bkQueue) + 1
    BY <2>2
  <2>4. BkTypeOK'
    <3>1. Len(bkQueue') <= BkQueueCap
      BY <2>2, <2>3, BkAssumption
    <3> QED
      BY <1>7, <2>1, <2>3, <3>1 DEF BkEnqueue, BkTypeOK, BkStandings
  <2>5. BkQueuedOnce'
    <3>1. \A i \in DOMAIN bkQueue : bkQueue[i] # c /\ bkQueue[i] \in BkCallers
      BY <1>7, <2>2 DEF BkEnqueue, BkQueuedOnce
    <3>2. /\ DOMAIN bkQueue' = 1..(Len(bkQueue) + 1) /\ DOMAIN bkQueue = 1..Len(bkQueue) /\ Len(bkQueue) \in Nat
          /\ \A i \in DOMAIN bkQueue : bkQueue'[i] = bkQueue[i]
          /\ bkQueue'[Len(bkQueue) + 1] = c
      BY <2>2
    <3>3. bkCall'[c] = "queued" /\ \A d \in BkCallers : d # c => bkCall'[d] = bkCall[d]
      BY <1>7 DEF BkEnqueue, BkTypeOK
    <3>4. \A i \in DOMAIN bkQueue' : i \in DOMAIN bkQueue \/ i = Len(bkQueue) + 1
      BY <3>2
    <3> QED
      BY <3>1, <3>2, <3>3, <3>4 DEF BkQueuedOnce
  <2> QED
    BY <2>1, <2>4, <2>5
<1>8. CASE BkOffer(c)
  <2>1. BkBackWithReply' /\ BkUnhandled' /\ BkPlaced' /\ bkCall' \in [BkCallers -> BkStandings]
    BY <1>8, BkMovedInv DEF BkOffer
  <2>2. BkTypeOK'
    BY <1>8, <2>1 DEF BkOffer, BkTypeOK, BkStandings
  <2>3. BkQueuedOnce'
    BY <1>8 DEF BkOffer, BkQueuedOnce, BkTypeOK
  <2> QED
    BY <2>1, <2>2, <2>3
<1> QED
  BY <1>1, <1>2, <1>3, <1>4, <1>5, <1>6, <1>7, <1>8 DEF BkStep

LEMMA BkTakeInv ==
  ASSUME BkInv, BkTake, UNCHANGED bkFront
  PROVE  BkInv'
<1> USE DEF BkInv
<1> DEFINE c == Head(bkQueue)
<1>1. bkQueue \in Seq(BkCallers) /\ bkQueue # <<>> /\ bkQueue' = Tail(bkQueue)
  BY DEF BkTake, BkTypeOK
<1>2. /\ c \in BkCallers /\ Len(bkQueue) \in Nat /\ Len(bkQueue) > 0 /\ 1 \in DOMAIN bkQueue /\ c = bkQueue[1]
      /\ bkQueue' \in Seq(BkCallers) /\ Len(bkQueue') = Len(bkQueue) - 1
      /\ \A i \in DOMAIN bkQueue' : i \in Nat /\ i + 1 \in DOMAIN bkQueue /\ bkQueue'[i] = bkQueue[i + 1] /\ i + 1 # 1
  BY <1>1
<1>3. bkCall[c] = "queued"
  BY <1>2 DEF BkQueuedOnce
<1>4. BkHandle(c) /\ UNCHANGED <<bkReply, bkSeen, bkTasks, bkCut>> /\ bkLoop' = c
  BY DEF BkTake
<1>5. /\ bkSessions' \in [BkKeys -> Seq(BkTurns)]
      /\ bkCall' \in [BkCallers -> BkStandings]
      /\ BkBackWithReply' /\ BkUnhandled' /\ BkPlaced'
  BY <1>2, <1>3, <1>4, BkHandleInv
<1>6. BkTypeOK'
  <2>1. Len(bkQueue') <= BkQueueCap
    BY <1>2, BkAssumption DEF BkTypeOK
  <2> QED
    BY <1>2, <1>4, <1>5, <2>1 DEF BkTypeOK, BkTurns, BkStandings
<1>7. BkQueuedOnce'
  <2>1. \A i \in DOMAIN bkQueue' : bkQueue'[i] \in BkCallers /\ bkQueue'[i] # c /\ bkCall[bkQueue'[i]] = "queued"
    BY <1>2 DEF BkQueuedOnce
  <2>2. \A d \in BkCallers : d # c => bkCall'[d] = bkCall[d]
    BY <1>4 DEF BkHandle, BkTypeOK
  <2>3. \A i, j \in DOMAIN bkQueue' : bkQueue'[i] = bkQueue'[j] => i = j
    <3> SUFFICES ASSUME NEW i \in DOMAIN bkQueue', NEW j \in DOMAIN bkQueue', bkQueue'[i] = bkQueue'[j]
                 PROVE  i = j
      OBVIOUS
    <3>1. i + 1 = j + 1
      BY <1>2 DEF BkQueuedOnce
    <3> QED
      BY <1>2, <3>1
  <2> QED
    BY <2>1, <2>2, <2>3 DEF BkQueuedOnce
<1> QED
  BY <1>5, <1>6, <1>7

LEMMA BkResetInv ==
  ASSUME BkInv, NEW k \in BkKeys, BkReset(k), UNCHANGED bkFront
  PROVE  BkInv'
<1> USE DEF BkInv
<1>1. /\ bkSessions' = [bkSessions EXCEPT ![k] = <<>>]
      /\ UNCHANGED <<bkCall, bkReply, bkSeen, bkQueue, bkLoop, bkTasks>>
      /\ bkCut' = [c \in BkCallers |-> bkCut[c] \/ (BkKey[c] = k /\ bkCall[c] # "new")]
  BY DEF BkReset
<1>2. bkSessions' \in [BkKeys -> Seq(BkTurns)]
  <2>1. <<>> \in Seq(BkTurns)
    OBVIOUS
  <2> QED
    BY <1>1, <2>1 DEF BkTypeOK, BkTurns
<1>3. bkCut' \in [BkCallers -> BOOLEAN]
  BY <1>1 DEF BkTypeOK
<1>4. ASSUME NEW c \in BkCallers, BkKey[c] = k
      PROVE  BkAt(c, "user")' = {} /\ BkAt(c, "assistant")' = {}
  <2>1. bkSessions'[BkKey[c]] = <<>>
    BY <1>1, <1>4 DEF BkTypeOK
  <2>2. DOMAIN bkSessions'[BkKey[c]] = {}
    BY <2>1
  <2> QED
    BY <2>2 DEF BkAt
<1>5. ASSUME NEW c \in BkCallers, BkKey[c] # k
      PROVE  BkAt(c, "user")' = BkAt(c, "user") /\ BkAt(c, "assistant")' = BkAt(c, "assistant")
  <2>1. bkSessions'[BkKey[c]] = bkSessions[BkKey[c]]
    BY <1>1, <1>5 DEF BkTypeOK, BkKeys
  <2> QED
    BY <2>1 DEF BkAt
<1>6. BkUnhandled'
  BY <1>1, <1>4, <1>5 DEF BkUnhandled
<1>7. ASSUME NEW c \in BkCallers
      PROVE  BkPlacedAt(c)'
  <2>1. CASE BkKey[c] = k
    <3>1. CASE bkCall[c] = "new"
      <4>1. bkReply[c] = "none"
        BY <3>1 DEF BkBackWithReply
      <4> QED
        BY <1>1, <1>4, <2>1, <3>1, <4>1 DEF BkPlacedAt
    <3>2. CASE bkCall[c] # "new"
      <4>1. bkCut'[c]
        BY <1>1, <2>1, <3>2
      <4> QED
        BY <1>1, <1>4, <2>1, <4>1 DEF BkPlacedAt
    <3> QED
      BY <3>1, <3>2
  <2>2. CASE BkKey[c] # k
    <3>1. bkCut'[c] = bkCut[c]
      BY <1>1, <2>2 DEF BkTypeOK
    <3> QED
      BY <1>1, <1>5, <2>2, <3>1 DEF BkPlaced, BkPlacedAt
  <2> QED
    BY <2>1, <2>2
<1>8. BkTypeOK'
  BY <1>1, <1>2, <1>3 DEF BkTypeOK, BkTurns
<1> QED
  BY <1>1, <1>6, <1>7, <1>8 DEF BkQueuedOnce, BkBackWithReply, BkPlaced

LEMMA BkInitInv == BkInit => BkInv
<1> SUFFICES ASSUME BkInit PROVE BkInv
  OBVIOUS
<1>1. <<>> \in Seq(BkTurns) /\ <<>> \in Seq(BkCallers) /\ Len(<<>>) = 0 /\ DOMAIN <<>> = {}
  OBVIOUS
<1>2. BkTypeOK
  BY <1>1, BkAssumption DEF BkInit, BkTypeOK, BkTurns
<1>3. \A c \in BkCallers : BkAt(c, "user") = {} /\ BkAt(c, "assistant") = {}
  BY <1>1 DEF BkInit, BkAt, BkKeys
<1> QED
  BY <1>1, <1>2, <1>3 DEF BkInit, BkInv, BkQueuedOnce, BkBackWithReply, BkUnhandled, BkPlaced, BkPlacedAt

LEMMA BkNextInv == BkInv /\ [BkNext]_bkVars => BkInv'
<1> SUFFICES ASSUME BkInv, [BkNext]_bkVars PROVE BkInv'
  OBVIOUS
<1>1. ASSUME NEW c \in BkCallers, BkStep(c), UNCHANGED bkFront PROVE BkInv'
  BY <1>1, BkStepInv
<1>2. CASE BkTake /\ UNCHANGED bkFront
  BY <1>2, BkTakeInv
<1>3. CASE BkStop /\ UNCHANGED bkFront
  <2>1. BkBackWithReply' /\ BkUnhandled' /\ BkPlaced'
    BY <1>3, BkRest DEF BkStop
  <2> QED
    BY <1>3, <2>1 DEF BkStop, BkInv, BkTypeOK, BkQueuedOnce
<1>4. ASSUME NEW k \in BkKeys, BkReset(k), UNCHANGED bkFront PROVE BkInv'
  BY <1>4, BkResetInv
<1>5. CASE UNCHANGED bkVars
  <2>1. BkBackWithReply' /\ BkUnhandled' /\ BkPlaced'
    BY <1>5, BkRest DEF bkVars
  <2> QED
    BY <1>5, <2>1 DEF bkVars, BkInv, BkTypeOK, BkQueuedOnce
<1> QED
  BY <1>1, <1>2, <1>3, <1>4, <1>5 DEF BkNext

\* Whatever the number of callers, their front ends and the size of the queue,
\* the record of every conversation tells the truth about who asked and who was
\* answered, under overlapping runs, failures and resets.
THEOREM BkRecordFaithfulAlways == BkSpec => [](BkTypeOK /\ BkRecordFaithful)
<1>1. BkInv => BkTypeOK /\ BkRecordFaithful
  BY BkPlacedIsFaithful DEF BkInv
<1> QED
  BY <1>1, BkInitInv, BkNextInv, PTL DEF BkSpec

----------------------------------------------------------------------------
(* Telegram.  Nothing lost needs to know where the poller is: everything    *)
(* below the update it handles came to its end, the batch goes on from      *)
(* there without a gap, and when no batch is open all below the offset did. *)

TgBusy == {"handle", "hear", "voice", "run", "replace", "send", "hung"}

TgEndedBelow(n) == \A u \in TgIds : u < n => u \in tgEnded

TgReached ==
  /\ TgEndedBelow(tgForgotten) /\ TgEndedBelow(tgDisk)
  /\ tgPc \in {"poll", "wait", "next"} => TgEndedBelow(tgOffset)
  /\ tgPc \in TgBusy => tgNow \in TgIds /\ tgOffset = tgNow + 1 /\ TgEndedBelow(tgNow)

TgBatchInOrder ==
  /\ tgBatch # <<>> => tgPc \in TgBusy \cup {"next"}
  /\ \A i \in DOMAIN tgBatch : tgBatch[i] <= Len(tgKind) /\ tgBatch[i] >= tgOffset
  /\ \A i \in DOMAIN tgBatch : tgBatch[i] = tgBatch[1] + (i - 1)
  /\ tgBatch # <<>> => IF tgPc \in TgBusy THEN tgBatch[1] = tgNow + 1 ELSE TgEndedBelow(tgBatch[1])

\* An update is given to the engine at most twice in one life of the process (a
\* voice note), and every further life takes a fault.
TgThisLife(u) ==
  IF tgPc = "stopped" \/ u >= tgOffset THEN 0
  ELSE IF tgPc \in {"handle", "hear"} /\ u = tgNow THEN 0
  ELSE IF tgPc \in {"voice", "run"} /\ u = tgNow THEN 1 ELSE 2

TgAllowed(u) == 2 * tgFaulty + TgThisLife(u)

TgRunsBounded == \A u \in TgIds : tgRuns[u] <= TgAllowed(u)

TgInv ==
  /\ TgTypeOK /\ TgReached /\ TgBatchInOrder /\ TgRunsBounded
  /\ tgPc \in {"send", "voice", "replace"} => tgLeft > 0

TgSpec == TgInit /\ [][TgNext]_tgVars

LEMMA TgRunsStay ==
  ASSUME TgTypeOK, TgRunsBounded, tgFaulty' \in {tgFaulty, tgFaulty + 1}, tgRuns' = tgRuns,
         \A u \in TgIds : TgThisLife(u) <= TgThisLife(u)'
  PROVE  TgRunsBounded'
<1> SUFFICES ASSUME NEW u \in TgIds PROVE tgRuns'[u] <= TgAllowed(u)'
  BY DEF TgRunsBounded
<1>1. tgRuns[u] \in Nat /\ tgRuns[u] <= TgAllowed(u) /\ tgRuns'[u] = tgRuns[u] /\ tgFaulty \in Nat
  BY TgAssumption DEF TgTypeOK, TgRunsBounded
<1>2. TgThisLife(u) \in 0..2 /\ TgThisLife(u)' \in 0..2 /\ TgThisLife(u) <= TgThisLife(u)'
  BY DEF TgThisLife
<1> QED
  BY <1>1, <1>2 DEF TgAllowed

LEMMA TgNextInv == TgInv /\ [TgNext]_tgVars => TgInv'
<1> SUFFICES ASSUME TgInv, [TgNext]_tgVars PROVE TgInv'
  OBVIOUS
<1> USE TgAssumption DEF TgInv, TgTypeOK, TgIds, TgBusy, TgEndedBelow
<1>1. ASSUME NEW k \in TgKinds, TgArrive(k) PROVE TgInv'
  <2>1. tgKind' \in Seq(TgKinds) /\ Len(tgKind') = Len(tgKind) + 1
    BY <1>1 DEF TgArrive
  <2> QED
    <3>1. TgBatchInOrder'
      BY <1>1, <2>1 DEF TgArrive, TgBatchInOrder
    <3>2. TgReached' /\ TgRunsBounded'
      BY <1>1 DEF TgArrive, TgReached, TgRunsBounded, TgAllowed, TgThisLife
    <3> QED
      BY <1>1, <2>1, <3>1, <3>2 DEF TgArrive
<1>2. CASE TgFetch
  <2> PICK last \in (IF TgFirst > Len(tgKind) THEN {TgFirst - 1} ELSE TgFirst..Len(tgKind)) :
        tgBatch' = [i \in 1..(last - TgFirst + 1) |-> TgFirst + i - 1]
    BY <1>2 DEF TgFetch
  <2>1. TgFirst \in 1..(TgMax + 1) /\ TgFirst >= tgOffset /\ TgEndedBelow(TgFirst)
    BY <1>2 DEF TgFetch, TgFirst, TgReached
  <2>2. last \in Nat /\ last >= TgFirst - 1 /\ (last >= TgFirst => last <= Len(tgKind))
    BY <2>1
  <2>3. tgBatch' \in Seq(TgIds)
    BY <2>1, <2>2
  <2>4. Len(tgBatch') = last - TgFirst + 1 /\ DOMAIN tgBatch' = 1..(last - TgFirst + 1)
    BY <2>1, <2>2
  <2>5. \A i \in DOMAIN tgBatch' : tgBatch'[i] = TgFirst + i - 1
    BY <2>4
  <2>6. tgBatch' # <<>> => tgBatch'[1] = TgFirst
    BY <2>1, <2>2, <2>3, <2>4, <2>5
  <2>7. TgBatchInOrder'
    BY SMTT(30), <1>2, <2>1, <2>2, <2>4, <2>5, <2>6 DEF TgBatchInOrder, TgFetch
  <2>8. TgReached'
    BY <1>2, <2>1 DEF TgReached, TgFetch
  <2>9. TgRunsBounded'
    BY <1>2 DEF TgRunsBounded, TgAllowed, TgThisLife, TgFetch
  <2> QED
    BY <1>2, <2>1, <2>3, <2>7, <2>8, <2>9 DEF TgFetch
<1>3. CASE TgWaited \/ TgPollFails
  <2>1. TgFirst \in 1..(TgMax + 1) /\ (tgPc = "poll" => TgEndedBelow(TgFirst))
    BY DEF TgFirst, TgReached
  <2>2. /\ tgPc \in {"poll", "wait"} /\ tgPc' \in {"poll", "wait"}
        /\ tgForgotten' \in {tgForgotten, TgFirst} /\ (tgForgotten' = TgFirst => tgPc = "poll" \/ TgFirst = tgForgotten)
        /\ tgStreak' \in 0..4 /\ tgFaulty' \in {tgFaulty, tgFaulty + 1} /\ tgFaulty' \in 0..TgFaults
        /\ UNCHANGED <<tgKind, tgOffset, tgDisk, tgBatch, tgNow, tgLeft, tgRuns, tgEnded>>
    BY SMTT(30), <1>3 DEF TgWaited, TgPollFails, TgFault, tgWire, TgRecordFailure
  <2>3. TgReached'
    BY <2>1, <2>2 DEF TgReached
  <2>4. TgBatchInOrder'
    BY <2>2 DEF TgBatchInOrder
  <2>5. TgRunsBounded'
    <3>1. \A u \in TgIds : TgThisLife(u) <= TgThisLife(u)'
      BY <2>2 DEF TgThisLife
    <3> QED
      BY <2>2, <3>1, TgRunsStay
  <2>6. TgTypeOK'
    BY <2>1, <2>2
  <2> QED
    BY <2>2, <2>3, <2>4, <2>5, <2>6
<1>4. CASE TgAdvance
  <2>1. /\ tgPc = "next" /\ tgBatch # <<>> /\ tgBatch' = Tail(tgBatch)
        /\ Len(tgBatch) \in Nat /\ Len(tgBatch) > 0 /\ 1 \in DOMAIN tgBatch /\ Head(tgBatch) = tgBatch[1]
        /\ tgBatch[1] \in TgIds /\ Tail(tgBatch) \in Seq(TgIds)
        /\ \A i \in DOMAIN Tail(tgBatch) : i \in Nat /\ i > 0 /\ i + 1 \in DOMAIN tgBatch /\ Tail(tgBatch)[i] = tgBatch[i + 1]
    BY <1>4, HeadAndTail DEF TgAdvance
  <2>2. /\ tgNow' = tgBatch[1] /\ tgOffset' = tgBatch[1] + 1 /\ tgPc' = "handle"
        /\ UNCHANGED <<tgKind, tgForgotten, tgDisk, tgLeft, tgRuns, tgEnded, tgStreak, tgFaulty>>
    BY <1>4, <2>1 DEF TgAdvance, tgWire, TgBatchInOrder
  <2>3. TgReached'
    BY <2>1, <2>2 DEF TgReached, TgBatchInOrder
  <2>4. TgBatchInOrder'
    <3>1. \A i \in DOMAIN tgBatch' : i \in Nat /\ i > 0 /\ tgBatch'[i] = tgBatch[1] + i /\ tgBatch'[i] <= Len(tgKind)
      BY <2>1 DEF TgBatchInOrder
    <3>2. tgBatch' # <<>> => 1 \in DOMAIN tgBatch'
      BY <2>1
    <3>3. tgBatch' # <<>> => tgBatch'[1] = tgBatch[1] + 1
      BY <3>1, <3>2
    <3>4. \A i \in DOMAIN tgBatch' : tgBatch'[i] = tgBatch'[1] + (i - 1)
      <4> TAKE i \in DOMAIN tgBatch'
      <4>1. i \in Nat /\ tgBatch'[i] = tgBatch[1] + i /\ tgBatch[1] \in Nat /\ tgBatch'[1] = tgBatch[1] + 1
        <5>1. tgBatch' # <<>>
          BY DEF TgBatchInOrder
        <5> QED
          BY SMTT(30), <2>1, <3>1, <3>3, <5>1
      <4> QED
        BY <4>1
    <3>5. \A i \in DOMAIN tgBatch' : tgBatch'[i] <= Len(tgKind) /\ tgBatch'[i] >= tgOffset'
      <4> TAKE i \in DOMAIN tgBatch'
      <4>1. i \in Nat /\ i > 0 /\ tgBatch'[i] = tgBatch[1] + i /\ tgBatch[1] \in Nat /\ tgBatch'[i] <= Len(tgKind)
        BY <2>1, <3>1
      <4> QED
        BY <2>2, <4>1
    <3> QED
      BY <2>2, <3>3, <3>4, <3>5 DEF TgBatchInOrder
  <2>5. TgRunsBounded'
    <3>1. tgBatch[1] \in Nat /\ tgBatch[1] >= tgOffset
      BY <2>1 DEF TgBatchInOrder
    <3>2. \A u \in TgIds : TgThisLife(u) <= TgThisLife(u)'
      BY SMTT(30), <2>1, <2>2, <3>1 DEF TgThisLife
    <3> QED
      BY <2>2, <3>2, TgRunsStay
  <2> QED
    BY SMTT(30), <2>1, <2>2, <2>3, <2>4, <2>5
<1>5. ASSUME NEW k, NEW pc \in {"next", "run", "hear"}, TgRoute(k, pc) PROVE TgInv'
  <2>1. TgReached'
    BY <1>5 DEF TgRoute, tgWire, TgReached
  <2>2. TgBatchInOrder'
    BY SMTT(30), <1>5 DEF TgRoute, tgWire, TgReached, TgBatchInOrder
  <2>3. TgRunsBounded'
    BY SMTT(30), <1>5 DEF TgRoute, TgRunsBounded, TgAllowed, TgThisLife
  <2> QED
    BY <1>5, <2>1, <2>2, <2>3 DEF TgRoute, tgWire, TgReached
<1>6. CASE TgRun \/ TgRunVoice
  <2> DEFINE pc == IF tgPc = "hear" THEN "voice" ELSE IF tgKind[tgNow] = "edit" THEN "replace" ELSE "send"
  <2>1. /\ tgPc \in {"run", "hear"} /\ TgHandled(pc) /\ tgLeft' \in {1, TgChunks}
    BY <1>6 DEF TgRun, TgRunVoice
  <2>2. /\ tgPc' = pc /\ tgRuns' = [tgRuns EXCEPT ![tgNow] = @ + 1] /\ tgNow \in TgIds
        /\ UNCHANGED <<tgKind, tgForgotten, tgOffset, tgDisk, tgBatch, tgNow, tgEnded, tgStreak, tgFaulty>>
    BY <2>1 DEF TgHandled, tgWire, TgReached
  <2>3. TgReached' /\ TgBatchInOrder'
    BY <2>1, <2>2 DEF TgReached, TgBatchInOrder
  <2>4. tgRuns[tgNow] <= 2 * tgFaulty + (IF tgPc = "hear" THEN 0 ELSE 1)
    BY <2>1, <2>2 DEF TgRunsBounded, TgAllowed, TgThisLife, TgReached
  <2>5. tgRuns' \in [TgIds -> 0..(2 * (TgFaults + 1))]
    BY SMTT(30), <2>2, <2>4
  <2>6. TgRunsBounded'
    BY SMTT(30), <2>1, <2>2, <2>4 DEF TgRunsBounded, TgAllowed, TgThisLife, TgReached
  <2> QED
    BY <2>1, <2>2, <2>3, <2>5, <2>6
<1>7. CASE TgSendVoice \/ TgReplace \/ TgSend
  <2>1. /\ tgPc \in {"voice", "replace", "send"} /\ tgPc' \in {tgPc, "run", "send", "next"} /\ tgLeft' \in 0..TgChunks
        /\ (tgPc = "voice" /\ tgPc' # "voice" => tgPc' \in {"run", "next"})
        /\ (tgPc' \in {"voice", "send", "replace"} => tgLeft' > 0)
        /\ (tgPc' = "run" => tgPc = "voice")
        /\ tgEnded' = IF tgPc' = "next" THEN tgEnded \cup {tgNow} ELSE tgEnded
        /\ tgStreak' \in 0..4 /\ tgFaulty' \in {tgFaulty, tgFaulty + 1} /\ tgFaulty' \in 0..TgFaults
        /\ UNCHANGED <<tgKind, tgForgotten, tgOffset, tgDisk, tgBatch, tgNow, tgRuns>>
    <3>1. CASE TgSendVoice
      BY <3>1 DEF TgSendVoice, tgWire
    <3>2. CASE TgReplace
      BY <3>2 DEF TgReplace, tgWire
    <3>3. CASE TgSend
      <4>1. /\ tgPc = "send" /\ tgPc' \in {"send", "next"} /\ tgLeft' \in 0..TgChunks
            /\ (tgPc' = "send" => tgLeft' > 0)
            /\ tgEnded' = IF tgPc' = "next" THEN tgEnded \cup {tgNow} ELSE tgEnded
            /\ UNCHANGED <<tgKind, tgForgotten, tgOffset, tgDisk, tgBatch, tgNow, tgRuns>>
        BY <3>3 DEF TgSend, tgWire
      <4>2. tgStreak' \in 0..4 /\ tgFaulty' \in {tgFaulty, tgFaulty + 1} /\ tgFaulty' \in 0..TgFaults
        BY <3>3 DEF TgSend, TgFault, TgRecordSuccess, TgRecordFailure
      <4> QED
        BY <4>1, <4>2
    <3> QED
      BY <1>7, <3>1, <3>2, <3>3
  <2>2. TgReached'
    BY <2>1 DEF TgReached
  <2>3. TgBatchInOrder'
    <3>1. tgPc' = "next" => TgEndedBelow(tgNow + 1)'
      BY <2>1 DEF TgReached
    <3> QED
      BY <2>1, <3>1 DEF TgReached, TgBatchInOrder
  <2>4. TgRunsBounded'
    <3>1. tgPc # "stopped" /\ tgPc' \notin {"stopped", "handle", "hear"} /\ (tgPc' \in {"voice", "run"} => tgPc = "voice")
      BY <2>1
    <3>2. \A u \in TgIds : TgThisLife(u) <= TgThisLife(u)'
      BY <2>1, <3>1 DEF TgThisLife
    <3> QED
      BY <2>1, <3>2, TgRunsStay
  <2> QED
    BY <2>1, <2>2, <2>3, <2>4 DEF TgReached
<1>8. CASE TgSave
  <2>1. /\ tgPc = "next" /\ tgBatch = <<>> /\ tgPc' = "poll" /\ tgDisk' \in {tgOffset, tgDisk}
        /\ tgFaulty' \in {tgFaulty, tgFaulty + 1} /\ tgFaulty' \in 0..TgFaults
        /\ UNCHANGED <<tgKind, tgForgotten, tgOffset, tgBatch, tgNow, tgLeft, tgRuns, tgEnded, tgStreak>>
    BY <1>8 DEF TgSave, TgFault, tgWire
  <2>2. TgReached' /\ TgBatchInOrder'
    BY <2>1 DEF TgReached, TgBatchInOrder
  <2>3. TgRunsBounded'
    BY SMTT(30), <2>1 DEF TgRunsBounded, TgAllowed, TgThisLife
  <2> QED
    BY <2>1, <2>2, <2>3
<1>9. CASE TgStop
  <2>1. <<>> \in Seq(TgIds) /\ DOMAIN <<>> = {}
    OBVIOUS
  <2>2. TgReached' /\ TgBatchInOrder'
    BY <1>9, <2>1 DEF TgStop, tgWire, TgReached, TgBatchInOrder
  <2>3. TgRunsBounded'
    <3>1. tgFaulty' = tgFaulty + 1 /\ tgPc' = "stopped" /\ tgRuns' = tgRuns
      BY <1>9 DEF TgStop, TgFault
    <3> SUFFICES ASSUME NEW u \in TgIds PROVE tgRuns'[u] <= TgAllowed(u)'
      BY DEF TgRunsBounded
    <3>2. tgRuns[u] <= TgAllowed(u) /\ tgRuns[u] \in Nat
      BY DEF TgRunsBounded
    <3> QED
      BY <3>1, <3>2 DEF TgAllowed, TgThisLife
  <2> QED
    BY <1>9, <2>1, <2>2, <2>3 DEF TgStop, TgFault, tgWire
<1>10. CASE TgRestart
  <2>1. TgReached' /\ TgBatchInOrder'
    BY <1>10 DEF TgRestart, tgWire, TgReached, TgBatchInOrder
  <2>2. TgRunsBounded'
    BY <1>10 DEF TgRestart, TgRunsBounded, TgAllowed, TgThisLife
  <2> QED
    BY <1>10, <2>1, <2>2 DEF TgRestart, tgWire
<1>11. CASE UNCHANGED tgVars
  BY <1>11 DEF tgVars, TgReached, TgBatchInOrder, TgRunsBounded, TgAllowed, TgThisLife
<1>12. CASE TgHang
  <2>1. /\ tgPc \in TgBusy \ {"hung"} /\ tgPc' = "hung"
        /\ UNCHANGED <<tgKind, tgForgotten, tgOffset, tgDisk, tgBatch, tgNow, tgLeft, tgRuns, tgEnded, tgStreak, tgFaulty>>
    BY <1>12 DEF TgHang, tgWire
  <2>2. TgReached' /\ TgBatchInOrder'
    BY <2>1 DEF TgReached, TgBatchInOrder
  <2>3. TgRunsBounded'
    <3>1. \A u \in TgIds : TgThisLife(u) <= TgThisLife(u)'
      BY <2>1 DEF TgThisLife
    <3> QED
      BY <2>1, <3>1, TgRunsStay
  <2> QED
    BY <2>1, <2>2, <2>3
<1> QED
  <2>1. CASE TgDenied \/ TgCommand \/ TgSpeak \/ TgText \/ TgButton \/ TgVote \/ TgEdited \/ TgHear \/ TgHearFails
    BY <1>5, <2>1 DEF TgDenied, TgCommand, TgSpeak, TgText, TgButton, TgVote, TgEdited, TgHear, TgHearFails
  <2> QED
    BY <1>1, <1>2, <1>3, <1>4, <1>6, <1>7, <1>8, <1>9, <1>10, <1>11, <1>12, <2>1 DEF TgNext, TgStep, TgHandling

LEMMA TgInitInv == TgInit => TgInv
<1> SUFFICES ASSUME TgInit PROVE TgInv
  OBVIOUS
<1>1. <<>> \in Seq(TgKinds) /\ <<>> \in Seq(TgIds) /\ Len(<<>>) = 0 /\ DOMAIN <<>> = {}
  OBVIOUS
<1>2. TgTypeOK
  BY <1>1, TgAssumption DEF TgInit, TgTypeOK, TgIds
<1>3. TgReached /\ TgBatchInOrder /\ TgRunsBounded
  BY <1>1, TgAssumption DEF TgInit, TgReached, TgEndedBelow, TgBusy, TgBatchInOrder, TgRunsBounded, TgAllowed, TgThisLife, TgIds
<1> QED
  BY <1>2, <1>3 DEF TgInv, TgInit

\* Whatever users send and however polls, sends, saves and the process fail, for
\* every number of updates and faults, Telegram forgets an update and the offset
\* file passes it only when it was handled to its end; and one fault makes it at
\* most two runs more.
THEOREM TgNothingLostEver == TgSpec => [](TgTypeOK /\ TgNothingLost)
<1>1. TgInv => TgTypeOK /\ TgNothingLost
  BY DEF TgInv, TgReached, TgEndedBelow, TgNothingLost
<1> QED
  BY <1>1, TgInitInv, TgNextInv, PTL DEF TgSpec

\* Nothing is handled before it was sent, and no offset lies behind the last update.
TgSentFirst ==
  /\ \A u \in tgEnded : u <= Len(tgKind)
  /\ tgPc \in TgBusy => tgNow <= Len(tgKind)
  /\ tgForgotten <= Len(tgKind) + 1 /\ tgOffset <= Len(tgKind) + 1 /\ tgDisk <= Len(tgKind) + 1

\* What a step of the poller does to the abstract delivery.
LEMMA TgStepDelivers ==
  ASSUME TgInv, TgSentFirst, [TgNext]_tgVars
  PROVE  TgSentFirst' /\ [TgDelivery!Next]_(TgDelivery!vars)
<1> DEFINE n == Len(tgKind)
<1> USE TgAssumption DEF TgInv, TgTypeOK, TgIds, TgBusy, TgEndedBelow, TgSentFirst, TgDelivery!vars
<1>0. n \in Nat /\ n <= TgMax
  OBVIOUS
<1>1. ASSUME NEW k \in TgKinds, TgArrive(k) PROVE TgSentFirst' /\ TgDelivery!Next
  <2>1. Len(tgKind') = n + 1 /\ UNCHANGED <<tgForgotten, tgOffset, tgDisk, tgPc, tgNow, tgEnded>>
    BY <1>1 DEF TgArrive
  <2>2. TgSentFirst'
    BY <1>0, <2>1
  <2> QED
    BY <2>1, <2>2 DEF TgDelivery!Next, TgDelivery!Send
<1>2. ASSUME UNCHANGED <<tgKind, tgOffset, tgDisk, tgEnded>>, tgPc' \in TgBusy => tgPc \in TgBusy /\ tgNow' = tgNow,
             tgForgotten' \in {tgForgotten, TgFirst}, tgForgotten' = TgFirst => tgPc = "poll" \/ TgFirst = tgForgotten
      PROVE  TgSentFirst' /\ [TgDelivery!Next]_(TgDelivery!vars)
  <2>1. TgFirst \in 1..(n + 1) /\ TgFirst >= tgForgotten /\ (tgPc = "poll" => TgEndedBelow(TgFirst))
    BY <1>0 DEF TgFirst, TgReached
  <2>2. TgSentFirst'
    BY <1>2, <2>1
  <2>3. CASE TgFirst > tgForgotten /\ tgForgotten' = TgFirst
    <3>1. TgDelivery!HandledBelow(TgFirst)
      BY <1>2, <2>1, <2>3 DEF TgDelivery!HandledBelow
    <3>2. TgDelivery!Forget(TgFirst)
      BY <1>2, <2>3, <3>1 DEF TgDelivery!Forget
    <3> QED
      BY <2>1, <2>2, <3>2 DEF TgDelivery!Next
  <2> QED
    BY <1>2, <2>1, <2>2, <2>3
<1>3. CASE TgAdvance
  <2>1. tgBatch[1] \in Nat /\ tgBatch[1] <= n /\ tgNow' = tgBatch[1] /\ tgOffset' = tgBatch[1] + 1
        /\ UNCHANGED <<tgKind, tgForgotten, tgDisk, tgEnded>>
    <3>1. tgBatch # <<>> /\ 1 \in DOMAIN tgBatch /\ Head(tgBatch) = tgBatch[1] /\ tgBatch[1] \in TgIds
      BY <1>3, HeadAndTail DEF TgAdvance
    <3>2. tgBatch[1] <= Len(tgKind) /\ tgBatch[1] >= tgOffset
      BY <3>1 DEF TgBatchInOrder
    <3> QED
      BY <1>3, <3>1, <3>2 DEF TgAdvance, tgWire
  <2> QED
    BY <1>0, <2>1
<1>4. ASSUME tgPc \in TgBusy, tgNow' = tgNow, tgEnded' \in {tgEnded, tgEnded \cup {tgNow}},
             UNCHANGED <<tgKind, tgForgotten, tgOffset, tgDisk>>
      PROVE  TgSentFirst' /\ [TgDelivery!Next]_(TgDelivery!vars)
  <2>1. tgNow \in 1..n /\ TgEndedBelow(tgNow) /\ TgEndedBelow(tgForgotten)
    BY <1>0, <1>4 DEF TgReached
  <2>2. TgSentFirst'
    BY <1>4, <2>1
  <2>3. CASE tgEnded' # tgEnded
    <3>1. tgNow \notin tgEnded /\ tgNow >= tgForgotten
      <4>1. tgNow \notin tgEnded
        BY <1>4, <2>3
      <4>2. tgNow \in TgIds /\ (tgNow < tgForgotten => tgNow \in tgEnded)
        BY <1>0, <2>1
      <4> QED
        BY <4>1, <4>2
    <3>2. TgDelivery!HandledBelow(tgNow)
      BY <2>1 DEF TgDelivery!HandledBelow
    <3>3. TgDelivery!Handle(tgNow)
      BY <1>4, <2>3, <3>1, <3>2 DEF TgDelivery!Handle
    <3> QED
      BY <2>1, <2>2, <3>3 DEF TgDelivery!Next
  <2> QED
    BY <1>4, <2>2, <2>3
<1>5. CASE TgSave \/ TgRestart \/ TgStop
  BY <1>5, <1>0 DEF TgSave, TgRestart, TgStop, tgWire
<1>6. CASE TgFetch \/ TgWaited \/ TgPollFails
  BY <1>6, <1>2 DEF TgFetch, TgWaited, TgPollFails, tgWire
<1>7. CASE TgHandling
  <2>1. ASSUME NEW k, NEW pc, TgRoute(k, pc) PROVE TgSentFirst' /\ [TgDelivery!Next]_(TgDelivery!vars)
    BY <1>4, <2>1 DEF TgRoute, tgWire
  <2>2. CASE TgRun \/ TgRunVoice
    BY <1>4, <2>2 DEF TgRun, TgRunVoice, TgHandled, tgWire
  <2>3. CASE TgSendVoice \/ TgReplace \/ TgSend
    BY <1>4, <2>3 DEF TgSendVoice, TgReplace, TgSend, tgWire
  <2> QED
    BY <1>7, <2>1, <2>2, <2>3 DEF TgHandling, TgDenied, TgCommand, TgSpeak, TgText, TgButton, TgVote, TgEdited, TgHear, TgHearFails
<1>8. CASE UNCHANGED tgVars
  BY <1>8 DEF tgVars
<1>9. CASE TgHang
  BY <1>4, <1>9 DEF TgHang, tgWire
<1> QED
  BY <1>1, <1>3, <1>5, <1>6, <1>7, <1>8, <1>9 DEF TgNext, TgStep

\* RunPolling delivers in order and at least once, for every number of updates and
\* faults: what it does, a restart or a lost answer included, is handling the next
\* update, letting one go that was handled, or nothing that a user sees.
THEOREM TgDeliversInOrderAlways == TgSpec => TgDeliversInOrder
<1>1. TgInit => TgSentFirst /\ TgDelivery!Init
  BY DEF TgInit, TgSentFirst, TgBusy, TgDelivery!Init
<1>2. TgInv /\ TgSentFirst /\ [TgNext]_tgVars => TgSentFirst' /\ [TgDelivery!Next]_(TgDelivery!vars)
  BY TgStepDelivers
<1> QED
  BY <1>1, <1>2, TgInitInv, TgNextInv, PTL DEF TgSpec, TgDeliversInOrder, TgDelivery!Spec

----------------------------------------------------------------------------
(* Discord.  That events are handled in order, each once, rests on the      *)
(* numbers on the wire; that Connect gives up only after failures in a row, *)
(* on its count never running ahead of theirs by more than one.             *)

DcSpec == DcInit /\ [][DcNext]_dcVars

DcNumbered == DcOps \cup {"other"}

DcQuiet ==
  /\ dcPc \notin DcOps \cup {"read", "reply", "ending"} => dcBeat = "off"
  /\ dcPc \notin DcOps \cup {"read", "reply", "ending", "hello"} => ~dcOpen

\* Every event on the wire is newer than what was read, what was handled and what
\* stands before it.
DcInOrder ==
  /\ \A i \in DOMAIN dcHandled : dcHandled[i] \in 1..dcSent
  /\ \A i, j \in DOMAIN dcHandled : i < j => dcHandled[i] < dcHandled[j]
  /\ dcSeq <= dcSent
  /\ dcPc \in DcOps => dcSeq > 0 /\ \A i \in DOMAIN dcHandled : dcHandled[i] < dcSeq
  /\ \A i \in DOMAIN dcWire : dcWire[i].op \in DcNumbered =>
       /\ dcWire[i].n \in 1..dcSent /\ dcWire[i].n > dcSeq
       /\ \A j \in DOMAIN dcHandled : dcHandled[j] < dcWire[i].n
  /\ \A i, j \in DOMAIN dcWire : i < j /\ dcWire[i].op \in DcNumbered /\ dcWire[j].op \in DcNumbered
       => dcWire[i].n < dcWire[j].n

DcCounted ==
  /\ dcRow <= dcAttempt /\ dcAttempt <= dcRow + 1
  /\ dcPc \notin {"gaveup", "cancelled"} => dcAttempt < DcMaxAttempts
  /\ dcPc = "gaveup" => dcAttempt = DcMaxAttempts

DcInv == DcTypeOK /\ DcQuiet /\ DcInOrder /\ DcCounted

DcFrames == [op : DcOps \union {"other", "ack", "beat", "end"}, n : 0..DcEvents]

\* A frame joins the wire; an event must be newer than all that went before.
LEMMA DcPutInv ==
  ASSUME DcInv, NEW op \in DcOps \union {"other", "ack", "beat", "end"}, NEW n \in 0..DcEvents, DcPut(op, n),
         dcSent' \in 0..DcEvents, dcSent' >= dcSent,
         op \in DcNumbered => n = dcSent' /\ n > dcSent,
         UNCHANGED <<dcPc, dcSeq, dcHandled>>
  PROVE  DcInOrder' /\ dcWire' \in Seq(DcFrames) /\ Len(dcWire') <= DcInFlight
<1> DEFINE e == [op |-> op, n |-> n]
<1> USE DcAssumption DEF DcInv
<1>1. e \in DcFrames /\ dcWire \in Seq(DcFrames) /\ dcWire' = Append(dcWire, e) /\ Len(dcWire) < DcInFlight
  BY DEF DcPut, DcFrames, DcTypeOK, DcNumbered
<1>2. /\ dcWire' \in Seq(DcFrames) /\ Len(dcWire) \in Nat /\ Len(dcWire') = Len(dcWire) + 1
      /\ DOMAIN dcWire = 1..Len(dcWire) /\ DOMAIN dcWire' = 1..(Len(dcWire) + 1)
      /\ \A i \in DOMAIN dcWire : dcWire'[i] = dcWire[i] /\ i < Len(dcWire) + 1
      /\ dcWire'[Len(dcWire) + 1] = e
      /\ \A i \in DOMAIN dcWire' : i \in DOMAIN dcWire \/ i = Len(dcWire) + 1
  BY <1>1, AtTheEnd
<1>3. dcSent \in Nat /\ dcSent' \in Nat /\ dcSeq \in Nat /\ \A i \in DOMAIN dcHandled : dcHandled[i] \in Nat
  BY DEF DcTypeOK
<1>4. op \in DcNumbered => n \in 1..dcSent' /\ n > dcSeq /\ (\A j \in DOMAIN dcHandled : dcHandled[j] < n)
                           /\ \A i \in DOMAIN dcWire : dcWire[i].op \in DcNumbered => dcWire[i].n < n
  BY <1>3 DEF DcInOrder
<1>5. DcInOrder'
  <2>1. \A i \in DOMAIN dcWire' : dcWire'[i].op \in DcNumbered =>
          /\ dcWire'[i].n \in 1..dcSent' /\ dcWire'[i].n > dcSeq
          /\ \A j \in DOMAIN dcHandled : dcHandled[j] < dcWire'[i].n
    BY <1>2, <1>3, <1>4 DEF DcInOrder
  <2>2. \A i, j \in DOMAIN dcWire' : i < j /\ dcWire'[i].op \in DcNumbered /\ dcWire'[j].op \in DcNumbered
          => dcWire'[i].n < dcWire'[j].n
    BY <1>2, <1>4 DEF DcInOrder
  <2>3. /\ \A i \in DOMAIN dcHandled : dcHandled[i] \in 1..dcSent'
        /\ dcSeq <= dcSent'
    BY <1>3 DEF DcInOrder
  <2> QED
    BY <2>1, <2>2, <2>3 DEF DcInOrder
<1> QED
  BY <1>1, <1>2, <1>5

LEMMA DcNextInv == DcInv /\ [DcNext]_dcVars => DcInv'
<1> SUFFICES ASSUME DcInv, [DcNext]_dcVars PROVE DcInv'
  OBVIOUS
<1> USE DcAssumption DEF DcInv, dcLink, dcPulse, dcFeed, dcTries, dcRest
<1>1. CASE DcEmit
  <2>1. /\ dcSent' = dcSent + 1 /\ dcSent' \in 0..DcEvents /\ dcSent \in Nat
        /\ UNCHANGED <<dcPc, dcAttempt, dcGood, dcRow, dcOpen, dcSilent, dcBeat, dcAwait, dcOwed, dcSeq, dcHandled,
                       dcCtx, dcFaulty, dcKilled>>
    BY <1>1 DEF DcEmit, DcTypeOK
  <2>2. DcInOrder' /\ dcWire' \in Seq(DcFrames) /\ Len(dcWire') <= DcInFlight
    <3>1. ASSUME NEW op \in DcOps \cup {"other"}, DcPut(op, dcSent')
          PROVE  DcInOrder' /\ dcWire' \in Seq(DcFrames) /\ Len(dcWire') <= DcInFlight
      BY <2>1, <3>1, DcPutInv DEF DcNumbered
    <3>2. CASE dcWire' = dcWire
      BY <2>1, <3>2 DEF DcInOrder, DcTypeOK, DcFrames
    <3> QED
      BY <1>1, <3>1, <3>2 DEF DcEmit
  <2> QED
    BY <2>1, <2>2 DEF DcTypeOK, DcQuiet, DcCounted, DcFrames
<1>2. CASE DcAck
  <2>1. DcPut("ack", 0)
    BY <1>2 DEF DcAck
  <2>2. DcInOrder' /\ dcWire' \in Seq(DcFrames) /\ Len(dcWire') <= DcInFlight
    BY <1>2, <2>1, DcPutInv DEF DcAck, DcNumbered, DcOps, DcTypeOK
  <2> QED
    BY <1>2, <2>2 DEF DcAck, DcTypeOK, DcQuiet, DcCounted, DcFrames
<1>3. CASE DcAsk
  <2>1. /\ UNCHANGED <<dcPc, dcAttempt, dcGood, dcRow, dcOpen, dcBeat, dcAwait, dcOwed, dcSeq, dcSent, dcHandled, dcCtx, dcKilled>>
        /\ dcFaulty' \in 0..DcFaults /\ dcSilent' \in BOOLEAN
    <3>1. dcFaulty' = dcFaulty + 1 /\ dcFaulty < DcFaults /\ dcFaulty \in 0..DcFaults /\ dcSilent \in BOOLEAN
      BY <1>3 DEF DcAsk, DcFault, DcTypeOK
    <3>2. dcFaulty' \in 0..DcFaults
      BY <3>1
    <3> QED
      BY <1>3, <3>1, <3>2 DEF DcAsk
  <2>2. DcInOrder' /\ dcWire' \in Seq(DcFrames) /\ Len(dcWire') <= DcInFlight
    <3>1. ASSUME NEW op \in {"beat", "end"}, DcPut(op, 0)
          PROVE  DcInOrder' /\ dcWire' \in Seq(DcFrames) /\ Len(dcWire') <= DcInFlight
      BY <2>1, <3>1, DcPutInv DEF DcNumbered, DcOps, DcTypeOK
    <3>2. CASE dcWire' = dcWire
      BY <2>1, <3>2 DEF DcInOrder, DcTypeOK, DcFrames
    <3> QED
      BY <1>3, <3>1, <3>2 DEF DcAsk
  <2> QED
    BY <2>1, <2>2 DEF DcTypeOK, DcQuiet, DcCounted, DcFrames
<1>4. CASE DcLookup
  BY <1>4 DEF DcLookup, DcFault, DcTypeOK, DcQuiet, DcInOrder, DcCounted, DcOps
<1>5. CASE DcDial
  <2>1. <<>> \in Seq(DcFrames) /\ Len(<<>>) = 0 /\ DOMAIN <<>> = {}
    OBVIOUS
  <2>2. DcTypeOK'
    <3>1. dcFaulty' \in 0..DcFaults
      BY <1>5 DEF DcDial, DcFault, DcTypeOK
    <3>2. dcWire' \in Seq(DcFrames) /\ Len(dcWire') <= DcInFlight
      BY <1>5, <2>1 DEF DcDial
    <3> QED
      BY <1>5, <3>1, <3>2 DEF DcDial, DcTypeOK, DcFrames
  <2>3. DcInOrder'
    BY <1>5, <2>1 DEF DcDial, DcInOrder, DcOps
  <2> QED
    BY <1>5, <2>2, <2>3 DEF DcDial, DcQuiet, DcCounted, DcOps
<1>6. CASE DcHello
  <2>1. DcTypeOK'
    <3>1. dcFaulty' \in 0..DcFaults
      BY <1>6 DEF DcHello, DcFault, DcTypeOK
    <3>2. dcOpen' \in BOOLEAN /\ dcGood' \in BOOLEAN /\ dcAwait' \in BOOLEAN
      BY <1>6, Zenon DEF DcHello, DcTypeOK
    <3>3. /\ dcPc' \in {"read", "over"} /\ dcSeq' \in 0..DcEvents /\ dcBeat' \in {"off", "timer", "sent"}
          /\ UNCHANGED <<dcAttempt, dcRow, dcWire, dcSilent, dcOwed, dcSent, dcHandled, dcCtx, dcKilled>>
      BY <1>6 DEF DcHello, DcTypeOK
    <3> QED
      BY <3>1, <3>2, <3>3 DEF DcTypeOK
  <2>2. DcInOrder'
    BY <1>6 DEF DcHello, DcInOrder, DcTypeOK, DcOps
  <2> QED
    BY <1>6, <2>1, <2>2 DEF DcHello, DcQuiet, DcCounted, DcOps
<1>7. CASE DcRead
  <2> DEFINE e == Head(dcWire)
  <2>0. dcWire \in Seq(DcFrames) /\ dcWire # <<>> /\ dcWire' = Tail(dcWire)
    BY <1>7 DEF DcRead, DcTypeOK, DcFrames
  <2>1. /\ Len(dcWire) \in Nat /\ Len(dcWire) > 0 /\ 1 \in DOMAIN dcWire /\ e = dcWire[1] /\ e \in DcFrames
        /\ dcWire' \in Seq(DcFrames) /\ Len(dcWire') = Len(dcWire) - 1
        /\ \A i \in DOMAIN dcWire' : i \in Nat /\ i > 0 /\ i + 1 \in DOMAIN dcWire /\ dcWire'[i] = dcWire[i + 1]
    BY <2>0, HeadAndTail
  <2>2. /\ dcSeq' = IF e.op \in DcNumbered THEN e.n ELSE dcSeq
        /\ dcPc = "read" /\ dcPc' \in DcOps \cup {"ending", "read"} /\ (dcPc' \in DcOps => e.op \in DcOps)
        /\ UNCHANGED <<dcAttempt, dcGood, dcRow, dcOpen, dcSilent, dcBeat, dcSent, dcHandled, dcCtx, dcFaulty, dcKilled>>
    BY <1>7 DEF DcRead, DcNumbered, DcOps
  <2>3. e.op \in DcNumbered => /\ e.n \in 1..dcSent /\ e.n > dcSeq /\ \A j \in DOMAIN dcHandled : dcHandled[j] < e.n
                               /\ \A i \in DOMAIN dcWire' : dcWire'[i].op \in DcNumbered => e.n < dcWire'[i].n
    <3>1. \A i \in DOMAIN dcWire' : 1 < i + 1
      BY <2>1
    <3> QED
      BY <2>1, <3>1 DEF DcInOrder
  <2>4. DcInOrder'
    <3>1. \A i, j \in DOMAIN dcWire' : i < j /\ dcWire'[i].op \in DcNumbered /\ dcWire'[j].op \in DcNumbered
            => dcWire'[i].n < dcWire'[j].n
      <4> SUFFICES ASSUME NEW i \in DOMAIN dcWire', NEW j \in DOMAIN dcWire', i < j, dcWire'[i].op \in DcNumbered,
                          dcWire'[j].op \in DcNumbered
                   PROVE  dcWire'[i].n < dcWire'[j].n
        OBVIOUS
      <4>1. i + 1 < j + 1
        BY <2>1
      <4> QED
        BY <2>1, <4>1 DEF DcInOrder
    <3>2. \A i \in DOMAIN dcWire' : dcWire'[i].op \in DcNumbered =>
            /\ dcWire'[i].n \in 1..dcSent /\ dcWire'[i].n > dcSeq'
            /\ \A j \in DOMAIN dcHandled : dcHandled[j] < dcWire'[i].n
      BY <2>1, <2>2, <2>3 DEF DcInOrder
    <3>3. dcSeq' <= dcSent /\ (dcPc' \in DcOps => dcSeq' > 0 /\ \A i \in DOMAIN dcHandled : dcHandled[i] < dcSeq')
      BY <2>2, <2>3 DEF DcInOrder, DcNumbered, DcTypeOK
    <3> QED
      BY <2>2, <3>1, <3>2, <3>3 DEF DcInOrder
  <2>5. DcTypeOK'
    <3>1. dcSeq' \in 0..DcEvents
      BY <2>1, <2>2 DEF DcTypeOK, DcFrames
    <3>2. Len(dcWire') <= DcInFlight
      BY <2>1 DEF DcTypeOK
    <3>3. dcAwait' \in BOOLEAN /\ dcOwed' \in Nat
      BY SMTT(30), <1>7 DEF DcRead, DcTypeOK
    <3> QED
      BY <2>1, <2>2, <3>1, <3>2, <3>3 DEF DcTypeOK, DcFrames, DcOps
  <2> QED
    BY <2>2, <2>4, <2>5 DEF DcQuiet, DcCounted, DcOps
<1>8. CASE DcReadFails \/ DcReply \/ DcBeatSent \/ DcBeatStops \/ DcRetry \/ DcCancel
  <2>1. DcTypeOK'
    <3>1. CASE DcReadFails \/ DcReply \/ DcRetry
      BY ZenonT(60), <3>1 DEF DcReadFails, DcReply, DcRetry, DcTypeOK
    <3>2. CASE DcBeatSent \/ DcBeatStops
      BY ZenonT(60), <3>2 DEF DcBeatSent, DcBeatStops, DcTypeOK
    <3>3. CASE DcCancel
      BY <3>3 DEF DcCancel, DcTypeOK
    <3> QED
      BY <1>8, <3>1, <3>2, <3>3
  <2>2. DcInOrder'
    BY <1>8 DEF DcReadFails, DcReply, DcBeatSent, DcBeatStops, DcRetry, DcCancel, DcInOrder, DcOps
  <2> QED
    BY <1>8, <2>1, <2>2 DEF DcReadFails, DcReply, DcBeatSent, DcBeatStops, DcRetry, DcCancel, DcQuiet, DcCounted, DcOps
<1>9. CASE DcMessage \/ DcPress
  <2>1. /\ dcPc \in DcOps /\ dcPc' \in {"read", "reply"} /\ dcHandled' = Append(dcHandled, dcSeq)
        /\ UNCHANGED <<dcAttempt, dcGood, dcRow, dcOpen, dcWire, dcSilent, dcBeat, dcAwait, dcOwed, dcSeq, dcSent,
                       dcCtx, dcFaulty, dcKilled>>
    BY <1>9 DEF DcMessage, DcPress, DcRun, DcOps
  <2>2. dcSeq \in 1..DcEvents /\ dcHandled \in Seq(1..DcEvents) /\ dcSeq \in 1..dcSent /\ dcSent \in Nat
    BY <2>1 DEF DcInOrder, DcTypeOK
  <2>3. /\ dcHandled' \in Seq(1..DcEvents) /\ Len(dcHandled) \in Nat
        /\ \A i \in DOMAIN dcHandled : dcHandled'[i] = dcHandled[i] /\ i < Len(dcHandled) + 1
        /\ dcHandled'[Len(dcHandled) + 1] = dcSeq
        /\ DOMAIN dcHandled = 1..Len(dcHandled)
        /\ \A i \in DOMAIN dcHandled' : i \in DOMAIN dcHandled \/ i = Len(dcHandled) + 1
    BY <2>1, <2>2, AtTheEnd
  <2>4. DcInOrder'
    <3>1. \A i, j \in DOMAIN dcHandled' : i < j => dcHandled'[i] < dcHandled'[j]
      BY <2>1, <2>3 DEF DcInOrder
    <3>2. \A i \in DOMAIN dcHandled' : dcHandled'[i] \in 1..dcSent
      BY <2>1, <2>2, <2>3 DEF DcInOrder
    <3>3. \A i \in DOMAIN dcWire : dcWire[i].op \in DcNumbered => \A j \in DOMAIN dcHandled' : dcHandled'[j] < dcWire[i].n
      BY <2>2, <2>3 DEF DcInOrder
    <3> QED
      BY <2>1, <3>1, <3>2, <3>3 DEF DcInOrder, DcOps
  <2> QED
    BY <2>1, <2>3, <2>4 DEF DcTypeOK, DcQuiet, DcCounted, DcOps
<1>10. CASE DcEnd
  <2>1. DcTypeOK' /\ DcInOrder'
    BY <1>10 DEF DcEnd, DcTypeOK, DcInOrder, DcOps
  <2> QED
    BY <1>10, <2>1 DEF DcEnd, DcQuiet, DcCounted, DcOps
<1>11. CASE DcBeatDue
  <2>1. DcTypeOK'
    <3>1. dcOpen' \in BOOLEAN /\ dcKilled' \in BOOLEAN
      BY <1>11, Zenon DEF DcBeatDue, DcTypeOK
    <3>2. dcOwed' \in Nat /\ dcBeat' \in {"off", "timer", "sent"}
      BY <1>11 DEF DcBeatDue, DcTypeOK
    <3> QED
      BY <1>11, <3>1, <3>2 DEF DcBeatDue, DcTypeOK
  <2>2. DcInOrder'
    BY <1>11 DEF DcBeatDue, DcInOrder
  <2> QED
    BY <1>11, <2>1, <2>2 DEF DcBeatDue, DcQuiet, DcCounted
<1>12. CASE DcOver
  <2> DEFINE attempt == (IF dcGood THEN 0 ELSE dcAttempt) + 1
  <2>1. /\ dcPc = "over" /\ dcAttempt' = attempt /\ dcRow' = IF dcGood THEN 0 ELSE dcRow + 1
        /\ dcPc' = IF dcCtx THEN "cancelled" ELSE IF attempt >= DcMaxAttempts THEN "gaveup" ELSE "pause"
        /\ UNCHANGED <<dcGood, dcOpen, dcWire, dcSilent, dcBeat, dcAwait, dcOwed, dcSeq, dcSent, dcHandled,
                       dcCtx, dcFaulty, dcKilled>>
    BY <1>12 DEF DcOver
  <2>2. dcAttempt \in Nat /\ dcAttempt < DcMaxAttempts /\ dcRow \in Nat /\ dcGood \in BOOLEAN
    BY <2>1 DEF DcCounted, DcTypeOK
  <2>3. DcCounted' /\ dcAttempt' \in 0..DcMaxAttempts /\ dcRow' \in 0..DcMaxAttempts
    BY <2>1, <2>2 DEF DcCounted
  <2>4. DcInOrder'
    BY <2>1 DEF DcInOrder, DcOps
  <2> QED
    BY <2>1, <2>3, <2>4 DEF DcTypeOK, DcQuiet, DcOps
<1>13. CASE UNCHANGED dcVars
  BY <1>13 DEF dcVars, DcTypeOK, DcQuiet, DcInOrder, DcCounted
<1> QED
  BY <1>1, <1>2, <1>3, <1>4, <1>5, <1>6, <1>7, <1>8, <1>9, <1>10, <1>11, <1>12, <1>13 DEF DcNext, DcStep

LEMMA DcInitInv == DcInit => DcInv
<1> SUFFICES ASSUME DcInit PROVE DcInv
  OBVIOUS
<1>1. <<>> \in Seq(DcFrames) /\ <<>> \in Seq(1..DcEvents) /\ Len(<<>>) = 0 /\ DOMAIN <<>> = {}
  OBVIOUS
<1>2. DcTypeOK
  <2>1. 0 \in 0..DcMaxAttempts /\ 0 \in 0..DcEvents /\ 0 \in 0..DcFaults /\ 0 \in Nat /\ 0 <= DcInFlight
    BY DcAssumption
  <2>2. dcWire \in Seq(DcFrames) /\ Len(dcWire) <= DcInFlight /\ dcHandled \in Seq(1..DcEvents)
    BY <1>1, <2>1 DEF DcInit
  <2> QED
    BY <2>1, <2>2 DEF DcInit, DcTypeOK, DcFrames
<1> QED
  BY <1>1, <1>2, DcAssumption DEF DcInit, DcInv, DcQuiet, DcInOrder, DcCounted, DcOps

\* For every number of events, frames in flight, faults and attempts, a session of
\* the Discord gateway leaves neither heartbeat nor connection behind, no event is
\* handled twice or out of order, and Connect gives up only on failures in a row.
THEOREM DcSessionsApartAlways == DcSpec => [](DcTypeOK /\ DcSessionsApart)
<1>1. DcInv => DcTypeOK /\ DcSessionsApart
  <2> SUFFICES ASSUME DcInv PROVE DcSessionsApart
    BY DEF DcInv
  <2>1. \A i \in 1..(Len(dcHandled) - 1) : dcHandled[i] < dcHandled[i + 1]
    <3> TAKE i \in 1..(Len(dcHandled) - 1)
    <3>1. dcHandled \in Seq(1..DcEvents)
      BY DEF DcInv, DcTypeOK
    <3>2. i \in DOMAIN dcHandled /\ i + 1 \in DOMAIN dcHandled /\ i < i + 1
      BY <3>1
    <3> QED
      BY <3>2 DEF DcInv, DcInOrder
  <2> QED
    BY <2>1, DcAssumption DEF DcInv, DcTypeOK, DcQuiet, DcCounted, DcOps, DcSessionsApart
<1> QED
  BY <1>1, DcInitInv, DcNextInv, PTL DEF DcSpec

----------------------------------------------------------------------------
(* The WebSocket server.  Answers come in order because the requests that   *)
(* were sent and not read stand in the queue in order, each once, from the  *)
(* one behind those answered and the one being answered.                    *)

WsSpec == WsInit /\ [][WsNext]_wsVars

WsOpen == {"upgrade", "read", "work", "write"}
WsFrames == [op : {"text", "ping", "pong", "close", "binary"}, n : 0..WsRequests]

WsBase == Len(wsOut) + (IF wsPc \in {"work", "write"} THEN 1 ELSE 0)

WsWaiting ==
  /\ WsBase <= wsAsked
  /\ \A i \in DOMAIN wsIn : wsIn[i].op = "text" => wsIn[i].n > WsBase /\ wsIn[i].n <= wsAsked
  /\ \A m \in (WsBase + 1)..wsAsked : \E i \in DOMAIN wsIn : wsIn[i].op = "text" /\ wsIn[i].n = m
  /\ \A i, j \in DOMAIN wsIn : i < j /\ wsIn[i].op = "text" /\ wsIn[j].op = "text" => wsIn[i].n < wsIn[j].n

WsAnswered ==
  /\ Len(wsOut) <= wsAsked /\ \A i \in DOMAIN wsOut : wsOut[i] = i
  /\ wsPc \in {"work", "write"} => wsNow.n = Len(wsOut) + 1
  /\ wsPc = "upgrade" => wsIn = <<>> /\ wsQuiet = 0

\* A peer that is there is pinged, and its pong is on the way when the deadline nears.
WsAlive ==
  /\ ~wsLate /\ wsQuiet < WsFactor
  /\ wsPc \in {"read", "work", "write"} /\ wsPeer # "gone" => wsPings
  /\ wsPc = "read" /\ wsPeer = "there" => wsQuiet = 0 \/ wsIn # <<>>

WsInv == WsTypeOK /\ WsAnswered /\ (wsPc \in WsOpen => WsWaiting) /\ WsAlive

\* A frame of the peer joins the queue.
LEMMA WsArrives ==
  ASSUME WsTypeOK, WsWaiting, NEW op \in {"text", "ping", "pong", "close", "binary"}, NEW n \in 0..WsRequests,
         Len(wsIn) < WsInFlight, wsIn' = Append(wsIn, [op |-> op, n |-> n]),
         wsAsked' = IF op = "text" THEN wsAsked + 1 ELSE wsAsked,
         op = "text" => n = wsAsked',
         WsBase' = WsBase
  PROVE  WsWaiting' /\ wsIn' \in Seq(WsFrames) /\ Len(wsIn') <= WsInFlight /\ wsIn' # <<>>
<1> DEFINE e == [op |-> op, n |-> n]
<1>1. e \in WsFrames /\ wsIn \in Seq(WsFrames) /\ wsAsked \in Nat /\ WsBase \in Nat /\ WsInFlight \in Nat
  BY WsAssumption DEF WsFrames, WsTypeOK, WsBase
<1>2. /\ wsIn' \in Seq(WsFrames) /\ Len(wsIn) \in Nat /\ Len(wsIn') = Len(wsIn) + 1
      /\ \A i \in DOMAIN wsIn : wsIn'[i] = wsIn[i] /\ i < Len(wsIn) + 1 /\ i \in DOMAIN wsIn'
      /\ wsIn'[Len(wsIn) + 1] = e /\ Len(wsIn) + 1 \in DOMAIN wsIn'
      /\ \A i \in DOMAIN wsIn' : i \in DOMAIN wsIn \/ i = Len(wsIn) + 1
      /\ \A i \in DOMAIN wsIn : i \in Nat /\ wsIn[i] \in WsFrames
  BY <1>1, AtTheEnd
<1>3. \A i \in DOMAIN wsIn : wsIn[i].n \in Nat
  BY <1>2 DEF WsFrames
<1>4. wsAsked' \in Nat /\ WsBase <= wsAsked' /\ wsAsked <= wsAsked'
  BY <1>1 DEF WsWaiting
<1>5. \A i \in DOMAIN wsIn' : wsIn'[i].op = "text" => wsIn'[i].n > WsBase /\ wsIn'[i].n <= wsAsked'
  <2> SUFFICES ASSUME NEW i \in DOMAIN wsIn', wsIn'[i].op = "text"
               PROVE  wsIn'[i].n > WsBase /\ wsIn'[i].n <= wsAsked'
    OBVIOUS
  <2>1. CASE i \in DOMAIN wsIn
    BY <1>1, <1>2, <1>3, <1>4, <2>1 DEF WsWaiting
  <2>2. CASE i = Len(wsIn) + 1
    BY <1>1, <1>2, <1>4, <2>2 DEF WsWaiting
  <2> QED
    BY <1>2, <2>1, <2>2
<1>6. \A m \in (WsBase + 1)..wsAsked' : \E i \in DOMAIN wsIn' : wsIn'[i].op = "text" /\ wsIn'[i].n = m
  <2> TAKE m \in (WsBase + 1)..wsAsked'
  <2>1. CASE m \in (WsBase + 1)..wsAsked
    BY <1>2, <2>1 DEF WsWaiting
  <2>2. CASE m \notin (WsBase + 1)..wsAsked
    <3>1. op = "text" /\ m = n
      BY <1>1, <2>2
    <3> QED
      BY <1>2, <3>1
  <2> QED
    BY <2>1, <2>2
<1>7. \A i, j \in DOMAIN wsIn' : i < j /\ wsIn'[i].op = "text" /\ wsIn'[j].op = "text" => wsIn'[i].n < wsIn'[j].n
  <2> SUFFICES ASSUME NEW i \in DOMAIN wsIn', NEW j \in DOMAIN wsIn', i < j,
                      wsIn'[i].op = "text", wsIn'[j].op = "text"
               PROVE  wsIn'[i].n < wsIn'[j].n
    OBVIOUS
  <2>1. i \in DOMAIN wsIn
    BY <1>2
  <2>2. CASE j \in DOMAIN wsIn
    BY <1>2, <2>1, <2>2 DEF WsWaiting
  <2>3. CASE j = Len(wsIn) + 1
    <3>1. wsIn'[i] = wsIn[i] /\ wsIn[i].n <= wsAsked /\ wsIn[i].n \in Nat
      BY <1>2, <1>3, <2>1 DEF WsWaiting
    <3>2. wsIn'[j].n = n /\ n = wsAsked + 1
      BY <1>2, <2>3
    <3> QED
      BY <1>1, <3>1, <3>2
  <2> QED
    BY <1>2, <2>2, <2>3
<1> QED
  <2>1. wsIn' # <<>>
    BY <1>2
  <2> QED
    <3>1. WsWaiting'
      BY <1>4, <1>5, <1>6, <1>7 DEF WsWaiting
    <3>2. Len(wsIn') <= WsInFlight
      BY <1>1, <1>2
    <3> QED
      BY <1>2, <2>1, <3>1, <3>2

LEMMA WsNextInv == WsInv /\ [WsNext]_wsVars => WsInv'
<1> SUFFICES ASSUME WsInv, [WsNext]_wsVars PROVE WsInv'
  OBVIOUS
<1> USE WsAssumption DEF WsInv, WsOpen
<1>0. /\ wsIn \in Seq(WsFrames) /\ wsAsked \in 0..WsRequests /\ wsQuiet \in Nat /\ WsFactor \in Nat /\ WsFactor > 1
      /\ wsLate = FALSE /\ Len(wsOut) \in Nat
  BY DEF WsTypeOK, WsAlive, WsFrames
<1>1. CASE WsUpgrade
  <2>1. WsTypeOK'
    BY <1>1 DEF WsUpgrade, WsTypeOK
  <2>2. wsPc' \in WsOpen => WsWaiting'
    BY <1>1 DEF WsUpgrade, WsWaiting, WsBase
  <2> QED
    BY <1>1, <2>1, <2>2 DEF WsUpgrade, WsAnswered, WsAlive
<1>2. CASE WsPeerSends
  <2>1. /\ wsPc \in {"read", "work", "write"} /\ Len(wsIn) < WsInFlight
        /\ UNCHANGED <<wsPc, wsOut, wsNow, wsQuiet, wsPeer, wsPings, wsLate>>
    BY <1>2 DEF WsPeerSends
  <2>2. WsBase' = WsBase
    BY <2>1 DEF WsBase
  <2>3. /\ WsWaiting' /\ wsIn' \in Seq(WsFrames) /\ Len(wsIn') <= WsInFlight /\ wsIn' # <<>>
        /\ wsAsked' \in 0..WsRequests /\ wsAsked' >= wsAsked
    <3>1. CASE wsAsked < WsRequests /\ wsAsked' = wsAsked + 1 /\ wsIn' = Append(wsIn, [op |-> "text", n |-> wsAsked'])
      <4>1. wsAsked' \in 0..WsRequests
        BY <1>0, <3>1
      <4>2. WsWaiting' /\ wsIn' \in Seq(WsFrames) /\ Len(wsIn') <= WsInFlight /\ wsIn' # <<>>
        BY <2>1, <2>2, <3>1, <4>1, WsArrives
      <4> QED
        BY <1>0, <3>1, <4>1, <4>2
    <3>2. ASSUME NEW op \in {"ping", "close", "binary"}, wsIn' = Append(wsIn, [op |-> op, n |-> 0]), wsAsked' = wsAsked
          PROVE  WsWaiting' /\ wsIn' \in Seq(WsFrames) /\ Len(wsIn') <= WsInFlight /\ wsIn' # <<>>
      <4>1. 0 \in 0..WsRequests
        OBVIOUS
      <4> QED
        BY <2>1, <2>2, <3>2, <4>1, WsArrives
    <3> QED
      BY <1>0, <1>2, <3>1, <3>2 DEF WsPeerSends
  <2>4. WsTypeOK'
    BY <2>1, <2>3 DEF WsTypeOK, WsFrames
  <2>5. WsAnswered'
    BY <1>0, <2>1, <2>3 DEF WsAnswered
  <2> QED
    BY <2>1, <2>3, <2>4, <2>5 DEF WsAlive
<1>3. CASE WsPeerLost
  <2>1. WsTypeOK'
    BY <1>3 DEF WsPeerLost, WsTypeOK
  <2>2. (wsPc' \in WsOpen => WsWaiting') /\ WsAnswered'
    BY <1>3 DEF WsPeerLost, WsWaiting, WsBase, WsAnswered
  <2> QED
    BY <1>3, <2>1, <2>2 DEF WsPeerLost, WsAlive
<1>4. CASE WsTick
  <2> DEFINE ponged == wsPeer = "there" /\ wsPings /\ Len(wsIn) < WsInFlight
  <2>1. /\ wsPc \in {"read", "work"} /\ UNCHANGED <<wsAsked, wsOut, wsNow, wsPeer>>
        /\ wsPings' = (wsPings /\ wsPeer # "gone")
        /\ wsIn' = IF ponged THEN Append(wsIn, [op |-> "pong", n |-> 0]) ELSE wsIn
    BY <1>4 DEF WsTick
  <2>2. /\ wsPc' \in {wsPc, "closed"} /\ wsQuiet' \in Nat /\ wsQuiet' < WsFactor
        /\ wsQuiet' = wsQuiet \/ (wsPc = "read" /\ wsIn = <<>>)
        /\ ~wsLate'
    <3>1. CASE wsPc = "read" /\ wsIn = <<>>
      <4>1. wsPeer = "there" => wsQuiet = 0
        BY <3>1 DEF WsAlive
      <4>2. wsPeer = "there" => ~(wsQuiet + 1 >= WsFactor)
        BY <1>0, <4>1
      <4>3. CASE wsQuiet + 1 >= WsFactor
        <5>1. wsPc' = "closed" /\ wsLate' = (wsLate \/ wsPeer = "there") /\ wsQuiet' = wsQuiet
          BY <1>4, <3>1, <4>3 DEF WsTick
        <5> QED
          BY <1>0, <4>2, <4>3, <5>1 DEF WsAlive
      <4>4. CASE ~(wsQuiet + 1 >= WsFactor)
        BY <1>0, <1>4, <3>1, <4>4 DEF WsTick
      <4> QED
        BY <4>3, <4>4
    <3>2. CASE ~(wsPc = "read" /\ wsIn = <<>>)
      BY <1>0, <1>4, <3>2 DEF WsTick, WsAlive
    <3> QED
      BY <3>1, <3>2
  <2>3. wsPc' = wsPc => WsBase' = WsBase
    BY <2>1 DEF WsBase
  <2>4. /\ wsIn' \in Seq(WsFrames) /\ Len(wsIn') <= WsInFlight
        /\ wsPc' \in WsOpen => WsWaiting'
        /\ wsPeer = "there" /\ wsPings /\ wsIn = <<>> => wsIn' # <<>>
    <3>1. CASE ponged
      <4>1. 0 \in 0..WsRequests
        OBVIOUS
      <4>2. ASSUME WsBase' = WsBase
            PROVE  WsWaiting'
        BY <2>1, <3>1, <4>1, <4>2, WsArrives
      <4>3. [op |-> "pong", n |-> 0] \in WsFrames
        BY DEF WsFrames
      <4>4. wsIn' \in Seq(WsFrames) /\ Len(wsIn') = Len(wsIn) + 1
        BY <1>0, <2>1, <3>1, <4>3, AtTheEnd
      <4>5. wsIn' # <<>> /\ Len(wsIn') <= WsInFlight
        BY <1>0, <3>1, <4>4
      <4> QED
        BY <2>1, <2>2, <2>3, <4>2, <4>4, <4>5
    <3>2. CASE ~ponged
      <4>1. wsIn' = wsIn
        BY <2>1, <3>2
      <4>2. wsPc' = wsPc => WsWaiting'
        BY <2>1, <2>3, <4>1 DEF WsWaiting
      <4>3. ~(wsPeer = "there" /\ wsPings /\ wsIn = <<>>)
        BY <3>2
      <4> QED
        BY <1>0, <2>1, <2>2, <4>1, <4>2, <4>3 DEF WsTypeOK
    <3> QED
      BY <3>1, <3>2
  <2>5. WsTypeOK'
    <3>1. wsPings' \in BOOLEAN /\ wsLate' \in BOOLEAN
      BY <2>1, <2>2, <1>4, Zenon DEF WsTick, WsTypeOK
    <3>2. wsQuiet' \in 0..WsFactor
      BY <1>0, <2>2
    <3> QED
      BY <2>1, <2>2, <2>4, <3>1, <3>2 DEF WsTypeOK, WsFrames
  <2>6. WsAlive'
    <3>1. wsPc' \in {"read", "work", "write"} /\ wsPeer' # "gone" => wsPings'
      BY <2>1, <2>2 DEF WsAlive
    <3>2. wsPc' = "read" /\ wsPeer' = "there" => wsQuiet' = 0 \/ wsIn' # <<>>
      <4>1. CASE wsIn = <<>>
        BY <2>1, <2>2, <2>4, <4>1 DEF WsAlive
      <4>2. CASE wsIn # <<>>
        <5>1. wsIn' # <<>>
          BY <1>0, <2>1, <4>2
        <5> QED
          BY <5>1
      <4> QED
        BY <4>1, <4>2
    <3> QED
      BY <2>2, <3>1, <3>2 DEF WsAlive
  <2> QED
    BY <2>1, <2>2, <2>4, <2>5, <2>6 DEF WsAnswered
<1>5. CASE WsRead
  <2> DEFINE e == Head(wsIn)
  <2>0. wsPc = "read" /\ wsIn # <<>> /\ wsIn' = Tail(wsIn)
    BY <1>5 DEF WsRead
  <2>1. /\ Len(wsIn) \in Nat /\ Len(wsIn) > 0 /\ 1 \in DOMAIN wsIn /\ DOMAIN wsIn = 1..Len(wsIn) /\ e = wsIn[1] /\ e \in WsFrames
        /\ wsIn' \in Seq(WsFrames) /\ Len(wsIn') = Len(wsIn) - 1
        /\ \A i \in DOMAIN wsIn' : i \in Nat /\ i > 0 /\ i + 1 \in DOMAIN wsIn /\ wsIn'[i] = wsIn[i + 1]
    BY <1>0, <2>0, HeadAndTail
  <2>2. /\ wsNow' = e /\ wsQuiet' = 0
        /\ wsPc' = IF e.op = "text" THEN "work" ELSE IF e.op \in {"close", "binary"} THEN "closed" ELSE "read"
        /\ UNCHANGED <<wsAsked, wsOut, wsPeer, wsPings, wsLate>>
    BY <1>5 DEF WsRead
  <2>3. WsBase = Len(wsOut) /\ WsBase' = IF e.op = "text" THEN Len(wsOut) + 1 ELSE Len(wsOut)
    BY <1>0, <2>0, <2>2 DEF WsBase
  <2>4. \A i \in DOMAIN wsIn : i \in Nat /\ wsIn[i].n \in Nat /\ (i # 1 => i - 1 \in DOMAIN wsIn' /\ wsIn'[i - 1] = wsIn[i])
    <3> TAKE i \in DOMAIN wsIn
    <3>1. i \in Nat /\ wsIn[i] \in WsFrames /\ (i # 1 => i - 1 \in 1..(Len(wsIn) - 1))
      BY <1>0, <2>1
    <3>2. DOMAIN wsIn' = 1..(Len(wsIn) - 1)
      BY <2>1
    <3>3. i # 1 => wsIn'[i - 1] = wsIn[(i - 1) + 1]
      BY <2>1, <3>1, <3>2
    <3> QED
      BY <3>1, <3>2, <3>3 DEF WsFrames
  <2>5. e.op = "text" => e.n = Len(wsOut) + 1
    <3> SUFFICES ASSUME e.op = "text" PROVE e.n = Len(wsOut) + 1
      OBVIOUS
    <3>1. e.n > Len(wsOut) /\ e.n <= wsAsked /\ e.n \in Nat
      BY <1>0, <2>0, <2>1, <2>3, <2>4 DEF WsWaiting
    <3>2. Len(wsOut) + 1 \in (WsBase + 1)..wsAsked
      BY <1>0, <2>3, <3>1
    <3>3. PICK i \in DOMAIN wsIn : wsIn[i].op = "text" /\ wsIn[i].n = Len(wsOut) + 1
      BY <2>0, <3>2 DEF WsWaiting
    <3>4. i = 1 \/ 1 < i
      BY <2>1
    <3>5. 1 < i => e.n < wsIn[i].n
      BY <2>0, <2>1, <3>3 DEF WsWaiting
    <3> QED
      BY <1>0, <2>1, <3>1, <3>3, <3>4, <3>5
  <2>6. wsPc' \in WsOpen => WsWaiting'
    <3> SUFFICES ASSUME wsPc' \in WsOpen PROVE WsWaiting'
      OBVIOUS
    <3>0. WsWaiting
      BY <2>0
    <3>1. WsBase' <= wsAsked
      BY SMTT(30), <1>0, <2>1, <2>3, <2>4, <2>5, <3>0 DEF WsWaiting
    <3>2. \A i, j \in DOMAIN wsIn' : i < j /\ wsIn'[i].op = "text" /\ wsIn'[j].op = "text" => wsIn'[i].n < wsIn'[j].n
      <4> SUFFICES ASSUME NEW i \in DOMAIN wsIn', NEW j \in DOMAIN wsIn', i < j,
                          wsIn'[i].op = "text", wsIn'[j].op = "text"
                   PROVE  wsIn'[i].n < wsIn'[j].n
        OBVIOUS
      <4>1. i + 1 < j + 1
        BY <2>1
      <4> QED
        BY <2>1, <3>0, <4>1 DEF WsWaiting
    <3>3. \A i \in DOMAIN wsIn' : wsIn'[i].op = "text" => wsIn'[i].n > WsBase' /\ wsIn'[i].n <= wsAsked
      <4> SUFFICES ASSUME NEW i \in DOMAIN wsIn', wsIn'[i].op = "text"
                   PROVE  wsIn'[i].n > WsBase' /\ wsIn'[i].n <= wsAsked
        OBVIOUS
      <4>1. i + 1 \in DOMAIN wsIn /\ wsIn'[i] = wsIn[i + 1] /\ 1 < i + 1
        BY <2>1
      <4>2. wsIn[i + 1].n > WsBase /\ wsIn[i + 1].n <= wsAsked /\ (e.op = "text" => e.n < wsIn[i + 1].n)
        BY <2>1, <3>0, <4>1 DEF WsWaiting
      <4> QED
        BY <1>0, <2>3, <2>4, <2>5, <4>1, <4>2
    <3>4. \A m \in (WsBase' + 1)..wsAsked : \E i \in DOMAIN wsIn' : wsIn'[i].op = "text" /\ wsIn'[i].n = m
      <4> TAKE m \in (WsBase' + 1)..wsAsked
      <4>1. m \in (WsBase + 1)..wsAsked /\ (e.op = "text" => m # e.n)
        BY <1>0, <2>3, <2>5
      <4>2. PICK i \in DOMAIN wsIn : wsIn[i].op = "text" /\ wsIn[i].n = m
        BY <3>0, <4>1 DEF WsWaiting
      <4>3. i # 1
        BY <2>1, <4>1, <4>2
      <4> QED
        BY <2>4, <4>2, <4>3
    <3> QED
      BY <2>2, <3>1, <3>2, <3>3, <3>4 DEF WsWaiting
  <2>7. WsTypeOK'
    <3>1. /\ wsNow' \in [op : {"none", "text", "ping", "pong", "close", "binary"}, n : 0..WsRequests]
          /\ Len(wsIn') <= WsInFlight /\ wsQuiet' \in 0..WsFactor
      BY <2>1, <2>2 DEF WsFrames, WsTypeOK
    <3> QED
      BY <2>1, <2>2, <3>1 DEF WsTypeOK, WsFrames
  <2>8. WsAnswered' /\ WsAlive'
    BY <1>0, <2>0, <2>2, <2>5 DEF WsAnswered, WsAlive
  <2> QED
    BY <2>6, <2>7, <2>8
<1>6. CASE WsDispatch
  <2>1. WsTypeOK'
    BY <1>6 DEF WsDispatch, WsTypeOK
  <2>2. WsWaiting' /\ WsAnswered'
    BY <1>6 DEF WsDispatch, WsWaiting, WsBase, WsAnswered
  <2> QED
    BY <1>6, <2>1, <2>2 DEF WsDispatch, WsAlive
<1>7. CASE WsWrite
  <2>1. /\ wsPc = "write" /\ wsNow' = WsNothing /\ wsQuiet' = 0
        /\ UNCHANGED <<wsIn, wsAsked, wsPeer, wsPings, wsLate>>
    BY <1>7 DEF WsWrite
  <2>2. wsNow.n = Len(wsOut) + 1 /\ Len(wsOut) + 1 <= wsAsked /\ wsOut \in Seq(1..WsRequests) /\ wsNow.n \in 1..WsRequests
    BY <1>0, <2>1 DEF WsAnswered, WsWaiting, WsBase, WsTypeOK
  <2>3. WsNothing \in [op : {"none", "text", "ping", "pong", "close", "binary"}, n : 0..WsRequests] /\ 0 \in 0..WsFactor
    BY DEF WsNothing
  <2>4. CASE wsPeer = "gone"
    <3>1. wsPc' = "closed" /\ wsOut' = wsOut
      BY <1>7, <2>4 DEF WsWrite
    <3>2. WsTypeOK'
      BY <2>1, <2>3, <3>1 DEF WsTypeOK
    <3> QED
      BY <1>0, <2>1, <3>1, <3>2 DEF WsAnswered, WsAlive
  <2>5. CASE wsPeer # "gone"
    <3>1. wsPc' = "read" /\ wsOut' = Append(wsOut, wsNow.n)
      BY <1>7, <2>5 DEF WsWrite
    <3>2. /\ wsOut' \in Seq(1..WsRequests) /\ Len(wsOut') = Len(wsOut) + 1
          /\ \A i \in DOMAIN wsOut : wsOut'[i] = wsOut[i]
          /\ wsOut'[Len(wsOut) + 1] = wsNow.n
          /\ \A i \in DOMAIN wsOut' : i \in DOMAIN wsOut \/ i = Len(wsOut) + 1
      BY <2>2, <3>1, AtTheEnd
    <3>3. WsTypeOK'
      BY <2>1, <2>3, <3>1, <3>2 DEF WsTypeOK
    <3>4. WsAnswered'
      BY <2>1, <2>2, <3>1, <3>2 DEF WsAnswered
    <3>5. WsBase' = WsBase
      BY <1>0, <2>1, <3>1, <3>2 DEF WsBase
    <3>6. WsWaiting'
      BY <2>1, <3>5 DEF WsWaiting
    <3> QED
      BY <1>0, <2>1, <3>1, <3>3, <3>4, <3>6 DEF WsAlive
  <2> QED
    BY <2>4, <2>5
<1>8. CASE UNCHANGED wsVars
  <2>1. WsTypeOK'
    BY <1>8 DEF wsVars, WsTypeOK
  <2>2. (wsPc' \in WsOpen => WsWaiting') /\ WsAnswered'
    BY <1>8 DEF wsVars, WsWaiting, WsBase, WsAnswered
  <2> QED
    BY <1>8, <2>1, <2>2 DEF wsVars, WsAlive
<1> QED
  BY <1>1, <1>2, <1>3, <1>4, <1>5, <1>6, <1>7, <1>8 DEF WsNext, WsStep

LEMMA WsInitInv == WsInit => WsInv
<1> SUFFICES ASSUME WsInit PROVE WsInv
  OBVIOUS
<1>1. <<>> \in Seq(WsFrames) /\ <<>> \in Seq(1..WsRequests) /\ Len(<<>>) = 0 /\ DOMAIN <<>> = {}
  OBVIOUS
<1>2. WsTypeOK
  <2>1. 0 \in 0..WsRequests /\ 0 \in 0..WsFactor /\ 0 <= WsInFlight
    BY WsAssumption
  <2> QED
    BY <1>1, <2>1 DEF WsInit, WsTypeOK, WsFrames, WsNothing
<1> QED
  BY <1>1, <1>2, WsAssumption DEF WsInit, WsInv, WsAnswered, WsWaiting, WsBase, WsAlive, WsOpen

\* For every number of requests and frames in flight and every deadline of two
\* ping intervals or more, requests are answered in order, each once, and the
\* deadline never drops a peer that answers its pings.
THEOREM WsServesLivePeerAlways == WsSpec => [](WsTypeOK /\ WsServesLivePeer)
<1>1. WsInv => WsTypeOK /\ WsServesLivePeer
  BY DEF WsInv, WsAnswered, WsAlive, WsServesLivePeer
<1> QED
  BY <1>1, WsInitInv, WsNextInv, PTL DEF WsSpec

----------------------------------------------------------------------------
(* Together.  In MCServe a scenario lets one component step and leaves      *)
(* the others alone, so that each sees only steps of its own.               *)

LEMMA EachFrontAlone == MCSpec => BkSpec /\ TgSpec /\ DcSpec /\ WsSpec
<1>1. MCInit => BkInit /\ TgInit /\ DcInit /\ WsInit
  BY DEF MCInit
<1>2. [MCNext]_serveVars => [BkNext]_bkVars
  BY DEF MCNext, serveVars, frontVars, svcVars, OnlyTelegram, OnlyDiscord, OnlyWebSocket,
             OnlyMcp, OnlyProcess, OnlyAsk, OnlyDaemon, OnlySkills
<1>3. [MCNext]_serveVars => [TgNext]_tgVars
  BY DEF MCNext, serveVars, frontVars, svcVars, OnlyBroker, OnlyDiscord, OnlyWebSocket,
             OnlyMcp, OnlyProcess, OnlyAsk, OnlyDaemon, OnlySkills
<1>4. [MCNext]_serveVars => [DcNext]_dcVars
  BY DEF MCNext, serveVars, frontVars, svcVars, OnlyBroker, OnlyTelegram, OnlyWebSocket,
             OnlyMcp, OnlyProcess, OnlyAsk, OnlyDaemon, OnlySkills
<1>5. [MCNext]_serveVars => [WsNext]_wsVars
  BY DEF MCNext, serveVars, frontVars, svcVars, OnlyBroker, OnlyTelegram, OnlyDiscord,
             OnlyMcp, OnlyProcess, OnlyAsk, OnlyDaemon, OnlySkills
<1>6. MCSpec => MCInit /\ [][MCNext]_serveVars
  BY PTL DEF MCSpec
<1> QED
  BY <1>1, <1>2, <1>3, <1>4, <1>5, <1>6, PTL DEF BkSpec, TgSpec, DcSpec, WsSpec

\* The state of all front ends is well typed: the broker's queue never holds more
\* than its capacity, offsets and beats stay numbers.
THEOREM GatewayTypesKept == MCSpec => []GatewayTypeOK
<1>1. BkTypeOK /\ TgTypeOK /\ DcTypeOK /\ WsTypeOK => GatewayTypeOK
  BY DEF GatewayTypeOK
<1> QED
  BY <1>1, EachFrontAlone, BkRecordFaithfulAlways, TgNothingLostEver, DcSessionsApartAlways, WsServesLivePeerAlways, PTL

\* telegram.go, discord_ws.go and wsserver.go: no update is passed that was not handled to
\* its end; sessions of the Discord gateway do not overlap and hand over each event
\* once; the WebSocket server answers in order and keeps a peer that is alive, for every
\* number of updates, events, faults, requests and ping intervals.
THEOREM AdaptersKeepAlways == MCSpec => []AdaptersKeep
<1>1. TgNothingLost /\ DcSessionsApart /\ WsServesLivePeer => AdaptersKeep
  BY DEF AdaptersKeep
<1> QED
  BY <1>1, EachFrontAlone, TgNothingLostEver, DcSessionsApartAlways, WsServesLivePeerAlways, PTL

=============================================================================
