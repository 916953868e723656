-------------------------------- MODULE Ask --------------------------------
(***************************************************************************)
(* Questions to the user (internal/engine/ask.go): a run blocks on a       *)
(* channel of its own until an answer, a cancellation, its timeout or the  *)
(* end of its context; answers and cancellations come from other           *)
(* goroutines, take the question out of the maps under the lock and send   *)
(* after releasing it.                                                     *)
(***************************************************************************)
EXTENDS Naturals, FiniteSets

CONSTANTS
  AkQuestions,  \* the questions asked, by number
  AkUsers       \* the goroutines that answer or cancel

ASSUME AkAssumption == AkQuestions \subseteq Nat \ {0}

AkBox == 1      \* capacity of a question's channel

VARIABLES
  akPending,  \* AskTool.Pending and AskTool.waiters
  akAsk,      \* [AkQuestions -> "new", "blocked", "leaving", "returned"]
  akChan,     \* [AkQuestions -> the outcomes in its channel, as a set]
  akGot,      \* [AkQuestions -> what the run was returned]
  akUser      \* [AkUsers -> what it does: idle, sending an outcome, or told TRUE or FALSE]

akVars == <<akPending, akAsk, akChan, akGot, akUser>>

AkNobody == [pc |-> "idle", q |-> 0, as |-> "none"]

AkInit ==
  /\ akPending = {} /\ akAsk = [q \in AkQuestions |-> "new"] /\ akChan = [q \in AkQuestions |-> {}]
  /\ akGot = [q \in AkQuestions |-> "none"] /\ akUser = [u \in AkUsers |-> AkNobody]

\* Execute: no text, options that are not strings, or a session that is not the
\* primary one, are refused before anything is registered.
AkRefuse(q) ==
  /\ akAsk[q] = "new"
  /\ akAsk' = [akAsk EXCEPT ![q] = "returned"]
  /\ akGot' = [akGot EXCEPT ![q] = "refused"]
  /\ UNCHANGED <<akPending, akChan, akUser>>

AkAsk(q) ==
  /\ akAsk[q] = "new"
  /\ akPending' = akPending \union {q}
  /\ akAsk' = [akAsk EXCEPT ![q] = "blocked"]
  /\ UNCHANGED <<akChan, akGot, akUser>>

\* mutant: the run waits for an answer only
AkSelectAnswer(q) ==
  /\ akAsk[q] = "blocked"
  /\ akAsk' = [akAsk EXCEPT ![q] = "leaving"]
  /\ \E out \in akChan[q] : akGot' = [akGot EXCEPT ![q] = out] /\ akChan' = [akChan EXCEPT ![q] = @ \ {out}]
  /\ UNCHANGED <<akPending, akUser>>

\* The select takes one of the branches that are ready, an answer that waits or not.
AkSelect(q) ==
  /\ akAsk[q] = "blocked"
  /\ akAsk' = [akAsk EXCEPT ![q] = "leaving"]
  /\ \/ \E out \in {"timeout", "ended"} : akGot' = [akGot EXCEPT ![q] = out] /\ UNCHANGED akChan
     \/ \E out \in akChan[q] : akGot' = [akGot EXCEPT ![q] = out] /\ akChan' = [akChan EXCEPT ![q] = @ \ {out}]
  /\ UNCHANGED <<akPending, akUser>>

\* mutant: a run that goes away leaves its question in the maps
AkRemoveNot(q) ==
  /\ akAsk[q] = "leaving"
  /\ akAsk' = [akAsk EXCEPT ![q] = "returned"]
  /\ UNCHANGED <<akPending, akChan, akGot, akUser>>

AkRemove(q) ==
  /\ akAsk[q] = "leaving"
  /\ akPending' = akPending \ {q}
  /\ akAsk' = [akAsk EXCEPT ![q] = "returned"]
  /\ UNCHANGED <<akChan, akGot, akUser>>

\* Answer and Cancel under the lock: only a question still in the maps is taken out.
AkTaken(q) == akPending \ {q}

AkClaim(u, q, as) ==
  /\ akUser[u].pc = "idle"
  /\ akUser' = [akUser EXCEPT ![u] = [pc |-> IF q \in akPending THEN "send" ELSE "late", q |-> q, as |-> as]]
  /\ akPending' = AkTaken(q)
  /\ UNCHANGED <<akAsk, akChan, akGot>>

AkAnswer(u, q) == AkClaim(u, q, "text")
AkCancel(u, q) == AkClaim(u, q, "cancelled")

\* The send behind the lock; it would block on a full channel.
AkSend(u) ==
  LET q == akUser[u].q IN
  /\ akUser[u].pc = "send" /\ Cardinality(akChan[q]) < AkBox
  /\ akChan' = [akChan EXCEPT ![q] = @ \union {akUser[u].as}]
  /\ akUser' = [akUser EXCEPT ![u].pc = "sent"]
  /\ UNCHANGED <<akPending, akAsk, akGot>>

AkNext ==
  \/ \E q \in AkQuestions : AkRefuse(q) \/ AkAsk(q) \/ AkSelect(q) \/ AkRemove(q)
  \/ \E u \in AkUsers : AkSend(u) \/ \E q \in AkQuestions : AkAnswer(u, q) \/ AkCancel(u, q)

-----------------------------------------------------------------------------
AkTypeOK ==
  /\ akPending \subseteq AkQuestions
  /\ akAsk \in [AkQuestions -> {"new", "blocked", "leaving", "returned"}]
  /\ akChan \in [AkQuestions -> SUBSET {"text", "cancelled"}]
  /\ akGot \in [AkQuestions -> {"none", "refused", "timeout", "ended", "text", "cancelled"}]
  /\ akUser \in [AkUsers -> [pc : {"idle", "send", "late", "sent"}, q : AkQuestions \union {0},
                             as : {"none", "text", "cancelled"}]]

AkTold(q) == {u \in AkUsers : akUser[u].q = q /\ akUser[u].pc \in {"send", "sent"}}

\* Of the users who answer or cancel one question at most one is told that it
\* counted; a run that got an outcome got that one's, and one that went away with a
\* timeout although somebody was told so had its timeout fire before it looked.
AkFirstWins ==
  \A q \in AkQuestions :
    /\ Cardinality(AkTold(q)) <= 1
    /\ akGot[q] \in {"text", "cancelled"} => \E u \in AkTold(q) : akUser[u].as = akGot[q]
    /\ akAsk[q] = "returned" => q \notin akPending
    /\ akAsk[q] = "blocked" /\ q \notin akPending => AkTold(q) # {}

\* The state of the abstract question: the answer accepted is that of the user who
\* was told so.
AkStage    == [q \in AkQuestions |-> CASE akAsk[q] = "new" -> "new" [] akAsk[q] = "returned" -> "closed" [] OTHER -> "open"]
AkAccepted == [q \in AkQuestions |-> IF AkTold(q) = {} THEN "no" ELSE akUser[CHOOSE u \in AkTold(q) : TRUE].as]
AkPromise  == INSTANCE OneAnswer WITH Questions <- AkQuestions, Answers <- {"text", "cancelled"}, Reasons <- {"timeout", "ended"},
                                      stage <- AkStage, accepted <- AkAccepted, told <- akGot

\* However answers, cancellations, deadlines and runs that go away interleave, every
\* question behaves as if one of them had been accepted in one step while it was open,
\* and its run was told that one or gave up.
AkOneAnswer == AkPromise!Spec

\* A run that waits for its question, and a user who is handing an answer over.
AkWaits(q)   == akAsk[q] \in {"blocked", "leaving"}
AkSending(u) == akUser[u].pc = "send"
=============================================================================
