------------------------------ MODULE OneAnswer ------------------------------
(***************************************************************************)
(* What a question promises (internal/engine/ask.go:125-126: "only the     *)
(* first answer wins, later ones return false"): while it is open one      *)
(* answer is accepted; who asked learns that one, or gives up on his own,  *)
(* and learns one thing only.  Once it is closed nothing is accepted.  An  *)
(* accepted answer may come too late for somebody who has given up.        *)
(***************************************************************************)
CONSTANTS Questions, Answers,
          Reasons    \* why somebody gives up

VARIABLES stage,     \* question |-> "new", "open" or "closed"
          accepted,  \* question |-> the answer that was accepted, or "no"
          told       \* question |-> what who asked was told, or "none"

vars == <<stage, accepted, told>>

Init == /\ stage    = [q \in Questions |-> "new"]
        /\ accepted = [q \in Questions |-> "no"]
        /\ told     = [q \in Questions |-> "none"]

Open(q) ==
  /\ stage[q] = "new"
  /\ stage' = [stage EXCEPT ![q] = "open"]
  /\ UNCHANGED <<accepted, told>>

Refuse(q) ==
  /\ stage[q] = "new"
  /\ stage' = [stage EXCEPT ![q] = "closed"]
  /\ told'  = [told EXCEPT ![q] = "refused"]
  /\ UNCHANGED accepted

Accept(q) ==
  /\ stage[q] = "open" /\ accepted[q] = "no"
  /\ \E a \in Answers : accepted' = [accepted EXCEPT ![q] = a]
  /\ UNCHANGED <<stage, told>>

Learn(q) ==
  /\ stage[q] = "open" /\ told[q] = "none" /\ accepted[q] # "no"
  /\ told' = [told EXCEPT ![q] = accepted[q]]
  /\ UNCHANGED <<stage, accepted>>

GiveUp(q) ==
  /\ stage[q] = "open" /\ told[q] = "none"
  /\ \E r \in Reasons : told' = [told EXCEPT ![q] = r]
  /\ UNCHANGED <<stage, accepted>>

Close(q) ==
  /\ stage[q] = "open" /\ told[q] # "none"
  /\ stage' = [stage EXCEPT ![q] = "closed"]
  /\ UNCHANGED <<accepted, told>>

Next == \E q \in Questions : Open(q) \/ Refuse(q) \/ Accept(q) \/ Learn(q) \/ GiveUp(q) \/ Close(q)

Spec == Init /\ [][Next]_vars
=============================================================================
