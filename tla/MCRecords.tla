------------------------------ MODULE MCRecords ------------------------------
(***************************************************************************)
(* What outlives a step of the agent: the registry of tasks, the session   *)
(* records, the pairing registry and the files an update touches.  They    *)
(* share nothing, so a behaviour runs one scenario and the others rest.    *)
(*                                                                         *)
(* "delegate": three subagents, so that a chain of two foreground          *)
(* delegations and a background one beside or below it occur, and two      *)
(* tasks, too young to be pruned.  "wait": two tasks started by anybody,   *)
(* pruned when they are old, and a goroutine that waits for them.          *)
(* "store": two sessions, one a fork of the other or both created, a       *)
(* writer with a revision beside the plain ones, and two writes cut short, *)
(* so that a cut line can meet another.  "nodes": two pairings and two     *)
(* failing reads or writes.  "update": two commands, at once or one after  *)
(* the other, so that one finds what the other left behind or names the    *)
(* same backup directory, and a data file copied in two chunks.            *)
(***************************************************************************)
EXTENDS Delegate, SessionStore, Nodes, Update

CONSTANTS k1, k2, w1, u1, u2, f1

OneWaiter   == {w1}
TwoKeys     == {k1, k2}
OneWriter   == {w1}
TwoUpdaters == {u1, u2}
OneFile     == {f1}
TwoVersions == << <<1, 9>>, <<2>> >>

VARIABLE scenario

mcVars == <<delVars, stVars, ndVars, upVars, scenario>>

MCInit ==
  /\ DInit /\ StInit /\ NdInit /\ UpInit
  /\ scenario \in {"delegate", "wait", "store", "nodes", "update"}

Delegating == scenario = "delegate" /\ Delegation /\ UNCHANGED <<aged, stVars, ndVars, upVars>>
Waits      == scenario = "wait" /\ Next /\ UNCHANGED <<agentVars, stVars, ndVars, upVars>>
Stores     == scenario = "store" /\ StNext /\ UNCHANGED <<delVars, ndVars, upVars>>
Pairs      == scenario = "nodes" /\ NdNext /\ UNCHANGED <<delVars, stVars, upVars>>
Updates    == scenario = "update" /\ UpNext /\ UNCHANGED <<delVars, stVars, ndVars>>

MCNext == (Delegating \/ Waits \/ Stores \/ Pairs \/ Updates) /\ UNCHANGED scenario

\* Only the scenario's own variables move in a step, so the fairness of a step is
\* stated over them.  Every run of a subagent has a deadline (5 minutes) and each
\* of its calls to a model or a tool ends by it; the clock runs, and goroutines
\* that can go on do; an update command's requests end with its context of 5
\* minutes.  The work of a task nobody delegated may go on for ever.
MCSpec ==
  /\ MCInit /\ [][MCNext]_mcVars
  /\ \A b \in Subs : WF_delVars(scenario = "delegate" /\ Ends(b))
  /\ \A t \in Ids : WF_taskVars(scenario \in {"delegate", "wait"} /\ Record(t))
  /\ \A w \in Waiters :
       /\ WF_taskVars(scenario = "wait" /\ WaitStep(w))
       /\ WF_taskVars(scenario = "wait" /\ Deadline(w))
  /\ \A u \in Updaters : WF_upVars(scenario = "update" /\ UpStep(u))

RecordsTypeOK == DTypeOK /\ StTypeOK /\ NdTypeOK /\ UpTypeOK

\* A wait, a background subagent's task and an update command all end.
RecordsEnd == WaitReturns /\ TasksEnd /\ UpEnds
=============================================================================
