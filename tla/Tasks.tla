------------------------------- MODULE Tasks -------------------------------
(***************************************************************************)
(* internal/engine: tasks.go, the registry of background work, and the     *)
(* agents_wait tool of send.go, which polls it.                            *)
(*                                                                         *)
(* Every method of the registry is one critical section on t.mu and one    *)
(* step.  The work itself runs outside the lock: it returns at one step    *)
(* and its goroutine records the outcome at a later one, with Cancel and   *)
(* Prune free to come in between.  agents_wait looks its ids up one call   *)
(* of Get at a time.                                                       *)
(***************************************************************************)
EXTENDS Integers, FiniteSets

CONSTANTS MaxTasks,   \* bound: tasks started in a behaviour
          Waiters     \* goroutines that execute agents_wait

ASSUME TaskBound     == MaxTasks \in Nat

VARIABLES seq,      \* t.seq
          task,     \* id |-> State of t.m[id]; "none" before Start, "gone" after Prune
          ended,    \* id |-> ctx.Err() # nil: the task's context was cancelled
          work,     \* id |-> what the work function has come to
          stored,   \* id |-> its goroutine has been through the registry
          aged,     \* id |-> DoneAt is more than maxAge ago
          wpc,      \* waiter |-> where it is in Execute
          ids,      \* waiter |-> the ids it waits for
          todo,     \* waiter |-> ids still to look up in this round
          running,  \* waiter |-> ids found running in this round
          late      \* waiter |-> its deadline has passed

regVars  == <<seq, task, ended, work, stored, aged>>
waitVars == <<wpc, ids, todo, running, late>>
taskVars == <<regVars, waitVars>>

Ids      == 1..MaxTasks
Terminal == {"done", "failed", "cancelled"}

TypeOK ==
  /\ seq     \in 0..MaxTasks
  /\ task    \in [Ids -> Terminal \cup {"none", "running", "gone"}]
  /\ ended   \in [Ids -> BOOLEAN]
  /\ work    \in [Ids -> {"none", "going", "ok", "err"}]
  /\ stored  \in [Ids -> BOOLEAN]
  /\ aged    \in [Ids -> BOOLEAN]
  /\ wpc     \in [Waiters -> {"idle", "check", "poll", "sleep"}]
  /\ ids     \in [Waiters -> SUBSET Ids]
  /\ todo    \in [Waiters -> SUBSET Ids]
  /\ running \in [Waiters -> SUBSET Ids]
  /\ late    \in [Waiters -> BOOLEAN]

Init ==
  /\ seq     = 0
  /\ task    = [t \in Ids |-> "none"]
  /\ ended   = [t \in Ids |-> FALSE]
  /\ work    = [t \in Ids |-> "none"]
  /\ stored  = [t \in Ids |-> FALSE]
  /\ aged    = [t \in Ids |-> FALSE]
  /\ wpc     = [w \in Waiters |-> "idle"]
  /\ ids     = [w \in Waiters |-> {}]
  /\ todo    = [w \in Waiters |-> {}]
  /\ running = [w \in Waiters |-> {}]
  /\ late    = [w \in Waiters |-> FALSE]

----------------------------------------------------------------------------
\* The registry.
Known(t) == task[t] \notin {"none", "gone"}

\* Start: a new entry with a context of its own; the work begins.
Start(t) ==
  /\ t = seq + 1 /\ t \in Ids
  /\ seq'  = t
  /\ task' = [task EXCEPT ![t] = "running"]
  /\ work' = [work EXCEPT ![t] = "going"]
  /\ UNCHANGED <<ended, stored, aged, waitVars>>

\* fn(ctx) returns, with or without an error, whatever its context says.
Return(t, r) ==
  /\ work[t] = "going"
  /\ work' = [work EXCEPT ![t] = r]
  /\ UNCHANGED <<seq, task, ended, stored, aged, waitVars>>

Returns(t) == \E r \in {"ok", "err"} : Return(t, r)

\* Mutant: cancellation is not told from failure.
OutcomeNeverCancelled(t) == IF work[t] = "err" THEN "failed" ELSE "done"

Outcome(t) == IF work[t] = "ok" THEN "done"
              ELSE IF ended[t] THEN "cancelled" ELSE "failed"

\* The goroutine records the outcome, over whatever state the task is in,
\* unless the entry has been pruned.
Record(t) ==
  /\ work[t] \in {"ok", "err"} /\ ~stored[t]
  /\ stored' = [stored EXCEPT ![t] = TRUE]
  /\ task'   = [task EXCEPT ![t] = IF Known(t) THEN Outcome(t) ELSE @]
  /\ aged'   = [aged EXCEPT ![t] = FALSE]
  /\ UNCHANGED <<seq, ended, work, waitVars>>

Cancellable(t) == task[t] = "running"

\* Cancel, when it returns true.
Cancel(t) ==
  /\ Cancellable(t)
  /\ ended' = [ended EXCEPT ![t] = TRUE]
  /\ task'  = [task EXCEPT ![t] = "cancelled"]
  /\ UNCHANGED <<seq, work, stored, aged, waitVars>>

\* maxAge passes after DoneAt.
Age(t) ==
  /\ task[t] \in Terminal /\ ~aged[t]
  /\ aged' = [aged EXCEPT ![t] = TRUE]
  /\ UNCHANGED <<seq, task, ended, work, stored, waitVars>>

Prunable(t) == task[t] \in Terminal /\ aged[t]

Prune ==
  /\ \E t \in Ids : Prunable(t)
  /\ task' = [t \in Ids |-> IF Prunable(t) THEN "gone" ELSE task[t]]
  /\ UNCHANGED <<seq, ended, work, stored, aged, waitVars>>

----------------------------------------------------------------------------
\* agents_wait.
WaitReturn(w) ==
  /\ wpc'     = [wpc EXCEPT ![w] = "idle"]
  /\ ids'     = [ids EXCEPT ![w] = {}]
  /\ todo'    = [todo EXCEPT ![w] = {}]
  /\ running' = [running EXCEPT ![w] = {}]
  /\ late'    = [late EXCEPT ![w] = FALSE]

\* A model names tasks it was told of.
WaitStart(w, S) ==
  /\ wpc[w] = "idle" /\ S # {} /\ S \subseteq 1..seq
  /\ wpc'  = [wpc EXCEPT ![w] = "check"]
  /\ ids'  = [ids EXCEPT ![w] = S]
  /\ todo' = [todo EXCEPT ![w] = S]
  /\ UNCHANGED <<regVars, running, late>>

\* One call of Get, before the first round and then in each round.  An id
\* pruned meanwhile is "unknown task".
Unknown(w, t) ==
  /\ wpc[w] \in {"check", "poll"} /\ t \in todo[w]
  /\ ~Known(t)
  /\ WaitReturn(w)
  /\ UNCHANGED regVars

Check(w, t) ==
  /\ wpc[w] = "check" /\ t \in todo[w]
  /\ Known(t)
  /\ todo' = [todo EXCEPT ![w] = IF @ = {t} THEN ids[w] ELSE @ \ {t}]
  /\ wpc'  = [wpc EXCEPT ![w] = IF todo[w] = {t} THEN "poll" ELSE @]
  /\ UNCHANGED <<regVars, ids, running, late>>

Noted(R, t) == IF task[t] = "running" THEN R \cup {t} ELSE R

Poll(w, t) ==
  /\ wpc[w] = "poll" /\ t \in todo[w]
  /\ Known(t)
  /\ todo'    = [todo EXCEPT ![w] = @ \ {t}]
  /\ running' = [running EXCEPT ![w] = Noted(@, t)]
  /\ UNCHANGED <<regVars, wpc, ids, late>>

\* "all finished".
Finish(w) ==
  /\ wpc[w] = "poll" /\ todo[w] = {} /\ running[w] = {}
  /\ WaitReturn(w)
  /\ UNCHANGED regVars

TimeUp(w) == late[w]

\* "timeout ... still running".
Timeout(w) ==
  /\ wpc[w] = "poll" /\ todo[w] = {} /\ running[w] # {}
  /\ TimeUp(w)
  /\ WaitReturn(w)
  /\ UNCHANGED regVars

Sleep(w) ==
  /\ wpc[w] = "poll" /\ todo[w] = {} /\ running[w] # {}
  /\ ~TimeUp(w)
  /\ wpc' = [wpc EXCEPT ![w] = "sleep"]
  /\ UNCHANGED <<regVars, ids, todo, running, late>>

\* The ticker of 500 ms, or the end of the caller's context.
Awake(w) ==
  /\ wpc[w] = "sleep"
  /\ \/ /\ wpc'     = [wpc EXCEPT ![w] = "poll"]
        /\ todo'    = [todo EXCEPT ![w] = ids[w]]
        /\ running' = [running EXCEPT ![w] = {}]
        /\ UNCHANGED <<ids, late>>
     \/ WaitReturn(w)
  /\ UNCHANGED regVars

Deadline(w) ==
  /\ wpc[w] \in {"poll", "sleep"} /\ ~late[w]
  /\ late' = [late EXCEPT ![w] = TRUE]
  /\ UNCHANGED <<regVars, wpc, ids, todo, running>>

----------------------------------------------------------------------------
WaitStep(w) == \/ \E t \in Ids : Unknown(w, t) \/ Check(w, t) \/ Poll(w, t)
               \/ Finish(w) \/ Timeout(w) \/ Sleep(w) \/ Awake(w)

\* What happens to the registry apart from Start and the work's return.
Bookkeeping == \/ \E t \in Ids : Record(t) \/ Cancel(t) \/ Age(t)
               \/ Prune

Waiting == \E w \in Waiters :
              WaitStep(w) \/ Deadline(w) \/ \E S \in SUBSET Ids : WaitStart(w, S)

Next == \/ \E t \in Ids : Start(t) \/ Returns(t)
        \/ Bookkeeping
        \/ Waiting

Spec == Init /\ [][Next]_taskVars

----------------------------------------------------------------------------
\* What a task is said to have come to is what its work came to: a recorded task
\* is done exactly when the work returned no error, failed only if it returned one
\* and nobody had cancelled it.
OutcomeFaithful ==
  \A t \in Ids :
     /\ stored[t] /\ task[t] # "gone" => (task[t] = "done" <=> work[t] = "ok")
     /\ task[t] = "failed" => work[t] = "err" /\ ~ended[t] /\ stored[t]
     /\ task[t] = "done"   => stored[t]

\* Only a task somebody cancelled is cancelled, and it is never again running.
CancelFaithful ==
  \A t \in Ids :
     /\ task[t] = "cancelled" => ended[t]
     /\ task[t] = "running"   => ~ended[t] /\ ~stored[t]

\* agents_wait reports "all finished" only when none of its tasks is running
\* any more, although it looked at them one by one.
FinishedTogether ==
  [][\A w \in Waiters : Finish(w) => \A t \in ids[w] : task[t] # "running"]_taskVars

\* What the registry and agents_wait say of a task is so.
TasksTold == [](OutcomeFaithful /\ CancelFaithful) /\ FinishedTogether

\* agents_wait returns, whatever its tasks do.
WaitReturns == \A w \in Waiters : (wpc[w] # "idle") ~> (wpc[w] = "idle")
=============================================================================
