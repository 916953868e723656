------------------------------ MODULE Delegate ------------------------------
(***************************************************************************)
(* internal/engine/delegate.go over tasks.go: agents that delegate.  A     *)
(* foreground subagent runs in the context of its parent, which waits for  *)
(* it; a background one is the work of a task and runs in the task's       *)
(* context.  A subagent works on a copy of the top engine made when it is  *)
(* started; the top engine's mode may be switched at any time.             *)
(***************************************************************************)
EXTENDS Tasks

CONSTANTS MaxSubs,   \* bound: subagents spawned in a behaviour
          MaxDepth   \* maxDelegateDepth (2 in the code)

ASSUME SubBound == MaxSubs \in Nat
ASSUME DepthCap == MaxDepth \in Nat

\* Agents are numbered as they are started.
Main    == 0
Subs    == 1..MaxSubs
Agents  == {Main} \cup Subs
NoAgent == MaxSubs + 1

VARIABLES run,     \* agent |-> is its Engine.Run going on
          starter, \* agent |-> the agent that started it, or NoAgent; unless it is the
                   \*   work of a task, its starter is blocked in the delegate call
          depth,   \* agent |-> depthOf its context
          mode,    \* agent |-> Mode of its engine
          ofTask   \* agent |-> the task whose work it is, 0 if none

agentVars == <<run, starter, depth, mode, ofTask>>
delVars   == <<taskVars, agentVars>>

DTypeOK ==
  /\ TypeOK
  /\ run    \in [Agents -> {"free", "working", "waiting", "over"}]
  /\ starter \in [Agents -> Agents \cup {NoAgent}]
  /\ depth  \in [Agents -> 0..MaxDepth]
  /\ mode   \in [Agents -> {"plan", "build"}]
  /\ ofTask \in [Agents -> Ids \cup {0}]

DInit ==
  /\ Init
  /\ run    = [a \in Agents |-> IF a = Main THEN "working" ELSE "free"]
  /\ starter = [a \in Agents |-> NoAgent]
  /\ depth  = [a \in Agents |-> 0]
  /\ mode   = [a \in Agents |-> "build"]
  /\ ofTask = [a \in Agents |-> 0]

----------------------------------------------------------------------------
\* Mutant: the read-only presets let the delegate tool through.
MayDelegateReadOnly(a) == run[a] = "working" /\ depth[a] < MaxDepth

\* The read-only presets deny the delegate tool, and the cap refuses it.
MayDelegate(a) == run[a] = "working" /\ depth[a] < MaxDepth /\ mode[a] = "build"

\* The child's engine is a copy of the top engine, made read-only for explore.
ChildMode(kind) == IF kind = "explore" THEN "plan" ELSE mode[Main]

Kinds == {"general", "explore"}

Spawn(a, b, d) ==
  /\ MayDelegate(a)
  /\ run[b] = "free" /\ \A c \in Subs : c < b => run[c] # "free"
  /\ starter' = [starter EXCEPT ![b] = a]
  /\ depth' = [depth EXCEPT ![b] = d]
  /\ \E kind \in Kinds : mode' = [mode EXCEPT ![b] = ChildMode(kind)]

Foreground(a, b) ==
  /\ Spawn(a, b, depth[a] + 1)
  /\ run'    = [run EXCEPT ![a] = "waiting", ![b] = "working"]
  /\ UNCHANGED <<taskVars, ofTask>>

\* The context of a task is made from context.Background(): depth 0, plus 1.
Background(a, b, t) ==
  /\ Spawn(a, b, 1)
  /\ Start(t)
  /\ run'    = [run EXCEPT ![b] = "working"]
  /\ ofTask' = [ofTask EXCEPT ![b] = t]

\* Mutant: an error of the child leaves its caller waiting.
ResumedOnSuccess(b, r) == IF ofTask[b] = 0 /\ r = "ok" THEN {starter[b]} ELSE {}

\* The caller of a foreground subagent goes on.
Resumed(b, r) == IF ofTask[b] = 0 THEN {starter[b]} ELSE {}

\* A subagent reports, fails, or is out of time (5 minutes).
Over(b, r) ==
  /\ b # Main /\ run[b] = "working"
  /\ run' = [a \in Agents |-> IF a = b THEN "over"
                              ELSE IF a \in Resumed(b, r) THEN "working" ELSE run[a]]
  /\ IF ofTask[b] = 0 THEN UNCHANGED taskVars ELSE Return(ofTask[b], r)
  /\ UNCHANGED <<starter, depth, mode, ofTask>>

Ends(b) == \E r \in {"ok", "err"} : Over(b, r)

\* SetMode on the top engine.
SetMode(m) ==
  /\ mode[Main] # m
  /\ mode' = [mode EXCEPT ![Main] = m]
  /\ UNCHANGED <<taskVars, run, starter, depth, ofTask>>

Delegation ==
  \/ \E a \in Agents, b \in Subs : Foreground(a, b) \/ \E t \in Ids : Background(a, b, t)
  \/ \E b \in Subs : Ends(b)
  \/ \E m \in {"plan", "build"} : SetMode(m)
  \/ Bookkeeping /\ UNCHANGED agentVars

DNext == Delegation \/ (Waiting /\ UNCHANGED agentVars)

DSpec == DInit /\ [][DNext]_delVars

----------------------------------------------------------------------------
\* What the cap bounds is a chain of agents that wait for each other: a foreground
\* subagent is one deeper than its caller, and never deeper than MaxDepth.  A
\* background one starts again at depth 1, whoever started it: how deep agents may
\* start each other through tasks nothing bounds (NestingCapped).
WaitersBounded ==
  \A b \in Subs : run[b] # "free" =>
     /\ depth[b] = IF ofTask[b] = 0 THEN depth[starter[b]] + 1 ELSE 1
     /\ depth[b] <= MaxDepth

\* An explore subagent is read-only to its end and gains no write access by
\* delegating: nobody is ever started by a subagent in plan mode, in the foreground
\* or as the work of a task, whatever mode the top engine has by then ("read-only by
\* construction", delegate.go:43).
ReadOnlyStays ==
  [][\A b \in Subs : run[b] # "free" /\ mode[b] = "plan" =>
       mode'[b] = "plan" /\ \A a \in Subs : starter'[a] = b => starter[a] = b]_delVars

\* Delegation does not deepen without bound where agents wait, nor widen rights.
DelegationBounded == []WaitersBounded /\ ReadOnlyStays

\* "maxDelegateDepth caps subagent nesting: ... subagents may not spawn their own
\* subagents.  Depth travels in the context so background tasks inherit it"
\* (delegate.go:14-16): at the least, no MaxDepth + 1 subagents each started the
\* next.  Through tasks they do.
NestingCapped ==
  ~ \E s \in [0..MaxDepth -> Subs] :
       run[s[0]] # "free" /\ \A i \in 1..MaxDepth : run[s[i]] # "free" /\ starter[s[i]] = s[i - 1]

\* Every background subagent's task comes to an end, with Cancel or without,
\* and whatever became of the subagents it waited for.
TasksEnd ==
  \A t \in Ids : (task[t] = "running" /\ \E b \in Subs : ofTask[b] = t) ~> (task[t] # "running")
=============================================================================
