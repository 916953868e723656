----------------------------- MODULE RecordsProofs -----------------------------
(***************************************************************************)
(* What outlives a step of the agent: the promises that the run of         *)
(* MCRecords checks of tasks, delegation, pairings, updates and session    *)
(* records, for every number of tasks, waiters, subagents, pairings,       *)
(* updaters, files, keys and writers.                                      *)
(***************************************************************************)
EXTENDS MCRecords, FiniteSetTheorems, SequenceTheorems, WellFoundedInduction, TLAPS

----------------------------------------------------------------------------
(* Tasks.  That a state tells what the work came to needs that a task that  *)
(* is recorded has returned, and that one not started has nothing; that a   *)
(* wait is right needs that a task it has looked at and not noted stays     *)
(* ended: only a new task starts to run, and it waits for old ones.         *)

TaskHistory ==
  \A t \in Ids :
     /\ t > seq => task[t] = "none" /\ ~stored[t] /\ ~ended[t]
     /\ task[t] = "none" <=> work[t] = "none"
     /\ stored[t] => work[t] \in {"ok", "err"}

WaitersLook ==
  \A w \in Waiters :
     /\ ids[w] \subseteq 1..seq
     /\ wpc[w] = "poll" => \A t \in ids[w] \ todo[w] : t \in running[w] \/ task[t] # "running"

TaskInv == TypeOK /\ OutcomeFaithful /\ CancelFaithful /\ TaskHistory /\ WaitersLook

\* A step of the registry starts no task that somebody may be waiting for.
LEMMA RegistryStepKeepsWaits ==
  ASSUME TaskInv, UNCHANGED waitVars, seq' >= seq, seq' \in Nat,
         \A t \in 1..seq : task[t] # "running" => task'[t] # "running"
  PROVE  WaitersLook'
<1>1. seq \in Nat /\ 1..seq \subseteq 1..seq'
  BY TaskBound DEF TaskInv, TypeOK
<1> QED
  BY <1>1 DEF waitVars, WaitersLook, TaskInv

\* Waiting changes nothing in the registry.
LEMMA WaitStepKeepsRegistry ==
  ASSUME TaskInv, UNCHANGED regVars
  PROVE  OutcomeFaithful' /\ CancelFaithful' /\ TaskHistory'
BY DEF TaskInv, regVars, OutcomeFaithful, CancelFaithful, TaskHistory

LEMMA TaskRegistryInv ==
  ASSUME TaskInv, \/ \E t \in Ids : Start(t) \/ Returns(t)
                  \/ Bookkeeping
  PROVE  TaskInv'
<1> USE TaskBound DEF TaskInv
<1>0. seq \in Nat /\ seq <= MaxTasks /\ 1..seq \subseteq Ids
  BY DEF TypeOK, Ids
<1>1. ASSUME NEW t \in Ids, Start(t) PROVE TaskInv'
  <2>1. /\ t = seq + 1 /\ seq' = t /\ task' = [task EXCEPT ![t] = "running"] /\ work' = [work EXCEPT ![t] = "going"]
        /\ UNCHANGED <<ended, stored, aged, waitVars>>
    BY <1>1 DEF Start
  <2>2. TypeOK'
    BY <1>0, <2>1 DEF TypeOK, Ids, Terminal, waitVars
  <2>3. t > seq /\ task[t] = "none" /\ ~stored[t] /\ ~ended[t] /\ \A s \in 1..seq : s # t
    BY <1>0, <2>1 DEF TaskHistory
  <2>4. OutcomeFaithful' /\ CancelFaithful'
    BY <2>1, <2>3 DEF OutcomeFaithful, CancelFaithful, TypeOK
  <2>5. TaskHistory'
    <3>1. \A s \in Ids : s > seq' => s > seq /\ s # t
      BY <1>0, <2>1 DEF Ids
    <3> QED
      BY <2>1, <2>3, <3>1 DEF TaskHistory, TypeOK
  <2>6. WaitersLook'
    BY <1>0, <2>1, <2>3, RegistryStepKeepsWaits DEF TypeOK
  <2> QED
    BY <2>2, <2>4, <2>5, <2>6
<1>2. ASSUME NEW t \in Ids, NEW r \in {"ok", "err"}, Return(t, r) PROVE TaskInv'
  <2>1. /\ work[t] = "going" /\ work' = [work EXCEPT ![t] = r]
        /\ UNCHANGED <<seq, task, ended, stored, aged, waitVars>>
    BY <1>2 DEF Return
  <2>2. TypeOK'
    BY <2>1 DEF TypeOK, waitVars
  <2>3. ~stored[t] /\ task[t] # "none"
    BY <2>1 DEF TaskHistory
  <2>4. OutcomeFaithful' /\ CancelFaithful' /\ TaskHistory'
    BY <2>1, <2>3 DEF OutcomeFaithful, CancelFaithful, TaskHistory, TypeOK
  <2>5. WaitersLook'
    BY <1>0, <2>1, RegistryStepKeepsWaits
  <2> QED
    BY <2>2, <2>4, <2>5
<1>3. ASSUME NEW t \in Ids, Record(t) PROVE TaskInv'
  <2> DEFINE state == IF Known(t) THEN Outcome(t) ELSE task[t]
  <2>1. /\ work[t] \in {"ok", "err"} /\ ~stored[t]
        /\ stored' = [stored EXCEPT ![t] = TRUE] /\ task' = [task EXCEPT ![t] = state]
        /\ aged' = [aged EXCEPT ![t] = FALSE] /\ UNCHANGED <<seq, ended, work, waitVars>>
    BY <1>3 DEF Record
  <2>2. /\ state \in Terminal \cup {"gone"}
        /\ state # "gone" => (state = "done" <=> work[t] = "ok")
        /\ state = "failed" => work[t] = "err" /\ ~ended[t]
        /\ state = "cancelled" => ended[t]
    BY <2>1 DEF Known, Outcome, Terminal, TaskHistory, TypeOK
  <2> HIDE DEF state
  <2>3. TypeOK'
    BY <2>1, <2>2 DEF TypeOK, waitVars
  <2>4. /\ \A s \in Ids : stored'[s] = (stored[s] \/ s = t)
        /\ \A s \in Ids : task'[s] = IF s = t THEN state ELSE task[s]
    BY <2>1, Zenon DEF TypeOK
  <2>5. OutcomeFaithful'
    BY ZenonT(60), <2>1, <2>2, <2>4 DEF OutcomeFaithful, Terminal
  <2>6. CancelFaithful'
    BY <2>1, <2>2, <2>4 DEF CancelFaithful, Terminal
  <2>7. TaskHistory'
    <3>1. ~(t > seq) /\ state # "none" /\ work[t] # "none"
      BY <2>1, <2>2 DEF TaskHistory, Terminal
    <3> QED
      BY <2>1, <2>4, <3>1 DEF TaskHistory
  <2>8. WaitersLook'
    <3>1. \A s \in Ids : task'[s] = "running" => task[s] = "running"
      BY <2>2, <2>4 DEF Terminal
    <3> QED
      BY <1>0, <2>1, <3>1, RegistryStepKeepsWaits
  <2> QED
    BY <2>3, <2>5, <2>6, <2>7, <2>8
<1>4. ASSUME NEW t \in Ids, Cancel(t) PROVE TaskInv'
  <2>1. /\ task[t] = "running" /\ ended' = [ended EXCEPT ![t] = TRUE] /\ task' = [task EXCEPT ![t] = "cancelled"]
        /\ UNCHANGED <<seq, work, stored, aged, waitVars>>
    BY <1>4 DEF Cancel, Cancellable
  <2>2. TypeOK'
    BY <2>1 DEF TypeOK, Terminal, waitVars
  <2>3. /\ \A s \in Ids : s # t => ended'[s] = ended[s]
        /\ ended'[t] /\ \A s \in Ids : task'[s] = IF s = t THEN "cancelled" ELSE task[s]
    BY <2>1, Zenon DEF TypeOK
  <2>4. OutcomeFaithful' /\ CancelFaithful'
    <3>1. ~stored[t]
      BY <2>1 DEF CancelFaithful
    <3> QED
      BY <2>1, <2>3, <3>1 DEF OutcomeFaithful, CancelFaithful
  <2>5. TaskHistory'
    BY <2>1, <2>3 DEF TaskHistory
  <2>6. WaitersLook'
    BY <1>0, <2>1, <2>3, RegistryStepKeepsWaits
  <2> QED
    BY <2>2, <2>4, <2>5, <2>6
<1>5. ASSUME NEW t \in Ids, Age(t) PROVE TaskInv'
  <2>1. aged' = [aged EXCEPT ![t] = TRUE] /\ UNCHANGED <<seq, task, ended, work, stored, waitVars>>
    BY <1>5 DEF Age
  <2>2. TypeOK'
    BY <2>1 DEF TypeOK, waitVars
  <2>3. WaitersLook'
    BY <1>0, <2>1, RegistryStepKeepsWaits
  <2> QED
    BY <2>1, <2>2, <2>3 DEF OutcomeFaithful, CancelFaithful, TaskHistory
<1>6. CASE Prune
  <2>1. task' = [t \in Ids |-> IF Prunable(t) THEN "gone" ELSE task[t]] /\ UNCHANGED <<seq, ended, work, stored, aged, waitVars>>
    BY <1>6 DEF Prune
  <2>2. \A t \in Ids : task'[t] = task[t] \/ (task'[t] = "gone" /\ task[t] \in Terminal)
    BY <2>1 DEF Prunable
  <2>3. TypeOK'
    BY <2>1 DEF TypeOK, waitVars
  <2>4. OutcomeFaithful' /\ CancelFaithful' /\ TaskHistory'
    BY <2>1, <2>2 DEF OutcomeFaithful, CancelFaithful, TaskHistory, Terminal
  <2>5. WaitersLook'
    BY <1>0, <2>1, <2>2, RegistryStepKeepsWaits
  <2> QED
    BY <2>3, <2>4, <2>5
<1> QED
  BY <1>1, <1>2, <1>3, <1>4, <1>5, <1>6 DEF Returns, Bookkeeping

\* What a waiter has left to look up and has noted, in its next state.
LEMMA TaskWaitingInv ==
  ASSUME TaskInv, Waiting
  PROVE  TaskInv'
<1> USE TaskBound DEF TaskInv
<1>0. seq \in Nat /\ seq <= MaxTasks /\ 1..seq \subseteq Ids
  BY DEF TypeOK, Ids
<1>1. ASSUME NEW w \in Waiters, NEW pc \in {"idle", "check", "poll", "sleep"}, NEW S \in SUBSET (1..seq),
             NEW T \in SUBSET Ids, NEW R \in SUBSET Ids, NEW l \in BOOLEAN, UNCHANGED regVars,
             wpc' = [wpc EXCEPT ![w] = pc], ids' = [ids EXCEPT ![w] = S], todo' = [todo EXCEPT ![w] = T],
             running' = [running EXCEPT ![w] = R], late' = [late EXCEPT ![w] = l],
             pc = "poll" => \A t \in S \ T : t \in R \/ task[t] # "running"
      PROVE  TaskInv'
  <2>1. TypeOK'
    BY <1>0, <1>1 DEF TypeOK, regVars
  <2>2. WaitersLook'
    BY ZenonT(60), <1>1 DEF WaitersLook, TypeOK, regVars
  <2> QED
    BY <1>1, <2>1, <2>2, WaitStepKeepsRegistry
<1>2. ASSUME NEW w \in Waiters, WaitReturn(w), UNCHANGED regVars PROVE TaskInv'
  BY <1>1, <1>2 DEF WaitReturn
<1> SUFFICES ASSUME NEW w \in Waiters, WaitStep(w) \/ Deadline(w) \/ \E S \in SUBSET Ids : WaitStart(w, S)
             PROVE  TaskInv'
  BY DEF Waiting
<1>3. /\ wpc[w] \in {"idle", "check", "poll", "sleep"} /\ ids[w] \in SUBSET (1..seq) /\ ids[w] \in SUBSET Ids
      /\ todo[w] \in SUBSET Ids /\ running[w] \in SUBSET Ids /\ late[w] \in BOOLEAN
      /\ wpc = [wpc EXCEPT ![w] = wpc[w]] /\ ids = [ids EXCEPT ![w] = ids[w]] /\ todo = [todo EXCEPT ![w] = todo[w]]
      /\ running = [running EXCEPT ![w] = running[w]] /\ late = [late EXCEPT ![w] = late[w]]
      /\ wpc[w] = "poll" => \A t \in ids[w] \ todo[w] : t \in running[w] \/ task[t] # "running"
  BY DEF TypeOK, WaitersLook
<1>4. ASSUME NEW S \in SUBSET Ids, WaitStart(w, S) PROVE TaskInv'
  <2>1. S \in SUBSET (1..seq) /\ wpc' = [wpc EXCEPT ![w] = "check"] /\ ids' = [ids EXCEPT ![w] = S] /\ todo' = [todo EXCEPT ![w] = S]
        /\ running' = [running EXCEPT ![w] = running[w]] /\ late' = [late EXCEPT ![w] = late[w]] /\ UNCHANGED regVars
    BY <1>3, <1>4 DEF WaitStart
  <2> QED
    BY <1>1, <1>3, <2>1
<1>5. ASSUME NEW t \in Ids, Check(w, t) PROVE TaskInv'
  <2> DEFINE T == IF todo[w] = {t} THEN ids[w] ELSE todo[w] \ {t}
             pc == IF todo[w] = {t} THEN "poll" ELSE wpc[w]
  <2>1. /\ wpc[w] = "check" /\ todo' = [todo EXCEPT ![w] = T] /\ wpc' = [wpc EXCEPT ![w] = pc]
        /\ ids' = [ids EXCEPT ![w] = ids[w]] /\ running' = [running EXCEPT ![w] = running[w]]
        /\ late' = [late EXCEPT ![w] = late[w]] /\ UNCHANGED regVars
    BY <1>3, <1>5 DEF Check
  <2>2. T \in SUBSET Ids /\ pc \in {"idle", "check", "poll", "sleep"} /\ (pc = "poll" => ids[w] \ T = {})
    BY <1>3, <2>1
  <2> HIDE DEF T, pc
  <2> QED
    BY <1>1, <1>3, <2>1, <2>2
<1>6. ASSUME NEW t \in Ids, Poll(w, t) PROVE TaskInv'
  <2> DEFINE T == todo[w] \ {t}
             R == Noted(running[w], t)
  <2>1. /\ wpc[w] = "poll" /\ todo' = [todo EXCEPT ![w] = T] /\ running' = [running EXCEPT ![w] = R]
        /\ wpc' = [wpc EXCEPT ![w] = wpc[w]] /\ ids' = [ids EXCEPT ![w] = ids[w]]
        /\ late' = [late EXCEPT ![w] = late[w]] /\ UNCHANGED regVars
    BY <1>3, <1>6 DEF Poll
  <2>2. T \in SUBSET Ids /\ R \in SUBSET Ids /\ \A s \in ids[w] \ T : s \in R \/ task[s] # "running"
    BY <1>3, <2>1 DEF Noted
  <2> HIDE DEF T, R
  <2> QED
    BY <1>1, <1>3, <2>1, <2>2
<1>7. CASE Sleep(w)
  <2>1. /\ wpc' = [wpc EXCEPT ![w] = "sleep"] /\ todo' = [todo EXCEPT ![w] = todo[w]] /\ running' = [running EXCEPT ![w] = running[w]]
        /\ ids' = [ids EXCEPT ![w] = ids[w]] /\ late' = [late EXCEPT ![w] = late[w]] /\ UNCHANGED regVars
    BY <1>3, <1>7 DEF Sleep
  <2> QED
    BY <1>1, <1>3, <2>1
<1>8. CASE Awake(w) /\ ~WaitReturn(w)
  <2>1. /\ wpc' = [wpc EXCEPT ![w] = "poll"] /\ todo' = [todo EXCEPT ![w] = ids[w]] /\ running' = [running EXCEPT ![w] = {}]
        /\ ids' = [ids EXCEPT ![w] = ids[w]] /\ late' = [late EXCEPT ![w] = late[w]] /\ UNCHANGED regVars
    BY <1>3, <1>8 DEF Awake
  <2> QED
    BY <1>1, <1>3, <2>1
<1>9. CASE Deadline(w)
  <2>1. /\ late' = [late EXCEPT ![w] = TRUE] /\ wpc' = [wpc EXCEPT ![w] = wpc[w]] /\ todo' = [todo EXCEPT ![w] = todo[w]]
        /\ running' = [running EXCEPT ![w] = running[w]] /\ ids' = [ids EXCEPT ![w] = ids[w]] /\ UNCHANGED regVars
    BY <1>3, <1>9 DEF Deadline
  <2> QED
    BY <1>1, <1>3, <2>1
<1> QED
  BY <1>2, <1>4, <1>5, <1>6, <1>7, <1>8, <1>9 DEF WaitStep, Unknown, Finish, Timeout, Awake

LEMMA TaskNextInv == TaskInv /\ [Next]_taskVars => TaskInv'
<1> SUFFICES ASSUME TaskInv, [Next]_taskVars PROVE TaskInv'
  OBVIOUS
<1>1. CASE UNCHANGED taskVars
  <2>1. TypeOK'
    BY <1>1 DEF TaskInv, taskVars, regVars, waitVars, TypeOK
  <2>2. WaitersLook'
    BY <1>1 DEF TaskInv, taskVars, regVars, waitVars, WaitersLook
  <2> QED
    BY <1>1, <2>1, <2>2, WaitStepKeepsRegistry DEF TaskInv, taskVars
<1> QED
  BY <1>1, TaskRegistryInv, TaskWaitingInv DEF Next

LEMMA TaskInitInv == Init => TaskInv
<1> SUFFICES ASSUME Init PROVE TaskInv
  OBVIOUS
<1>1. 0 \in 0..MaxTasks
  BY TaskBound
<1>2. TypeOK
  BY <1>1 DEF Init, TypeOK
<1>3. OutcomeFaithful /\ CancelFaithful /\ TaskHistory /\ WaitersLook
  BY DEF Init, OutcomeFaithful, CancelFaithful, TaskHistory, WaitersLook
<1> QED
  BY <1>2, <1>3 DEF TaskInv

\* For every number of tasks and waiters, with cancellation, pruning and the
\* goroutines that record outcomes in any order: what the registry says of a task
\* is what became of it, and "all finished" is said of tasks that all are.
THEOREM TasksToldAlways == Spec => []TypeOK /\ TasksTold
<1>1. TaskInv => TypeOK /\ OutcomeFaithful /\ CancelFaithful
  BY DEF TaskInv
<1>2. TaskInv /\ [Next]_taskVars => [\A w \in Waiters : Finish(w) => \A t \in ids[w] : task[t] # "running"]_taskVars
  BY DEF TaskInv, WaitersLook, Finish
<1> QED
  BY <1>1, <1>2, TaskInitInv, TaskNextInv, PTL DEF Spec, TasksTold, FinishedTogether

----------------------------------------------------------------------------
(* Delegation.  A subagent not yet started has no starter and no task, one  *)
(* that was started has a starter, which was started before: so a starter's *)
(* depth does not change under its subagent.                                *)

DelStep == Delegation \/ (Next /\ UNCHANGED agentVars)
DelSteps == DInit /\ [][DelStep]_delVars

StartersStarted ==
  \A b \in Subs :
     /\ run[b] = "free" => starter[b] = NoAgent /\ ofTask[b] = 0
     /\ run[b] # "free" => starter[b] \in Agents /\ run[starter[b]] # "free"

DelInv == TaskInv /\ DTypeOK /\ WaitersBounded /\ StartersStarted

LEMMA AgentNumbers == Main \in Agents /\ Main \notin Subs /\ Subs \subseteq Agents /\ NoAgent \notin Agents /\ NoAgent \notin Subs
BY SubBound DEF Main, Subs, Agents, NoAgent

\* Of the registry's steps, delegating takes Start, Return and the bookkeeping.
LEMMA DelegationIsTaskStep == DTypeOK /\ [DelStep]_delVars => [Next]_taskVars
<1> SUFFICES ASSUME DTypeOK, [DelStep]_delVars PROVE [Next]_taskVars
  OBVIOUS
<1>1. ASSUME NEW a \in Agents, NEW b \in Subs, Foreground(a, b) PROVE UNCHANGED taskVars
  BY <1>1 DEF Foreground
<1>2. ASSUME NEW a \in Agents, NEW b \in Subs, NEW t \in Ids, Background(a, b, t) PROVE Next
  BY <1>2 DEF Background, Next
<1>3. ASSUME NEW b \in Subs, NEW r \in {"ok", "err"}, Over(b, r) PROVE [Next]_taskVars
  <2>1. ofTask[b] \in Ids \cup {0}
    BY AgentNumbers DEF DTypeOK
  <2> QED
    BY <1>3, <2>1 DEF Over, Next, Returns
<1>4. ASSUME NEW m \in {"plan", "build"}, SetMode(m) PROVE UNCHANGED taskVars
  BY <1>4 DEF SetMode
<1>5. CASE UNCHANGED delVars
  BY <1>5 DEF delVars
<1> QED
  BY <1>1, <1>2, <1>3, <1>4, <1>5 DEF DelStep, Delegation, Ends, Next

LEMMA DelNextInv == DelInv /\ [DelStep]_delVars => DelInv'
<1> SUFFICES ASSUME DelInv, [DelStep]_delVars PROVE DelInv'
  OBVIOUS
<1> USE DEF DelInv
<1>0. TaskInv' /\ TypeOK'
  BY DelegationIsTaskStep, TaskNextInv DEF TaskInv
<1>1. ASSUME UNCHANGED agentVars PROVE DelInv'
  BY <1>0, <1>1 DEF agentVars, DTypeOK, WaitersBounded, StartersStarted
<1>2. ASSUME NEW a \in Agents, NEW b \in Subs, NEW d, Spawn(a, b, d)
      PROVE  /\ a # b /\ run[a] = "working" /\ run[b] = "free" /\ depth[a] \in 0..MaxDepth /\ depth[a] < MaxDepth
             /\ depth' = [depth EXCEPT ![b] = d] /\ mode' \in [Agents -> {"plan", "build"}]
             /\ starter' = [starter EXCEPT ![b] = a] /\ ofTask[b] = 0
             /\ \A c \in Subs : starter[c] # b
  <2>1. /\ run[a] = "working" /\ run[b] = "free" /\ depth[a] < MaxDepth /\ depth' = [depth EXCEPT ![b] = d]
        /\ starter' = [starter EXCEPT ![b] = a]
        /\ \E kind \in Kinds : mode' = [mode EXCEPT ![b] = ChildMode(kind)]
    BY <1>2 DEF Spawn, MayDelegate
  <2>2. \A kind \in Kinds : ChildMode(kind) \in {"plan", "build"}
    BY AgentNumbers DEF ChildMode, DTypeOK
  <2>3. mode' \in [Agents -> {"plan", "build"}]
    BY <2>1, <2>2 DEF DTypeOK
  <2>4. ofTask[b] = 0 /\ \A c \in Subs : starter[c] # b
    BY <2>1, AgentNumbers DEF StartersStarted
  <2> QED
    BY <2>1, <2>3, <2>4 DEF DTypeOK
<1>3. ASSUME NEW a \in Agents, NEW b \in Subs, NEW d \in 0..MaxDepth, NEW r, NEW u \in Ids \cup {0}, Spawn(a, b, d),
             TaskInv', r \in [Agents -> {"free", "working", "waiting", "over"}], run' = r,
             r[b] = "working", \A c \in Agents : c # b => (r[c] = "free" <=> run[c] = "free"),
             ofTask' = [ofTask EXCEPT ![b] = u], d = IF u = 0 THEN depth[a] + 1 ELSE 1
      PROVE  DelInv'
  <2>1. /\ a # b /\ run[a] = "working" /\ run[b] = "free" /\ depth[a] \in 0..MaxDepth
        /\ depth' = [depth EXCEPT ![b] = d] /\ mode' \in [Agents -> {"plan", "build"}]
        /\ starter' = [starter EXCEPT ![b] = a] /\ \A c \in Subs : starter[c] # b
    BY <1>2, <1>3
  <2>2. DTypeOK'
    <3>1. starter' \in [Agents -> Agents \cup {NoAgent}] /\ depth' \in [Agents -> 0..MaxDepth] /\ ofTask' \in [Agents -> Ids \cup {0}]
      BY <1>3, <2>1 DEF DTypeOK
    <3>2. TypeOK'
      BY <1>3 DEF TaskInv
    <3> QED
      BY <1>3, <2>1, <3>1, <3>2 DEF DTypeOK
  <2>3. \A c \in Agents : /\ starter'[c] = (IF c = b THEN a ELSE starter[c])
                          /\ depth'[c] = (IF c = b THEN d ELSE depth[c])
                          /\ ofTask'[c] = (IF c = b THEN u ELSE ofTask[c])
    BY <1>3, <2>1 DEF DTypeOK
  <2>4. WaitersBounded'
    <3> SUFFICES ASSUME NEW c \in Subs, run'[c] # "free"
                 PROVE  /\ depth'[c] = IF ofTask'[c] = 0 THEN depth'[starter'[c]] + 1 ELSE 1
                        /\ depth'[c] <= MaxDepth
      BY DEF WaitersBounded
    <3>1. CASE c = b
      <4>1. depth'[c] = d /\ starter'[c] = a /\ ofTask'[c] = u /\ depth'[a] = depth[a]
        BY <2>1, <2>3, <3>1, AgentNumbers
      <4> QED
        BY <1>3, <4>1, DepthCap
    <3>2. CASE c # b
      <4>1. starter'[c] = starter[c] /\ starter[c] \in Agents /\ starter[c] # b /\ run[c] # "free" /\ c \in Agents
        BY <1>3, <2>1, <2>3, <3>2, AgentNumbers DEF StartersStarted
      <4>2. depth'[c] = depth[c] /\ ofTask'[c] = ofTask[c] /\ depth'[starter'[c]] = depth[starter[c]]
        BY <2>3, <3>2, <4>1
      <4> QED
        BY <4>1, <4>2 DEF WaitersBounded
    <3> QED
      BY <3>1, <3>2
  <2>5. StartersStarted'
    <3> SUFFICES ASSUME NEW c \in Subs
                 PROVE  /\ run'[c] = "free" => starter'[c] = NoAgent /\ ofTask'[c] = 0
                        /\ run'[c] # "free" => starter'[c] \in Agents /\ run'[starter'[c]] # "free"
      BY DEF StartersStarted
    <3>1. CASE c = b
      BY <1>3, <2>1, <2>3, <3>1, AgentNumbers
    <3>2. CASE c # b
      BY <1>3, <2>1, <2>3, <3>2, AgentNumbers DEF StartersStarted
    <3> QED
      BY <3>1, <3>2
  <2> QED
    BY <1>3, <2>2, <2>4, <2>5
<1>7. ASSUME NEW a \in Agents, NEW b \in Subs, Foreground(a, b) PROVE DelInv'
  <2> DEFINE d == depth[a] + 1
             r == [run EXCEPT ![a] = "waiting", ![b] = "working"]
  <2>1. Spawn(a, b, d) /\ run' = r /\ UNCHANGED ofTask
    BY <1>7 DEF Foreground
  <2>2. /\ a # b /\ run[a] = "working" /\ depth[a] \in 0..MaxDepth /\ depth[a] < MaxDepth /\ ofTask[b] = 0
    BY <1>2, <2>1
  <2>3. d \in 0..MaxDepth
    BY <2>2, DepthCap
  <2>4. r \in [Agents -> {"free", "working", "waiting", "over"}] /\ r[b] = "working"
    BY <2>2, AgentNumbers DEF DTypeOK
  <2>5. \A c \in Agents : c # b => (r[c] = "free" <=> run[c] = "free")
    BY <2>2, AgentNumbers DEF DTypeOK
  <2>6. ofTask' = [ofTask EXCEPT ![b] = 0]
    BY <2>1, <2>2 DEF DTypeOK
  <2>7. d = (IF 0 = 0 THEN depth[a] + 1 ELSE 1) /\ 0 \in Ids \cup {0}
    OBVIOUS
  <2> HIDE DEF d, r
  <2> QED
    BY <1>0, <1>3, <2>1, <2>3, <2>4, <2>5, <2>6, <2>7
<1>4. ASSUME NEW a \in Agents, NEW b \in Subs, NEW t \in Ids, Background(a, b, t) PROVE DelInv'
  <2> DEFINE r == [run EXCEPT ![b] = "working"]
  <2>1. Spawn(a, b, 1) /\ run' = r /\ ofTask' = [ofTask EXCEPT ![b] = t] /\ t # 0
    BY <1>4, TaskBound DEF Background, Ids
  <2>2. depth[a] \in 0..MaxDepth /\ depth[a] < MaxDepth
    BY <1>2, <2>1
  <2>3. 1 \in 0..MaxDepth
    BY <2>2, DepthCap
  <2>4. /\ r \in [Agents -> {"free", "working", "waiting", "over"}] /\ r[b] = "working"
        /\ \A c \in Agents : c # b => (r[c] = "free" <=> run[c] = "free")
    BY AgentNumbers DEF DTypeOK
  <2> QED
    BY <1>0, <1>3, <2>1, <2>3, <2>4
<1>5. ASSUME NEW b \in Subs, NEW r \in {"ok", "err"}, Over(b, r) PROVE DelInv'
  <2>1. /\ run[b] = "working" /\ UNCHANGED <<starter, depth, mode, ofTask>>
        /\ run' = [a \in Agents |-> IF a = b THEN "over" ELSE IF a \in Resumed(b, r) THEN "working" ELSE run[a]]
        /\ Resumed(b, r) \subseteq {starter[b]}
    BY <1>5 DEF Over, Resumed
  <2>2. \A a \in Agents : run[a] = "free" <=> run'[a] = "free"
    <3>1. run[starter[b]] # "free"
      BY <2>1 DEF StartersStarted
    <3> QED
      BY <2>1, <3>1
  <2>3. DTypeOK'
    BY <1>0, <2>1 DEF DTypeOK
  <2>4. \A c \in Subs : starter[c] \in Agents \cup {NoAgent} /\ c \in Agents
    BY AgentNumbers DEF DTypeOK
  <2>5. WaitersBounded' /\ StartersStarted'
    BY <2>1, <2>2, <2>4, AgentNumbers DEF WaitersBounded, StartersStarted
  <2> QED
    BY <1>0, <2>3, <2>5
<1>6. ASSUME NEW m \in {"plan", "build"}, SetMode(m) PROVE DelInv'
  <2>1. mode' = [mode EXCEPT ![Main] = m] /\ UNCHANGED <<run, starter, depth, ofTask>>
    BY <1>6 DEF SetMode
  <2> QED
    BY <1>0, <2>1 DEF DTypeOK, WaitersBounded, StartersStarted
<1> QED
  BY <1>1, <1>4, <1>5, <1>6, <1>7 DEF DelStep, Delegation, Ends, delVars

LEMMA DelInitInv == DInit => DelInv
<1> SUFFICES ASSUME DInit PROVE DelInv
  OBVIOUS
<1>1. TaskInv
  BY TaskInitInv DEF DInit
<1>2. DTypeOK
  <2>1. 0 \in 0..MaxDepth
    BY DepthCap
  <2> QED
    BY <1>1, <2>1 DEF DInit, DTypeOK, TaskInv
<1>3. WaitersBounded /\ StartersStarted
  BY AgentNumbers DEF DInit, WaitersBounded, StartersStarted
<1> QED
  BY <1>1, <1>2, <1>3 DEF DelInv

\* However many agents there are and however deep they may delegate, whatever
\* mode the user switches to meanwhile: a chain of agents that wait on each other
\* is as long as its depth says and no longer than the cap, a background subagent
\* begins a new one, and a subagent in plan mode stays in it and starts nobody,
\* neither to wait for nor in the background.
THEOREM DelegationBoundedAlways == DelSteps => []DTypeOK /\ DelegationBounded
<1>1. DelInv => DTypeOK /\ WaitersBounded
  BY DEF DelInv
<1>2. DelInv /\ [DelStep]_delVars
      => [\A b \in Subs : run[b] # "free" /\ mode[b] = "plan" =>
            mode'[b] = "plan" /\ \A a \in Subs : starter'[a] = b => starter[a] = b]_delVars
  <2> SUFFICES ASSUME DelInv, DelStep, NEW b \in Subs, run[b] # "free", mode[b] = "plan"
               PROVE  mode'[b] = "plan" /\ \A a \in Subs : starter'[a] = b => starter[a] = b
    OBVIOUS
  <2> USE DEF DelInv
  <2>1. CASE UNCHANGED <<mode, starter>>
    BY <2>1
  <2>2. ASSUME NEW a \in Agents, NEW c \in Subs, NEW d, Spawn(a, c, d)
        PROVE  mode'[b] = "plan" /\ \A e \in Subs : starter'[e] = b => starter[e] = b
    <3>1. PICK kind \in Kinds : mode' = [mode EXCEPT ![c] = ChildMode(kind)]
      BY <2>2 DEF Spawn
    <3>2. mode'[b] = "plan" /\ a # b
      BY <2>2, <3>1, AgentNumbers DEF Spawn, MayDelegate, DTypeOK
    <3>3. starter' = [starter EXCEPT ![c] = a]
      BY <2>2 DEF Spawn
    <3> QED
      BY <3>2, <3>3, AgentNumbers DEF DTypeOK
  <2>3. ASSUME NEW a \in Agents, NEW c \in Subs, Foreground(a, c)
        PROVE  mode'[b] = "plan" /\ \A e \in Subs : starter'[e] = b => starter[e] = b
    BY <2>2, <2>3 DEF Foreground
  <2>4. ASSUME NEW a \in Agents, NEW c \in Subs, NEW t \in Ids, Background(a, c, t)
        PROVE  mode'[b] = "plan" /\ \A e \in Subs : starter'[e] = b => starter[e] = b
    BY <2>2, <2>4 DEF Background
  <2>5. ASSUME NEW m \in {"plan", "build"}, SetMode(m) PROVE mode'[b] = "plan" /\ UNCHANGED starter
    BY <2>5, AgentNumbers DEF SetMode, DTypeOK
  <2>6. ASSUME NEW c \in Subs, NEW r \in {"ok", "err"}, Over(c, r) PROVE UNCHANGED <<mode, starter>>
    BY <2>6 DEF Over
  <2>7. ASSUME UNCHANGED agentVars PROVE UNCHANGED <<mode, starter>>
    BY <2>7 DEF agentVars
  <2> QED
    BY <2>1, <2>3, <2>4, <2>5, <2>6, <2>7 DEF DelStep, Delegation, Ends
<1> QED
  BY <1>1, <1>2, DelInitInv, DelNextInv, PTL DEF DelSteps, DelegationBounded, ReadOnlyStays

----------------------------------------------------------------------------
(* Pairings.  An approval that was acknowledged is in memory too, once the  *)
(* file was read; what is pending, there or on disk, was told and has not   *)
(* been acknowledged; a number not yet issued is nowhere.                   *)

NdKept ==
  /\ ~ndHarmed => ndDisk.is # "torn"
  /\ ~ndHarmed => \A i \in Pairings \ ndRemoved : ndAcks[i] > 0 =>
       i \in ndDisk.nodes /\ (ndMem.loaded => i \in ndMem.nodes)
  /\ ~ndMem.loaded => ndMem = NdUnread
  /\ ndDisk.pending \cup ndMem.pending \subseteq ndTold
  /\ ndTold \subseteq 1..ndIssued

NdInv == NdTypeOK /\ NdKept /\ \A i \in Pairings : ndAcks[i] > 0 =>
                                  i \in ndTold /\ i \notin ndDisk.pending \cup ndMem.pending

NdRegistry == [loaded : BOOLEAN, nodes : SUBSET Pairings, pending : SUBSET Pairings]
NdOnDisk   == [is : {"none", "ok", "torn"}, nodes : SUBSET Pairings, pending : SUBSET Pairings]

\* What a method works on holds the acknowledged nodes and only pending codes
\* that were told and are unspent.
LEMMA NdLoadedKept ==
  ASSUME NdInv, NdReadable
  PROVE  /\ NdLoaded \in NdRegistry /\ NdLoaded.loaded
         /\ ~ndHarmed => \A i \in Pairings \ ndRemoved : ndAcks[i] > 0 => i \in NdLoaded.nodes
         /\ NdLoaded.pending \subseteq ndDisk.pending \cup ndMem.pending
<1>1. ndMem \in NdRegistry /\ ndDisk \in NdOnDisk
  BY DEF NdInv, NdTypeOK, NdRegistry, NdOnDisk
<1>2. CASE ndMem.loaded
  BY <1>1, <1>2 DEF NdInv, NdKept, NdLoaded
<1>3. CASE ~ndMem.loaded
  BY <1>1, <1>3 DEF NdInv, NdKept, NdLoaded, NdUnexpired, NdRegistry, NdOnDisk
<1> QED
  BY <1>2, <1>3

\* A method that saves, or fails to: what it leaves in memory and on disk.
LEMMA NdWrites ==
  ASSUME NdInv, NdReadable, NEW m \in NdRegistry, m.loaded, ndMem' = m,
         NEW saved \in NdRegistry, NdSaved(saved) \/ NdSaveFails, NdSaved(saved) => saved = m,
         ndAcks' \in [Pairings -> 0..1], ndTold' \in SUBSET Pairings, ndRemoved' \in SUBSET Pairings, ndIssued' \in 0..MaxPairings,
         ndTold \subseteq ndTold', ndTold' \subseteq 1..ndIssued', ndRemoved \subseteq ndRemoved', ndExpired' = ndExpired,
         m.pending \subseteq ndTold',
         \A i \in Pairings : ndAcks'[i] > 0 =>
           /\ ndAcks[i] > 0 \/ NdSaved(saved)
           /\ i \in ndTold' /\ i \notin m.pending
           /\ ~ndHarmed /\ i \notin ndRemoved' => i \in m.nodes
  PROVE  NdInv'
<1> USE NodeBounds DEF NdInv
<1>0. ndMem \in NdRegistry /\ ndDisk \in NdOnDisk
  BY DEF NdTypeOK, NdRegistry, NdOnDisk
<1>1. CASE NdSaved(saved)
  <2>1. ndDisk' = [is |-> "ok", nodes |-> m.nodes, pending |-> m.pending] /\ UNCHANGED <<ndFaults, ndHarmed>>
    BY <1>1 DEF NdSaved
  <2>2. ndDisk'.is = "ok" /\ ndDisk'.nodes = m.nodes /\ ndDisk'.pending = m.pending /\ ndDisk' \in NdOnDisk
    BY <2>1 DEF NdOnDisk, NdRegistry
  <2>3. NdTypeOK'
    BY <2>1, <2>2 DEF NdTypeOK, NdRegistry, NdOnDisk
  <2>4. NdKept'
    BY <2>1, <2>2 DEF NdKept
  <2> QED
    BY <2>2, <2>3, <2>4
<1>2. CASE NdSaveFails /\ ~NdSaved(saved)
  <2>1. /\ ndFaults' \in 0..MaxFaults /\ ndHarmed' \in BOOLEAN
        /\ \/ UNCHANGED <<ndDisk, ndHarmed>>
           \/ ndDisk' = [is |-> "torn", nodes |-> {}, pending |-> {}] /\ ndHarmed'
    <3>1. ndFaults' = ndFaults + 1 /\ ndFaults < MaxFaults /\ ndFaults \in 0..MaxFaults /\ ndHarmed \in BOOLEAN
      BY <1>2 DEF NdSaveFails, NdFault, NdTypeOK
    <3>2. ndFaults' \in 0..MaxFaults
      BY <3>1
    <3>3. \/ UNCHANGED <<ndDisk, ndHarmed>>
          \/ ndDisk' = [is |-> "torn", nodes |-> {}, pending |-> {}] /\ ndHarmed' = TRUE
      BY <1>2 DEF NdSaveFails
    <3> QED
      BY <3>1, <3>2, <3>3, Zenon
  <2>2. ndDisk' \in NdOnDisk /\ ndDisk'.pending \subseteq ndDisk.pending
    <3>1. CASE ndDisk' = [is |-> "torn", nodes |-> {}, pending |-> {}]
      BY <3>1 DEF NdOnDisk
    <3> QED
      BY <1>0, <2>1, <3>1
  <2>3. NdTypeOK'
    BY <2>1, <2>2 DEF NdTypeOK, NdRegistry, NdOnDisk
  <2>4. NdKept'
    <3>1. ~ndHarmed' => UNCHANGED <<ndDisk, ndHarmed>>
      BY <2>1, Zenon
    <3>2. \A i \in Pairings : ndAcks'[i] > 0 => ndAcks[i] > 0
      BY <1>2
    <3>3. ~ndHarmed' => \A i \in Pairings \ ndRemoved' : ndAcks'[i] > 0 => i \in ndDisk'.nodes /\ i \in ndMem'.nodes
      BY <3>1, <3>2 DEF NdKept
    <3>4. ~ndHarmed' => ndDisk'.is # "torn"
      BY <3>1 DEF NdKept
    <3>5. ndDisk'.pending \cup ndMem'.pending \subseteq ndTold'
      BY <2>2 DEF NdKept
    <3> QED
      BY <3>3, <3>4, <3>5 DEF NdKept
  <2>5. \A i \in Pairings : ndAcks'[i] > 0 => i \in ndTold' /\ i \notin ndDisk'.pending \cup ndMem'.pending
    BY <1>2, <2>2
  <2> QED
    BY <2>3, <2>4, <2>5
<1> QED
  BY <1>1, <1>2

LEMMA NdNextInv == NdInv /\ [NdNext]_ndVars => NdInv'
<1> SUFFICES ASSUME NdInv, [NdNext]_ndVars PROVE NdInv'
  OBVIOUS
<1> USE NodeBounds DEF NdInv
<1>0. ndMem \in NdRegistry /\ ndDisk \in NdOnDisk /\ ndIssued \in 0..MaxPairings /\ ndTold \subseteq Pairings
  BY DEF NdTypeOK, NdRegistry, NdOnDisk
<1>1. CASE NdLoadFails
  <2>1. /\ ndMem' = [NdUnread EXCEPT !.loaded = TRUE] /\ ndHarmed' /\ ndHarmed' = TRUE
        /\ UNCHANGED <<ndDisk, ndIssued, ndExpired, ndTold, ndAcks, ndRemoved>> /\ ndFaults' \in 0..MaxFaults
    BY <1>1 DEF NdLoadFails, NdFault, NdTypeOK
  <2>2. ndMem'.loaded /\ ndMem'.pending = {} /\ ndMem' \in NdRegistry
    BY <2>1 DEF NdUnread, NdRegistry
  <2>3. NdTypeOK'
    BY <2>1, <2>2 DEF NdTypeOK, NdRegistry
  <2> QED
    BY <2>1, <2>2, <2>3 DEF NdKept
<1>2. CASE NdPair
  <2> DEFINE i == ndIssued + 1
             rest == NdUnexpired(NdLoaded.pending)
             m == [NdLoaded EXCEPT !.pending = rest \cup {i}]
             kept == [m EXCEPT !.pending = rest]
  <2>1. /\ NdReadable /\ ndIssued < MaxPairings /\ ndIssued' = i /\ UNCHANGED <<ndExpired, ndAcks, ndRemoved>>
        /\ \/ NdSaved(m) /\ ndMem' = m /\ ndTold' = ndTold \cup {i}
           \/ NdSaveFails /\ ndMem' = kept /\ UNCHANGED ndTold
    BY <1>2 DEF NdPair
  <2>2. /\ NdLoaded \in NdRegistry /\ NdLoaded.loaded
        /\ ~ndHarmed => \A j \in Pairings \ ndRemoved : ndAcks[j] > 0 => j \in NdLoaded.nodes
        /\ NdLoaded.pending \subseteq ndDisk.pending \cup ndMem.pending
    BY <2>1, NdLoadedKept
  <2>3. i \in Pairings /\ i \notin ndTold /\ i \in 0..MaxPairings /\ ndTold \subseteq 1..i /\ i \in 1..i
    BY <1>0, <2>1 DEF Pairings, NdKept
  <2>4. rest \subseteq Pairings /\ rest \subseteq ndDisk.pending \cup ndMem.pending
    BY <2>2 DEF NdUnexpired, NdRegistry
  <2>5. /\ m \in NdRegistry /\ m.loaded /\ m.nodes = NdLoaded.nodes /\ m.pending = rest \cup {i}
        /\ kept \in NdRegistry /\ kept.loaded /\ kept.nodes = NdLoaded.nodes /\ kept.pending = rest
    BY <2>2, <2>3, <2>4 DEF NdRegistry
  <2>6. /\ ndAcks' \in [Pairings -> 0..1] /\ ndRemoved' \in SUBSET Pairings
        /\ ndTold \cup {i} \in SUBSET Pairings /\ ndTold \in SUBSET Pairings
    BY <1>0, <2>1, <2>3 DEF NdTypeOK
  <2> HIDE DEF m, kept, rest, i
  <2>7. \A j \in Pairings : ndAcks'[j] > 0 => ndAcks[j] > 0 /\ j \in ndTold /\ j # i /\ j \notin rest
    BY <2>1, <2>3, <2>4
  <2>8. CASE NdSaved(m) /\ ndMem' = m /\ ndTold' = ndTold \cup {i}
    <3>1. m.pending \subseteq ndTold' /\ ndTold' \in SUBSET Pairings /\ ndTold \subseteq ndTold' /\ ndTold' \subseteq 1..ndIssued'
          /\ ndIssued' \in 0..MaxPairings
      BY <2>1, <2>3, <2>4, <2>5, <2>6, <2>8 DEF NdKept
    <3>2. \A j \in Pairings : ndAcks'[j] > 0 =>
            /\ ndAcks[j] > 0 \/ NdSaved(m)
            /\ j \in ndTold' /\ j \notin m.pending
            /\ ~ndHarmed /\ j \notin ndRemoved' => j \in m.nodes
      BY <2>1, <2>2, <2>5, <2>7, <2>8
    <3> QED
      BY <2>1, <2>5, <2>6, <2>8, <3>1, <3>2, NdWrites
  <2>9. CASE NdSaveFails /\ ndMem' = kept /\ UNCHANGED ndTold
    <3>1. kept.pending \subseteq ndTold' /\ ndTold' \in SUBSET Pairings /\ ndTold \subseteq ndTold' /\ ndTold' \subseteq 1..ndIssued'
          /\ ndIssued' \in 0..MaxPairings
      BY <2>1, <2>3, <2>4, <2>5, <2>6, <2>9 DEF NdKept
    <3>2. \A j \in Pairings : ndAcks'[j] > 0 =>
            /\ ndAcks[j] > 0
            /\ j \in ndTold' /\ j \notin kept.pending
            /\ ~ndHarmed /\ j \notin ndRemoved' => j \in kept.nodes
      BY <2>1, <2>2, <2>5, <2>7, <2>9
    <3> QED
      BY <2>1, <2>5, <2>6, <2>9, <3>1, <3>2, NdWrites
  <2> QED
    BY <2>1, <2>8, <2>9
<1>3. ASSUME NEW i \in Pairings, NdApprove(i) PROVE NdInv'
  <2> DEFINE m == [NdLoaded EXCEPT !.pending = NdSpent(NdUnexpired(@), i), !.nodes = @ \cup {i}]
  <2>1. /\ NdReadable /\ i \in NdUnexpired(NdLoaded.pending) /\ ndMem' = m
        /\ UNCHANGED <<ndIssued, ndExpired, ndTold, ndRemoved>>
        /\ \/ NdSaved(m) /\ ndAcks' = [ndAcks EXCEPT ![i] = ndAcks[i] + 1]
           \/ NdSaveFails /\ UNCHANGED ndAcks
    BY <1>3 DEF NdApprove
  <2>2. /\ NdLoaded \in NdRegistry /\ NdLoaded.loaded
        /\ ~ndHarmed => \A j \in Pairings \ ndRemoved : ndAcks[j] > 0 => j \in NdLoaded.nodes
        /\ NdLoaded.pending \subseteq ndDisk.pending \cup ndMem.pending
    BY <2>1, NdLoadedKept
  <2>3. /\ m \in NdRegistry /\ m.loaded /\ m.nodes = NdLoaded.nodes \cup {i}
        /\ m.pending \subseteq ndDisk.pending \cup ndMem.pending /\ i \notin m.pending
    BY <2>2 DEF NdRegistry, NdSpent, NdUnexpired
  <2> HIDE DEF m
  <2>4. i \in ndTold /\ ndAcks[i] = 0
    <3>1. i \in ndDisk.pending \cup ndMem.pending
      BY <2>1, <2>2 DEF NdUnexpired
    <3>2. ndAcks[i] \in 0..1 /\ ~(ndAcks[i] > 0)
      BY <3>1 DEF NdTypeOK
    <3> QED
      BY <3>1, <3>2 DEF NdKept
  <2>5. ndAcks' \in [Pairings -> 0..1] /\ \A j \in Pairings : ndAcks'[j] > 0 => ndAcks[j] > 0 \/ (j = i /\ NdSaved(m))
    BY <2>1, <2>4 DEF NdTypeOK
  <2>6. \A j \in Pairings : ndAcks'[j] > 0 =>
          /\ ndAcks[j] > 0 \/ NdSaved(m)
          /\ j \in ndTold' /\ j \notin m.pending
          /\ ~ndHarmed /\ j \notin ndRemoved' => j \in m.nodes
    BY <2>1, <2>2, <2>3, <2>4, <2>5
  <2>7. /\ ndTold' \in SUBSET Pairings /\ ndRemoved' \in SUBSET Pairings /\ ndIssued' \in 0..MaxPairings
        /\ ndTold \subseteq ndTold' /\ ndTold' \subseteq 1..ndIssued' /\ ndRemoved \subseteq ndRemoved' /\ m.pending \subseteq ndTold'
    BY <2>1, <2>3 DEF NdTypeOK, NdKept
  <2> QED
    BY <2>1, <2>3, <2>5, <2>6, <2>7, NdWrites
<1>4. CASE NdRead
  <2> PICK m \in {NdLoaded, [NdLoaded EXCEPT !.pending = NdUnexpired(@)]} :
        NdReadable /\ ndMem' = m /\ UNCHANGED <<ndDisk, ndIssued, ndExpired, ndFaults, ndTold, ndAcks, ndRemoved, ndHarmed>>
    BY <1>4 DEF NdRead
  <2>1. /\ m \in NdRegistry /\ m.loaded /\ m.pending \subseteq ndDisk.pending \cup ndMem.pending
        /\ ~ndHarmed => \A j \in Pairings \ ndRemoved : ndAcks[j] > 0 => j \in m.nodes
    BY NdLoadedKept DEF NdUnexpired, NdRegistry
  <2>2. NdTypeOK'
    BY <2>1 DEF NdTypeOK, NdRegistry
  <2> QED
    BY <2>1, <2>2 DEF NdKept
<1>5. ASSUME NEW i \in Pairings, NdTouch(i) PROVE NdInv'
  <2>1. /\ NdReadable /\ ndMem' = NdLoaded /\ (NdSaved(NdLoaded) \/ NdSaveFails)
        /\ UNCHANGED <<ndIssued, ndExpired, ndTold, ndAcks, ndRemoved>>
    BY <1>5 DEF NdTouch
  <2>2. /\ NdLoaded \in NdRegistry /\ NdLoaded.loaded
        /\ ~ndHarmed => \A j \in Pairings \ ndRemoved : ndAcks[j] > 0 => j \in NdLoaded.nodes
        /\ NdLoaded.pending \subseteq ndDisk.pending \cup ndMem.pending
    BY <2>1, NdLoadedKept
  <2> DEFINE m == NdLoaded
  <2> HIDE DEF m
  <2>3. \A j \in Pairings : ndAcks'[j] > 0 =>
          /\ ndAcks[j] > 0
          /\ j \in ndTold' /\ j \notin m.pending
          /\ ~ndHarmed /\ j \notin ndRemoved' => j \in m.nodes
    BY <2>1, <2>2 DEF m
  <2>4. /\ ndTold' \in SUBSET Pairings /\ ndRemoved' \in SUBSET Pairings /\ ndIssued' \in 0..MaxPairings /\ ndAcks' \in [Pairings -> 0..1]
        /\ ndTold \subseteq ndTold' /\ ndTold' \subseteq 1..ndIssued' /\ ndRemoved \subseteq ndRemoved' /\ m.pending \subseteq ndTold'
    BY <2>1, <2>2 DEF NdTypeOK, NdKept, m
  <2>5. m \in NdRegistry /\ m.loaded /\ ndMem' = m /\ (NdSaved(m) \/ NdSaveFails)
    BY <2>1, <2>2 DEF m
  <2> QED
    BY <2>1, <2>3, <2>4, <2>5, NdWrites
<1>6. ASSUME NEW i \in Pairings, NdRemove(i) PROVE NdInv'
  <2> DEFINE m == [NdLoaded EXCEPT !.nodes = @ \ {i}]
  <2>1. /\ NdReadable /\ ndMem' = m /\ (NdSaved(m) \/ NdSaveFails)
        /\ ndRemoved' = ndRemoved \cup {i} /\ UNCHANGED <<ndIssued, ndExpired, ndTold, ndAcks>>
    BY <1>6 DEF NdRemove
  <2>2. /\ NdLoaded \in NdRegistry /\ NdLoaded.loaded
        /\ ~ndHarmed => \A j \in Pairings \ ndRemoved : ndAcks[j] > 0 => j \in NdLoaded.nodes
        /\ NdLoaded.pending \subseteq ndDisk.pending \cup ndMem.pending
    BY <2>1, NdLoadedKept
  <2>3. m \in NdRegistry /\ m.loaded /\ m.nodes = NdLoaded.nodes \ {i} /\ m.pending = NdLoaded.pending
    BY <2>2 DEF NdRegistry
  <2> HIDE DEF m
  <2>4. \A j \in Pairings : ndAcks'[j] > 0 =>
          /\ ndAcks[j] > 0
          /\ j \in ndTold' /\ j \notin m.pending
          /\ ~ndHarmed /\ j \notin ndRemoved' => j \in m.nodes
    BY <2>1, <2>2, <2>3
  <2>5. /\ ndTold' \in SUBSET Pairings /\ ndRemoved' \in SUBSET Pairings /\ ndIssued' \in 0..MaxPairings /\ ndAcks' \in [Pairings -> 0..1]
        /\ ndTold \subseteq ndTold' /\ ndTold' \subseteq 1..ndIssued' /\ ndRemoved \subseteq ndRemoved' /\ m.pending \subseteq ndTold'
    BY <2>1, <2>2, <2>3 DEF NdTypeOK, NdKept
  <2> QED
    BY <2>1, <2>3, <2>4, <2>5, NdWrites
<1>7. ASSUME NEW i \in Pairings, NdExpire(i) PROVE NdInv'
  <2>1. ndExpired' = ndExpired \cup {i} /\ UNCHANGED <<ndMem, ndDisk, ndIssued, ndFaults, ndTold, ndAcks, ndRemoved, ndHarmed>>
    BY <1>7 DEF NdExpire
  <2>2. NdTypeOK'
    BY <2>1 DEF NdTypeOK
  <2> QED
    BY <2>1, <2>2 DEF NdKept
<1>8. CASE NdRestart
  <2>1. ndMem' = NdUnread /\ UNCHANGED <<ndDisk, ndIssued, ndExpired, ndFaults, ndTold, ndAcks, ndRemoved, ndHarmed>>
    BY <1>8 DEF NdRestart
  <2>2. ndMem' \in NdRegistry /\ ~ndMem'.loaded /\ ndMem'.pending = {}
    BY <2>1 DEF NdUnread, NdRegistry
  <2>3. NdTypeOK'
    BY <2>1, <2>2 DEF NdTypeOK, NdRegistry
  <2> QED
    BY <2>1, <2>2, <2>3 DEF NdKept
<1>9. CASE UNCHANGED ndVars
  BY <1>9 DEF ndVars, NdTypeOK, NdKept
<1> QED
  BY <1>1, <1>2, <1>3, <1>4, <1>5, <1>6, <1>7, <1>8, <1>9 DEF NdNext

LEMMA NdInitInv == NdInit => NdInv
<1> SUFFICES ASSUME NdInit PROVE NdInv
  OBVIOUS
<1>1. 0 \in 0..MaxPairings /\ 0 \in 0..MaxFaults
  BY NodeBounds
<1>2. NdTypeOK
  <2>1. [i \in Pairings |-> 0] \in [Pairings -> 0..1]
    OBVIOUS
  <2> QED
    BY <1>1, <2>1 DEF NdInit, NdUnread, NdTypeOK
<1>3. NdKept
  BY DEF NdInit, NdUnread, NdKept
<1> QED
  BY <1>2, <1>3 DEF NdInit, NdInv

\* For every number of pairings and of failing reads and writes, through any
\* sequence of calls and restarts: an approval that was acknowledged is on disk,
\* and a code is redeemed at most once.
THEOREM NdApprovalsKeptAlways == NdSpec => [](NdTypeOK /\ NdApprovalsKept)
<1>1. NdInv => NdTypeOK /\ NdApprovalsKept
  BY DEF NdInv, NdKept, NdApprovalsKept
<1> QED
  BY <1>1, NdInitInv, NdNextInv, PTL DEF NdSpec

----------------------------------------------------------------------------
(* Updates.  While commands have not overlapped at most one downloads, and  *)
(* then what it writes is what the name stands for; the binary never has    *)
(* that name.  An inode is made by a command that was begun, once.          *)

UpLoading == {"download", "verify", "swap"}
UpAhead   == {u \in Updaters : upPc[u] \in {"check", "ask", "mkdir", "backup", "recheck", "open"}}
UpBefore  == {"idle", "check", "ask"}
UpPast    == {"recheck", "open", "download", "verify", "swap"}

UpNamed ==
  /\ upBin # upNew /\ upBin <= upMade /\ (upNew # NoInode => upNew <= upMade)
  /\ \A u \in Updaters : upPc[u] \in UpLoading => upOpen[u] \in Inodes

UpOneLoads ==
  upOverlap \/
    /\ upFile[upBin].part = "whole"
    /\ \A u, v \in Updaters : upPc[u] \in UpLoading /\ upPc[v] \in UpLoading => u = v
    /\ \A u \in Updaters : upPc[u] \in UpLoading => upOpen[u] = upNew /\ upNew \in Inodes
    /\ \A u \in Updaters : upPc[u] \in {"verify", "swap"} =>
         upFile[upNew].ver = upTag[u] /\ upFile[upNew].part \in {"small", "whole"}
    /\ \A u \in Updaters : upPc[u] = "swap" => upFile[upNew].part = "whole"

UpCounted == IsFiniteSet(UpAhead) /\ upMade + Cardinality(UpAhead) <= upBegun

\* Until the consent nothing is copied; then there is a directory, and after the
\* backup every chunk has been copied.
UpPlaced ==
  \A u \in Updaters :
     /\ upPc[u] \notin UpBefore => upDir[u] \in Dirs
     /\ upPc[u] \in UpBefore => \A f \in DataFiles : upDone[u][f] = 0
     /\ upPc[u] \in UpPast => \A f \in DataFiles : upDone[u][f] = Chunks

\* The first n chunks are as the file was since the consent, in the order of time.
UpFilled(copy, n, from, to) ==
  \A c \in 1..n : copy[c] \in from..to /\ \A b \in 1..c : copy[b] <= copy[c]

UpCopied ==
  upShared \/
    /\ \A u, v \in Updaters : upDir[u] = upDir[v] /\ upDir[u] \in Dirs => u = v
    /\ \A u \in Updaters, f \in DataFiles : upPc[u] \notin UpBefore =>
         upFrom[u][f] <= upData[f] /\ UpFilled(upBack[upDir[u]][f], upDone[u][f], upFrom[u][f], upData[f])

UpNewer == \A u \in Updaters : upPc[u] \in {"open", "download", "verify", "swap"} => upTag[u] > upCurrent[u]

UpInv == UpTypeOK /\ UpNamed /\ UpOneLoads /\ UpCounted /\ UpPlaced /\ UpCopied /\ UpNewer

\* Of two tags at most one needs an update to the other.
LEMMA UpdatesOneWay ==
  ASSUME NEW a \in Seq(Nat), NEW b \in Seq(Nat), NeedsUpdate(a, b)
  PROVE  ~NeedsUpdate(b, a)
<1> SUFFICES ASSUME NeedsUpdate(b, a) PROVE FALSE
  OBVIOUS
<1>1. PICK i \in DOMAIN a : a[i] > Component(b, i) /\ \A j \in 1..(i - 1) : a[j] = Component(b, j)
  BY DEF NeedsUpdate
<1>2. PICK k \in DOMAIN b : b[k] > Component(a, k) /\ \A j \in 1..(k - 1) : b[j] = Component(a, j)
  BY DEF NeedsUpdate
<1>3. /\ i \in 1..Len(a) /\ k \in 1..Len(b) /\ Len(a) \in Nat /\ Len(b) \in Nat
      /\ \A j \in 1..Len(a) : Component(a, j) = a[j] /\ a[j] \in Nat
      /\ \A j \in 1..Len(b) : Component(b, j) = b[j] /\ b[j] \in Nat
  BY SMTT(30) DEF Component
<1>4. CASE i = k
  BY <1>1, <1>2, <1>3, <1>4
<1>5. CASE i < k
  <2>1. i \in 1..(k - 1) /\ i \in 1..Len(b)
    BY <1>3, <1>5
  <2>2. b[i] = Component(a, i) /\ Component(a, i) = a[i] /\ Component(b, i) = b[i] /\ a[i] \in Nat
    BY <1>2, <1>3, <2>1
  <2> QED
    BY <1>1, <2>2
<1>6. CASE k < i
  <2>1. k \in 1..(i - 1) /\ k \in 1..Len(a)
    BY <1>3, <1>6
  <2>2. a[k] = Component(b, k) /\ Component(b, k) = b[k] /\ Component(a, k) = a[k] /\ b[k] \in Nat
    BY <1>1, <1>3, <2>1
  <2> QED
    BY <1>2, <2>2
<1> QED
  BY <1>3, <1>4, <1>5, <1>6

\* A release that counts as newer was published later.
LEMMA NewerIsLater ==
  ASSUME NEW v \in Versions, NEW w \in Versions, NeedsUpdate(Published[v], Published[w])
  PROVE  v > w
<1>1. Published[v] \in Seq(Nat) /\ Published[w] \in Seq(Nat) /\ v \in Nat /\ w \in Nat
  BY TagsAreNumbers DEF Versions
<1>2. ~NeedsUpdate(Published[w], Published[v])
  BY <1>1, UpdatesOneWay
<1> QED
  BY <1>1, <1>2, TagsGrow

LEMMA UpBounds ==
  /\ MaxUpdates \in Nat /\ MaxWrites \in Nat /\ NoInode \notin Inodes /\ First \in Versions
  /\ Versions \subseteq Nat /\ 0 \in Inodes /\ 0 \in Contents /\ Inodes \subseteq Nat /\ Contents \subseteq Nat /\ NoVersion \notin Versions
  /\ Chunks \in Nat \ {0} /\ Dirs \subseteq Nat /\ NoDir \notin Dirs /\ Contents \cup {Missing} \subseteq Nat
BY UpdateBounds, TagsAreNumbers DEF NoInode, Inodes, Missing, Contents, First, Versions, NoVersion, Dirs, NoDir

\* A command that moves on, or another step, brings no command ahead of the others.
LEMMA UpCountedKept ==
  ASSUME UpInv, UpAhead' \subseteq UpAhead, upMade' = upMade, upBegun' \in Nat, upBegun' >= upBegun
  PROVE  UpCounted'
<1>1. IsFiniteSet(UpAhead') /\ Cardinality(UpAhead') <= Cardinality(UpAhead)
  BY FS_Subset DEF UpInv, UpCounted
<1>2. Cardinality(UpAhead') \in Nat /\ Cardinality(UpAhead) \in Nat
  BY <1>1, FS_CardinalityType DEF UpInv, UpCounted
<1> QED
  BY <1>1, <1>2, UpBounds DEF UpInv, UpCounted, UpTypeOK, Inodes

\* Nothing is copied, and no command gets or loses a directory.
LEMMA UpCopiedKept ==
  ASSUME UpInv, UNCHANGED <<copyVars, upData>>,
         \A v \in Updaters : /\ upPc'[v] \notin UpBefore => upPc[v] \notin UpBefore
                             /\ upPc'[v] \in UpBefore => upPc[v] \in UpBefore
                             /\ upPc'[v] \in UpPast => upPc[v] \in UpPast \/ BackedUp(v)
  PROVE  UpPlaced' /\ UpCopied'
<1>1. UNCHANGED <<upDir, upDone, upBack, upShared, upFrom, upData>>
  BY DEF copyVars
<1>2. UpPlaced'
  BY <1>1 DEF UpInv, UpPlaced, BackedUp
<1>3. UpCopied'
  BY <1>1 DEF UpInv, UpCopied
<1> QED
  BY <1>2, <1>3

\* The end of a command, with the name it wrote to kept, taken away, or given to
\* the binary.
LEMMA UpOverInv ==
  ASSUME UpInv, NEW u \in Updaters, UpOver(u), UNCHANGED <<worldVars, upFile, upMade, upOverlap>>,
         \/ UNCHANGED <<upBin, upNew>>
         \/ UNCHANGED upBin /\ upNew' = NoInode /\ upPc[u] \in UpLoading
         \/ upBin' = upNew /\ upNew # NoInode /\ upNew' = NoInode /\ upPc[u] = "swap"
  PROVE  UpInv'
<1> USE UpBounds DEF UpInv
<1> DEFINE zero == [f \in DataFiles |-> 0]
<1>1. /\ upPc' = [upPc EXCEPT ![u] = "idle"] /\ upOpen' = [upOpen EXCEPT ![u] = NoInode]
      /\ upCurrent' = [upCurrent EXCEPT ![u] = First] /\ upTag' = [upTag EXCEPT ![u] = First]
      /\ upDir' = [upDir EXCEPT ![u] = NoDir] /\ upDone' = [upDone EXCEPT ![u] = zero]
      /\ upBack' = [d \in Dirs |-> IF UsedByOther(u, d) THEN upBack[d] ELSE Unmade]
      /\ upFrom' = [upFrom EXCEPT ![u] = zero] /\ upShared' = upShared
  BY DEF UpOver, UpGo
<1>2. /\ zero \in [DataFiles -> 0..Chunks] /\ zero \in [DataFiles -> Contents] /\ \A f \in DataFiles : zero[f] = 0
      /\ Unmade \in [DataFiles -> [1..Chunks -> Contents \cup {Missing}]]
  BY DEF Unmade
<1> HIDE DEF zero
<1>3. UNCHANGED <<upBegun, upLatest, upData, upFile, upMade, upOverlap>> /\ upBin' \in Inodes /\ upNew' \in Inodes \cup {NoInode}
  BY DEF worldVars, UpTypeOK
<1>4. UpTypeOK'
  <2>1. upBack' \in [Dirs -> [DataFiles -> [1..Chunks -> Contents \cup {Missing}]]]
    BY <1>1, <1>2 DEF UpTypeOK
  <2>2. upDone' \in [Updaters -> [DataFiles -> 0..Chunks]] /\ upFrom' \in [Updaters -> [DataFiles -> Contents]]
    BY <1>1, <1>2 DEF UpTypeOK
  <2> QED
    BY <1>1, <1>3, <2>1, <2>2 DEF UpTypeOK
<1>5. \A v \in Updaters : /\ upPc'[v] = (IF v = u THEN "idle" ELSE upPc[v]) /\ upOpen'[v] = (IF v = u THEN NoInode ELSE upOpen[v])
                          /\ upTag'[v] = (IF v = u THEN First ELSE upTag[v]) /\ upCurrent'[v] = (IF v = u THEN First ELSE upCurrent[v])
                          /\ upDone'[v] = (IF v = u THEN zero ELSE upDone[v]) /\ upFrom'[v] = (IF v = u THEN zero ELSE upFrom[v])
                          /\ upDir'[v] = (IF v = u THEN NoDir ELSE upDir[v])
  BY <1>1 DEF UpTypeOK
<1>6. UpNamed'
  BY <1>3, <1>5 DEF UpNamed, UpLoading, UpTypeOK
<1>7. UpOneLoads'
  <2>1. CASE upOverlap
    BY <1>3, <2>1 DEF UpOneLoads
  <2>2. CASE ~upOverlap
    <3>1. \A v \in Updaters : upPc'[v] \in UpLoading => v # u /\ upPc[v] \in UpLoading /\ upPc[u] \notin UpLoading
      BY <1>5, <2>2 DEF UpOneLoads, UpLoading
    <3>2. (\E v \in Updaters : upPc'[v] \in UpLoading) => UNCHANGED <<upBin, upNew>>
      BY <3>1 DEF UpLoading
    <3>3. upFile'[upBin'].part = "whole"
      BY <1>3, <2>2 DEF UpOneLoads
    <3>4. \A v \in Updaters : upPc'[v] \in {"verify", "swap"} => upPc'[v] \in UpLoading
      BY DEF UpLoading
    <3> QED
      BY <1>3, <1>5, <2>2, <3>1, <3>2, <3>3, <3>4 DEF UpOneLoads
  <2> QED
    BY <2>1, <2>2
<1>8. UpCounted'
  <2>1. UpAhead' \subseteq UpAhead
    BY <1>5 DEF UpAhead
  <2> QED
    BY <1>3, <2>1, UpCountedKept DEF UpTypeOK
<1>9. UpPlaced'
  BY <1>2, <1>5 DEF UpPlaced, UpBefore, UpPast
<1>10. UpCopied'
  <2> SUFFICES ASSUME ~upShared' PROVE UpCopied'
    BY DEF UpCopied
  <2>1. \A v, w \in Updaters : upDir'[v] = upDir'[w] /\ upDir'[v] \in Dirs => v = w
    BY <1>1, <1>5 DEF UpCopied
  <2>2. ASSUME NEW v \in Updaters, NEW f \in DataFiles, upPc'[v] \notin UpBefore
        PROVE  upFrom'[v][f] <= upData'[f] /\ UpFilled(upBack'[upDir'[v]][f], upDone'[v][f], upFrom'[v][f], upData'[f])
    <3>1. v # u /\ upPc[v] \notin UpBefore
      BY <1>5, <2>2 DEF UpBefore
    <3>2. upDir[v] \in Dirs /\ UsedByOther(u, upDir[v])
      BY <3>1 DEF UpPlaced, UsedByOther
    <3>3. upBack'[upDir'[v]] = upBack[upDir[v]] /\ upDone'[v] = upDone[v] /\ upFrom'[v] = upFrom[v] /\ upData' = upData
      BY <1>1, <1>3, <1>5, <3>1, <3>2
    <3>4. upFrom[v][f] <= upData[f] /\ UpFilled(upBack[upDir[v]][f], upDone[v][f], upFrom[v][f], upData[f])
      BY <1>1, <3>1 DEF UpCopied
    <3> QED
      BY <3>3, <3>4
  <2> QED
    BY <2>1, <2>2 DEF UpCopied
<1>11. UpNewer'
  BY <1>5 DEF UpNewer
<1> QED
  BY <1>4, <1>6, <1>7, <1>8, <1>9, <1>10, <1>11

LEMMA UpNextInv == UpInv /\ [UpNext]_upVars => UpInv'
<1> SUFFICES ASSUME UpInv, [UpNext]_upVars PROVE UpInv'
  OBVIOUS
<1> USE UpBounds DEF UpInv
<1>1. ASSUME NEW u \in Updaters, UpBegin(u) PROVE UpInv'
  <2>1. /\ upPc[u] = "idle" /\ upBegun < MaxUpdates /\ upPc' = [upPc EXCEPT ![u] = "check"]
        /\ upCurrent' = [upCurrent EXCEPT ![u] = upFile[upBin].ver] /\ upBegun' = upBegun + 1
        /\ UNCHANGED <<upTag, copyVars, upOpen, upLatest, upData, upFile, upBin, upNew, upMade, upOverlap>>
    BY <1>1 DEF UpBegin, UpGo, dirVars
  <2>2. UpTypeOK'
    BY <2>1 DEF UpTypeOK, copyVars
  <2>3. \A v \in Updaters : /\ upPc'[v] = (IF v = u THEN "check" ELSE upPc[v])
                            /\ v # u => upCurrent'[v] = upCurrent[v]
    BY <2>1 DEF UpTypeOK
  <2>4. UpNamed' /\ UpOneLoads'
    <3>1. \A v \in Updaters : upPc'[v] # upPc[v] => upPc'[v] = "check"
      BY <2>3
    <3> QED
      BY <2>1, <3>1 DEF UpNamed, UpOneLoads, UpLoading
  <2>5. UpCounted'
    <3>1. UpAhead' = UpAhead \cup {u} /\ u \notin UpAhead
      BY <2>1, <2>3 DEF UpAhead
    <3>2. IsFiniteSet(UpAhead') /\ Cardinality(UpAhead') = Cardinality(UpAhead) + 1 /\ Cardinality(UpAhead) \in Nat
      BY <3>1, FS_AddElement, FS_CardinalityType DEF UpCounted
    <3> QED
      BY <2>1, <3>2 DEF UpCounted, UpTypeOK
  <2>6. UpPlaced' /\ UpCopied'
    <3>1. \A v \in Updaters : upPc'[v] = upPc[v] \/ (upPc[v] = "idle" /\ upPc'[v] = "check")
      BY <2>1, <2>3
    <3> QED
      BY <2>1, <3>1, UpCopiedKept DEF UpBefore, UpPast
  <2>7. UpNewer'
    BY <2>1, <2>3 DEF UpNewer
  <2> QED
    BY <2>2, <2>4, <2>5, <2>6, <2>7
<1>2. ASSUME NEW u \in Updaters, NEW pc \in {"ask", "mkdir", "backup", "recheck"}, upPc' = [upPc EXCEPT ![u] = pc],
             upPc[u] \in {"check", "ask", "mkdir", "backup"}, UNCHANGED <<upCurrent, upTag, upOpen, worldVars, dirVars>>,
             UpTypeOK', UpPlaced' /\ UpCopied'
      PROVE  UpInv'
  <2>1. UNCHANGED <<upBegun, upLatest, upData, upFile, upBin, upNew, upMade, upOverlap>>
    BY <1>2 DEF worldVars, dirVars
  <2>3. \A v \in Updaters : upPc'[v] = (IF v = u THEN pc ELSE upPc[v])
    BY <1>2 DEF UpTypeOK
  <2>4. UpNamed' /\ UpOneLoads'
    <3>1. \A v \in Updaters : upPc'[v] # upPc[v] => upPc'[v] \in {"ask", "mkdir", "backup", "recheck"}
      BY <2>3
    <3> QED
      BY <1>2, <2>1, <3>1 DEF UpNamed, UpOneLoads, UpLoading
  <2>5. UpCounted'
    <3>1. UpAhead' \subseteq UpAhead
      BY <1>2, <2>3 DEF UpAhead
    <3> QED
      BY <2>1, <3>1, UpCountedKept DEF UpTypeOK
  <2>7. UpNewer'
    BY <1>2, <2>3 DEF UpNewer
  <2> QED
    BY <1>2, <2>4, <2>5, <2>7
<1>3. ASSUME NEW u \in Updaters, UpFound(u) \/ UpConsent(u) \/ UpMakeDir(u) \/ UpBackedUp(u) PROVE UpInv'
  <2>1. ASSUME NEW pc \in {"ask", "backup", "recheck"}, upPc' = [upPc EXCEPT ![u] = pc],
               UNCHANGED <<upCurrent, upTag, copyVars, upOpen, worldVars, dirVars>>,
               pc = "ask" => upPc[u] = "check", pc = "backup" => upPc[u] = "mkdir",
               pc = "recheck" => upPc[u] = "backup" /\ BackedUp(u)
        PROVE  UpInv'
    <3>1. UpTypeOK'
      BY <2>1 DEF UpTypeOK, copyVars, worldVars, dirVars
    <3>2. \A v \in Updaters : upPc'[v] = (IF v = u THEN pc ELSE upPc[v])
      BY <2>1 DEF UpTypeOK
    <3>3. UpPlaced' /\ UpCopied'
      <4>1. UNCHANGED <<copyVars, upData>>
        BY <2>1 DEF worldVars
      <4> QED
        BY <2>1, <3>2, <4>1, UpCopiedKept DEF UpBefore, UpPast
    <3>4. UNCHANGED <<upCurrent, upTag, upOpen, worldVars, dirVars>> /\ upPc[u] \in {"check", "ask", "mkdir", "backup"}
      BY <2>1
    <3> QED
      BY <1>2, <2>1, <3>1, <3>3, <3>4
  <2>2. CASE UpFound(u)
    BY <2>1, <2>2 DEF UpFound, UpGo
  <2>3. CASE UpMakeDir(u)
    BY <2>1, <2>3 DEF UpMakeDir, UpGo
  <2>4. CASE UpBackedUp(u)
    BY <2>1, <2>4 DEF UpBackedUp, UpGo
  <2>5. CASE UpConsent(u)
    <3>1. PICK d \in Dirs : UpDirNamed(d) /\ upDir' = [upDir EXCEPT ![u] = d]
      BY <2>5 DEF UpConsent
    <3>2. /\ upPc[u] = "ask" /\ upPc' = [upPc EXCEPT ![u] = "mkdir"] /\ upFrom' = [upFrom EXCEPT ![u] = upData]
          /\ UNCHANGED <<upCurrent, upTag, upDone, upBack, upOpen, worldVars, dirVars>>
          /\ UNCHANGED <<upBegun, upLatest, upData, upFile, upBin, upNew, upMade, upOverlap>>
      BY <2>5 DEF UpConsent, UpGo, worldVars, dirVars
    <3>3. upShared' \in BOOLEAN /\ (~upShared' => ~upShared /\ \A v \in Updaters : upDir[v] # d)
      BY <3>1 DEF UpDirNamed, UpTypeOK
    <3>4. UpTypeOK'
      <4>1. upFrom' \in [Updaters -> [DataFiles -> Contents]]
        BY <3>2 DEF UpTypeOK
      <4> QED
        BY <3>1, <3>2, <3>3, <4>1 DEF UpTypeOK
    <3>5. \A v \in Updaters : /\ upPc'[v] = (IF v = u THEN "mkdir" ELSE upPc[v]) /\ upDir'[v] = (IF v = u THEN d ELSE upDir[v])
                              /\ upFrom'[v] = (IF v = u THEN upData ELSE upFrom[v])
      BY <3>1, <3>2 DEF UpTypeOK
    <3>6. UpPlaced'
      BY <3>1, <3>2, <3>5 DEF UpPlaced, UpBefore, UpPast
    <3>7. UpCopied'
      <4> SUFFICES ASSUME ~upShared' PROVE UpCopied'
        BY DEF UpCopied
      <4>1. \A v, w \in Updaters : upDir'[v] = upDir'[w] /\ upDir'[v] \in Dirs => v = w
        BY <3>3, <3>5 DEF UpCopied
      <4>2. ASSUME NEW v \in Updaters, NEW f \in DataFiles, upPc'[v] \notin UpBefore
            PROVE  upFrom'[v][f] <= upData'[f] /\ UpFilled(upBack'[upDir'[v]][f], upDone'[v][f], upFrom'[v][f], upData'[f])
        <5>1. CASE v # u
          BY <3>2, <3>3, <3>5, <4>2, <5>1 DEF UpCopied
        <5>2. CASE v = u
          <6>1. upDone'[u][f] = 0 /\ upFrom'[u][f] = upData'[f] /\ upData'[f] \in Nat
            BY <3>2, <3>5 DEF UpPlaced, UpBefore, UpTypeOK
          <6> QED
            BY <5>2, <6>1 DEF UpFilled
        <5> QED
          BY <5>1, <5>2
      <4> QED
        BY <4>1, <4>2 DEF UpCopied
    <3> QED
      BY <1>2, <3>2, <3>4, <3>6, <3>7
  <2> QED
    BY <1>3, <2>2, <2>3, <2>4, <2>5
<1>4. ASSUME NEW u \in Updaters, UpNothing(u) \/ UpDecline(u) \/ UpBackupFails(u) \/ UpNoAnswer(u) \/ UpBroken(u) \/ UpRejected(u)
                                 \/ UpSwap(u) \/ UpSwapFails(u) \/ UpKilled(u)
      PROVE  UpInv'
  <2>1. CASE UpNothing(u) \/ UpDecline(u) \/ UpBackupFails(u) \/ UpNoAnswer(u) \/ UpSwapFails(u) \/ UpKilled(u)
    BY <2>1, UpOverInv DEF UpNothing, UpDecline, UpBackupFails, UpNoAnswer, UpSwapFails, UpKilled, dirVars
  <2>2. CASE UpBroken(u) \/ UpRejected(u)
    BY <2>2, UpOverInv DEF UpBroken, UpRejected, UpCleanUp, UpLoading
  <2>3. CASE UpSwap(u)
    BY <2>3, UpOverInv DEF UpSwap
  <2> QED
    BY <1>4, <2>1, <2>2, <2>3
<1>5. ASSUME NEW u \in Updaters, NEW f \in DataFiles, UpBackup(u, f) PROVE UpInv'
  <2> DEFINE n == upDone[u][f] + 1
             own == upDir[u]
             filled == ChunkCopied(upBack[own][f], n, upData[f])
             cell == [upBack[own] EXCEPT ![f] = filled]
             row == [upDone[u] EXCEPT ![f] = n]
  <2>1. /\ upPc[u] = "backup" /\ upDone[u][f] < Chunks /\ upDone' = [upDone EXCEPT ![u] = row]
        /\ upBack' = [upBack EXCEPT ![own] = cell]
        /\ UNCHANGED <<upPc, upCurrent, upTag, upDir, upShared, upFrom, upOpen, upBegun, upLatest, upData, upFile, upBin, upNew, upMade, upOverlap>>
    BY <1>5 DEF UpBackup, worldVars, dirVars
  <2>2. own \in Dirs /\ n \in 1..Chunks /\ upData[f] \in Contents /\ upDone[u][f] \in Nat
    <3>1. upDone[u][f] \in 0..Chunks /\ upData[f] \in Contents
      BY DEF UpTypeOK
    <3> QED
      BY <2>1, <3>1 DEF UpPlaced, UpBefore
  <2>a. /\ filled \in [1..Chunks -> Contents \cup {Missing}]
        /\ \A c \in 1..Chunks : filled[c] = IF c = n THEN upData[f] ELSE IF n = 1 THEN Missing ELSE upBack[own][f][c]
    <3>1. upBack \in [Dirs -> [DataFiles -> [1..Chunks -> Contents \cup {Missing}]]]
      BY DEF UpTypeOK
    <3> HIDE DEF n, own, UpInv
    <3>2. upBack[own][f] \in [1..Chunks -> Contents \cup {Missing}]
      BY <2>2, <3>1
    <3> QED
      BY <2>2, <3>2 DEF ChunkCopied
  <2> HIDE DEF filled
  <2>b. cell \in [DataFiles -> [1..Chunks -> Contents \cup {Missing}]] /\ row \in [DataFiles -> 0..Chunks]
        /\ cell[f] = filled /\ row[f] = n /\ \A g \in DataFiles : g # f => cell[g] = upBack[own][g] /\ row[g] = upDone[u][g]
    <3>1. /\ upBack \in [Dirs -> [DataFiles -> [1..Chunks -> Contents \cup {Missing}]]]
          /\ upDone[u] \in [DataFiles -> 0..Chunks]
      BY DEF UpTypeOK
    <3> HIDE DEF n, own, UpInv
    <3> DEFINE copies == [1..Chunks -> Contents \cup {Missing}]
    <3>2. upBack \in [Dirs -> [DataFiles -> copies]] /\ filled \in copies
      BY <2>a, <3>1
    <3> HIDE DEF copies
    <3>3. upBack[own] \in [DataFiles -> copies] /\ n \in 0..Chunks
      <4>1. n \in 0..Chunks
        BY <2>2
      <4>2. own \in Dirs
        BY <2>2
      <4>3. upBack[own] \in [DataFiles -> copies]
        BY <3>2, <4>2
      <4> QED
        BY <4>1, <4>3
    <3>4. cell \in [DataFiles -> copies] /\ cell[f] = filled /\ \A g \in DataFiles : g # f => cell[g] = upBack[own][g]
      BY <3>2, <3>3
    <3>5. row \in [DataFiles -> 0..Chunks] /\ row[f] = n /\ \A g \in DataFiles : g # f => row[g] = upDone[u][g]
      BY <3>1, <3>3
    <3> QED
      BY <3>4, <3>5 DEF copies
  <2> HIDE DEF cell, row
  <2>c. UpTypeOK'
    <3>1. upBack' \in [Dirs -> [DataFiles -> [1..Chunks -> Contents \cup {Missing}]]]
      BY <2>1, <2>2, <2>b DEF UpTypeOK
    <3>2. upDone' \in [Updaters -> [DataFiles -> 0..Chunks]]
      BY <2>1, <2>b DEF UpTypeOK
    <3> QED
      BY <2>1, <3>1, <3>2 DEF UpTypeOK
  <2>3. UpNamed' /\ UpOneLoads' /\ UpNewer'
    BY <2>1 DEF UpNamed, UpOneLoads, UpLoading, UpNewer
  <2>4. UpCounted'
    BY <2>1 DEF UpCounted, UpAhead
  <2>5. /\ upDone'[u] = row /\ upBack'[own] = cell
        /\ \A v \in Updaters : v # u => upDone'[v] = upDone[v]
        /\ \A d \in Dirs : d # own => upBack'[d] = upBack[d]
    BY <2>1, <2>2 DEF UpTypeOK
  <2>6. UpPlaced'
    BY <2>1, <2>5 DEF UpPlaced, UpBefore, UpPast
  <2>7. UpCopied'
    <3> SUFFICES ASSUME ~upShared' PROVE UpCopied'
      BY DEF UpCopied
    <3>1. ~upShared /\ \A v, w \in Updaters : upDir[v] = upDir[w] /\ upDir[v] \in Dirs => v = w
      BY <2>1 DEF UpCopied
    <3>2. ASSUME NEW v \in Updaters, NEW g \in DataFiles, upPc[v] \notin UpBefore
          PROVE  upFrom[v][g] <= upData[g] /\ UpFilled(upBack'[upDir[v]][g], upDone'[v][g], upFrom[v][g], upData[g])
      <4>1. upFrom[v][g] <= upData[g] /\ UpFilled(upBack[upDir[v]][g], upDone[v][g], upFrom[v][g], upData[g])
        BY <3>1, <3>2 DEF UpCopied
      <4>2. CASE v # u
        <5>1. upDir[v] \in Dirs /\ upDir[v] # own
          BY <2>2, <3>1, <3>2, <4>2 DEF UpPlaced
        <5> QED
          BY <2>5, <4>1, <4>2, <5>1
      <4>3. CASE v = u /\ g # f
        BY <2>5, <2>b, <4>1, <4>3
      <4>4. CASE v = u /\ g = f
        <5>1. upFrom[u][f] \in Nat /\ upData[f] \in Nat /\ upFrom[u][f] <= upData[f]
          BY <2>2, <4>1, <4>4 DEF UpTypeOK
        <5>2. ASSUME NEW c \in 1..n PROVE filled[c] \in upFrom[u][f]..upData[f] /\ \A b \in 1..c : filled[b] <= filled[c]
          <6>0. \A b \in 1..c : b \in 1..Chunks /\ b \in 1..n /\ b <= c
            BY <2>2
          <6>1. \A b \in 1..n : b # n => b \in 1..upDone[u][f] /\ n # 1
            BY <2>2
          <6>2. \A b \in 1..n : b # n => filled[b] = upBack[own][f][b] /\ upBack[own][f][b] \in upFrom[u][f]..upData[f]
                                        /\ \A a \in 1..b : upBack[own][f][a] <= upBack[own][f][b]
            <7> TAKE b \in 1..n
            <7> SUFFICES ASSUME b # n PROVE filled[b] = upBack[own][f][b] /\ upBack[own][f][b] \in upFrom[u][f]..upData[f]
                                            /\ \A a \in 1..b : upBack[own][f][a] <= upBack[own][f][b]
              OBVIOUS
            <7>1. b \in 1..Chunks /\ b \in 1..upDone[u][f] /\ n # 1
              BY <2>2, <6>1
            <7> QED
              BY <2>a, <4>1, <4>4, <7>1 DEF UpFilled
          <6>3. n \in 1..Chunks /\ filled[n] = upData[f]
            BY <2>2, <2>a
          <6>4. CASE c = n
            <7>1. ASSUME NEW b \in 1..c PROVE filled[b] <= upData[f]
              <8>1. CASE b = n
                BY <5>1, <6>3, <8>1
              <8>2. CASE b # n
                <9>1. filled[b] \in upFrom[u][f]..upData[f]
                  BY <6>0, <6>2, <8>2
                <9> QED
                  BY <5>1, <9>1
              <8> QED
                BY <8>1, <8>2
            <7> QED
              BY <5>1, <6>3, <6>4, <7>1
          <6>5. CASE c # n
            <7>1. \A b \in 1..c : b # n
              BY <2>2, <6>5
            <7> QED
              BY <6>0, <6>2, <6>5, <7>1
          <6> QED
            BY <6>4, <6>5
        <5> QED
          BY <2>5, <2>b, <4>4, <5>1, <5>2 DEF UpFilled
      <4> QED
        BY <4>2, <4>3, <4>4
    <3> QED
      BY <2>1, <3>1, <3>2 DEF UpCopied
  <2> HIDE DEF n, own
  <2> QED
    BY <2>c, <2>3, <2>4, <2>6, <2>7
<1>6. ASSUME NEW u \in Updaters, UpRecheck(u) PROVE UpInv'
  <2>1. /\ upPc[u] = "recheck" /\ NeedsUpdate(Tag(upLatest), Tag(upCurrent[u]))
        /\ upTag' = [upTag EXCEPT ![u] = upLatest] /\ upPc' = [upPc EXCEPT ![u] = "open"]
        /\ UNCHANGED <<upCurrent, copyVars, upOpen, upBegun, upLatest, upData, upFile, upBin, upNew, upMade, upOverlap>>
    BY <1>6 DEF UpRecheck, UpGo, worldVars, dirVars
  <2>2. upLatest \in Versions /\ upCurrent[u] \in Versions /\ upLatest > upCurrent[u]
    <3>1. upCurrent[u] \in Versions /\ upLatest \in Versions \cup {NoVersion} /\ Tag(upLatest) # <<>>
      BY <2>1 DEF UpTypeOK, NeedsUpdate
    <3>2. upLatest \in Versions
      BY <3>1 DEF Tag
    <3>3. Tag(upLatest) = Published[upLatest] /\ Tag(upCurrent[u]) = Published[upCurrent[u]]
      BY <3>1, <3>2 DEF Tag
    <3> QED
      BY <2>1, <3>1, <3>2, <3>3, NewerIsLater
  <2>3. UpTypeOK'
    BY <2>1, <2>2 DEF UpTypeOK, copyVars
  <2>4. \A v \in Updaters : upPc'[v] = (IF v = u THEN "open" ELSE upPc[v]) /\ upTag'[v] = (IF v = u THEN upLatest ELSE upTag[v])
    BY <2>1 DEF UpTypeOK, copyVars
  <2>5. UpNamed' /\ UpOneLoads'
    <3>1. \A v \in Updaters : upPc'[v] # "open" => upPc'[v] = upPc[v] /\ upTag'[v] = upTag[v]
      BY <2>4
    <3> QED
      BY <2>1, <3>1 DEF UpNamed, UpOneLoads, UpLoading
  <2>6. UpCounted'
    <3>1. UpAhead' \subseteq UpAhead
      BY <2>1, <2>4 DEF UpAhead
    <3> QED
      BY <2>1, <3>1, UpCountedKept DEF UpTypeOK, copyVars
  <2>7. UpPlaced' /\ UpCopied' /\ UpNewer'
    <3>1. \A v \in Updaters : upPc'[v] = upPc[v] \/ (upPc[v] = "recheck" /\ upPc'[v] = "open")
      BY <2>1, <2>4
    <3>2. UpPlaced' /\ UpCopied'
      BY <2>1, <3>1, UpCopiedKept DEF UpBefore, UpPast
    <3>3. UpNewer'
      BY <2>1, <2>2, <2>4 DEF UpNewer
    <3> QED
      BY <3>2, <3>3
  <2> QED
    BY <2>3, <2>5, <2>6, <2>7
<1>7. ASSUME NEW u \in Updaters, UpCreate(u) PROVE UpInv'
  <2> DEFINE i == IF upNew = NoInode THEN upMade + 1 ELSE upNew
             made == IF upNew = NoInode THEN upMade + 1 ELSE upMade
             file == [ver |-> upTag[u], part |-> "part"]
  <2>1. /\ upPc[u] = "open" /\ upPc' = [upPc EXCEPT ![u] = "download"] /\ upOpen' = [upOpen EXCEPT ![u] = i]
        /\ upNew' = i /\ upMade' = made /\ upFile' = [upFile EXCEPT ![i] = file] /\ upOverlap' = (upOverlap \/ Busy(u))
        /\ UNCHANGED <<upCurrent, upTag, copyVars, upBegun, upLatest, upData, upBin>>
    BY <1>7 DEF UpCreate, UpGo, worldVars
  <2>2. /\ IsFiniteSet(UpAhead) /\ u \in UpAhead /\ IsFiniteSet(UpAhead \ {u}) /\ Cardinality(UpAhead) \in Nat
        /\ Cardinality(UpAhead \ {u}) = Cardinality(UpAhead) - 1
    BY <2>1, FS_RemoveElement, FS_CardinalityType DEF UpAhead, UpCounted
  <2>3. Cardinality(UpAhead) > 0
    BY <2>2, FS_CardinalityType
  <2>4. /\ upMade \in Nat /\ upBegun \in Nat /\ upBegun <= MaxUpdates /\ upMade + Cardinality(UpAhead) <= upBegun
        /\ upMade + 1 \in Inodes
    BY <2>2, <2>3 DEF UpCounted, UpTypeOK, Inodes
  <2>5. i \in Inodes /\ made \in Inodes /\ i <= made /\ i # upBin /\ upBin <= made /\ made <= upMade + 1 /\ i # NoInode
    BY <2>4 DEF UpNamed, UpTypeOK
  <2>6. file \in [ver : Versions, part : Parts] /\ file.ver = upTag[u]
    BY DEF UpTypeOK, Parts
  <2> HIDE DEF i, made, file
  <2>7. UpTypeOK'
    <3>1. upOverlap' \in BOOLEAN
      BY <2>1 DEF UpTypeOK, copyVars
    <3> QED
      BY <2>1, <2>5, <2>6, <3>1 DEF UpTypeOK, copyVars
  <2>8. \A v \in Updaters : upPc'[v] = (IF v = u THEN "download" ELSE upPc[v]) /\ upOpen'[v] = (IF v = u THEN i ELSE upOpen[v])
    BY <2>1 DEF UpTypeOK, copyVars
  <2>9. UpNamed'
    BY <2>1, <2>5, <2>8 DEF UpNamed
  <2>10. UpOneLoads'
    <3> SUFFICES ASSUME ~upOverlap' PROVE UpOneLoads'
      BY DEF UpOneLoads
    <3>1. ~upOverlap /\ \A v \in Updaters \ {u} : upPc[v] \notin UpLoading
      BY <2>1 DEF Busy, UpLoading
    <3>2. \A v \in Updaters : upPc'[v] \in UpLoading => v = u
      BY <2>8, <3>1
    <3>3. upFile'[upBin'].part = "whole"
      BY <2>1, <2>5, <3>1 DEF UpOneLoads, UpTypeOK
    <3>4. upOpen'[u] = upNew' /\ upNew' \in Inodes /\ upPc'[u] = "download"
      BY <2>1, <2>5, <2>8
    <3>5. \A v \in Updaters : upPc'[v] \notin {"verify", "swap"}
      BY <3>2, <3>4 DEF UpLoading
    <3> QED
      BY <3>2, <3>3, <3>4, <3>5 DEF UpOneLoads
  <2>11. UpCounted'
    <3>1. UpAhead' = UpAhead \ {u}
      BY <2>8 DEF UpAhead
    <3> QED
      BY <2>1, <2>2, <2>4, <2>5, <3>1 DEF UpCounted
  <2>12. UpPlaced' /\ UpCopied' /\ UpNewer'
    <3>1. \A v \in Updaters : upPc'[v] = upPc[v] \/ (upPc[v] = "open" /\ upPc'[v] = "download")
      BY <2>1, <2>8
    <3>2. UpPlaced' /\ UpCopied'
      BY <2>1, <3>1, UpCopiedKept DEF UpBefore, UpPast
    <3>3. UpNewer'
      BY <2>1, <2>8 DEF UpNewer
    <3> QED
      BY <3>2, <3>3
  <2> QED
    BY <2>7, <2>9, <2>10, <2>11, <2>12
<1>8. ASSUME NEW u \in Updaters, UpDownloaded(u) PROVE UpInv'
  <2> PICK p \in {"small", "whole"} \cup (IF upOverlap THEN {"mixed"} ELSE {}) :
        upFile' = [upFile EXCEPT ![upOpen[u]] = [ver |-> upTag[u], part |-> p]]
    BY <1>8 DEF UpDownloaded
  <2> DEFINE file == [ver |-> upTag[u], part |-> p]
  <2>1. /\ upPc[u] = "download" /\ upPc' = [upPc EXCEPT ![u] = "verify"] /\ upFile' = [upFile EXCEPT ![upOpen[u]] = file]
        /\ UNCHANGED <<upCurrent, upTag, copyVars, upOpen, upBegun, upLatest, upData, upBin, upNew, upMade, upOverlap>>
    BY <1>8 DEF UpDownloaded, UpGo, worldVars
  <2>2. upOpen[u] \in Inodes
    BY <2>1 DEF UpNamed, UpLoading
  <2>3. /\ file \in [ver : Versions, part : Parts] /\ file.ver = upTag[u] /\ (~upOverlap => file.part \in {"small", "whole"})
    BY DEF UpTypeOK, Parts
  <2> HIDE DEF file
  <2>4. UpTypeOK'
    <3>1. upFile' \in [Inodes -> [ver : Versions, part : Parts]]
      BY <2>1, <2>3 DEF UpTypeOK, copyVars
    <3>2. upPc' \in [Updaters -> {"idle", "check", "ask", "mkdir", "backup", "recheck", "open", "download", "verify", "swap"}]
      BY <2>1 DEF UpTypeOK, copyVars
    <3> QED
      BY <2>1, <3>1, <3>2 DEF UpTypeOK, copyVars
  <2>5. \A v \in Updaters : upPc'[v] = (IF v = u THEN "verify" ELSE upPc[v])
    BY <2>1 DEF UpTypeOK, copyVars
  <2>6. UpNamed'
    BY <2>1, <2>2, <2>5 DEF UpNamed
  <2>7. UpOneLoads'
    <3>1. CASE upOverlap
      BY <2>1, <3>1 DEF UpOneLoads
    <3>2. CASE ~upOverlap
      <4>1. upOpen[u] = upNew /\ upNew # upBin /\ upNew \in Inodes /\ upBin \in Inodes
        BY <2>1, <3>2 DEF UpOneLoads, UpNamed, UpLoading, UpTypeOK
      <4>2. upFile'[upNew] = file /\ upFile'[upBin] = upFile[upBin]
        BY <2>1, <4>1 DEF UpTypeOK, copyVars
      <4>3. \A v \in Updaters : upPc'[v] \in UpLoading => v = u
        BY <2>1, <2>5, <3>2 DEF UpOneLoads, UpLoading
      <4>4. \A v \in Updaters : upPc'[v] \in {"verify", "swap"} => v = u /\ upPc'[v] = "verify"
        BY <2>5, <4>3 DEF UpLoading
      <4> QED
        BY <2>1, <2>3, <3>2, <4>1, <4>2, <4>3, <4>4 DEF UpOneLoads
    <3> QED
      BY <3>1, <3>2
  <2>8. UpCounted'
    <3>1. UpAhead' \subseteq UpAhead
      BY <2>1, <2>5 DEF UpAhead
    <3> QED
      BY <2>1, <3>1, UpCountedKept DEF UpTypeOK, copyVars
  <2>9. UpPlaced' /\ UpCopied' /\ UpNewer'
    <3>1. \A v \in Updaters : upPc'[v] = upPc[v] \/ (upPc[v] = "download" /\ upPc'[v] = "verify")
      BY <2>1, <2>5
    <3>2. UpPlaced' /\ UpCopied'
      BY <2>1, <3>1, UpCopiedKept DEF UpBefore, UpPast
    <3>3. UpNewer'
      BY <2>1, <2>5 DEF UpNewer
    <3> QED
      BY <3>2, <3>3
  <2> QED
    BY <2>4, <2>6, <2>7, <2>8, <2>9
<1>9. ASSUME NEW u \in Updaters, UpVerified(u) PROVE UpInv'
  <2>1. /\ upPc[u] = "verify" /\ upFile[upNew].part # "small" /\ upPc' = [upPc EXCEPT ![u] = "swap"]
        /\ UNCHANGED <<upCurrent, upTag, copyVars, upOpen, upBegun, upLatest, upData, upFile, upBin, upNew, upMade, upOverlap>>
    BY <1>9 DEF UpVerified, UpGo, worldVars, dirVars
  <2>2. UpTypeOK'
    BY <2>1 DEF UpTypeOK, copyVars
  <2>3. \A v \in Updaters : upPc'[v] = (IF v = u THEN "swap" ELSE upPc[v])
    BY <2>1 DEF UpTypeOK, copyVars
  <2>4. UpNamed'
    BY <2>1, <2>3 DEF UpNamed, UpLoading
  <2>5. UpOneLoads'
    <3>1. CASE upOverlap
      BY <2>1, <3>1 DEF UpOneLoads
    <3>2. CASE ~upOverlap
      <4>1. \A v \in Updaters : upPc'[v] \in UpLoading => v = u /\ upPc[v] \in UpLoading
        BY <2>1, <2>3, <3>2 DEF UpOneLoads, UpLoading
      <4>2. upFile[upNew].ver = upTag[u] /\ upFile[upNew].part = "whole"
        BY <2>1, <3>2 DEF UpOneLoads
      <4>3. \A v \in Updaters : upPc'[v] \in {"verify", "swap"} => v = u
        BY <4>1 DEF UpLoading
      <4> QED
        BY <2>1, <3>2, <4>1, <4>2, <4>3 DEF UpOneLoads
    <3> QED
      BY <3>1, <3>2
  <2>6. UpCounted'
    <3>1. UpAhead' \subseteq UpAhead
      BY <2>1, <2>3 DEF UpAhead
    <3> QED
      BY <2>1, <3>1, UpCountedKept DEF UpTypeOK, copyVars
  <2>7. UpPlaced' /\ UpCopied' /\ UpNewer'
    <3>1. \A v \in Updaters : upPc'[v] = upPc[v] \/ (upPc[v] = "verify" /\ upPc'[v] = "swap")
      BY <2>1, <2>3
    <3>2. UpPlaced' /\ UpCopied'
      BY <2>1, <3>1, UpCopiedKept DEF UpBefore, UpPast
    <3>3. UpNewer'
      BY <2>1, <2>3 DEF UpNewer
    <3> QED
      BY <3>2, <3>3
  <2> QED
    BY <2>2, <2>4, <2>5, <2>6, <2>7
<1>10. CASE UpRelease
  <2>1. /\ upLatest' \in Versions \cup {NoVersion}
        /\ UNCHANGED <<upPc, upCurrent, upTag, copyVars, upOpen, upBegun, upData, upFile, upBin, upNew, upMade, upOverlap>>
    BY <1>10 DEF UpRelease, dirVars
  <2>2. UpTypeOK'
    BY <2>1 DEF UpTypeOK, copyVars
  <2>3. UpPlaced' /\ UpCopied'
    BY <2>1, UpCopiedKept
  <2> QED
    BY <2>1, <2>2, <2>3 DEF UpNamed, UpOneLoads, UpLoading, UpCounted, UpAhead, UpNewer
<1>11. ASSUME NEW f \in DataFiles, UpWrite(f) PROVE UpInv'
  <2>1. /\ upData[f] < MaxWrites /\ upData' = [upData EXCEPT ![f] = upData[f] + 1]
        /\ UNCHANGED <<upPc, upCurrent, upTag, copyVars, upOpen, upBegun, upLatest, upFile, upBin, upNew, upMade, upOverlap>>
    BY <1>11 DEF UpWrite, dirVars
  <2>2. UpTypeOK'
    <3>1. upData' \in [DataFiles -> Contents]
      BY <2>1 DEF UpTypeOK, Contents
    <3> QED
      BY <2>1, <3>1 DEF UpTypeOK, copyVars
  <2>3. UpNamed' /\ UpOneLoads' /\ UpCounted' /\ UpNewer'
    BY <2>1 DEF UpNamed, UpOneLoads, UpLoading, UpCounted, UpAhead, UpNewer
  <2>4. \A g \in DataFiles : upData[g] \in Nat /\ upData'[g] \in Nat /\ upData[g] <= upData'[g]
    BY <2>1 DEF UpTypeOK, Contents
  <2>5. \A u \in Updaters, g \in DataFiles : upFrom[u][g] \in Nat
    BY DEF UpTypeOK, Contents
  <2>6. UpPlaced'
    BY <2>1 DEF UpPlaced, copyVars
  <2>7. UpCopied'
    <3>1. \A a, x, y \in Nat : \A b \in Nat : x \in a..b /\ b <= y => x \in a..y
      OBVIOUS
    <3>2. ASSUME NEW u \in Updaters, NEW g \in DataFiles, upFrom[u][g] <= upData[g],
                 UpFilled(upBack[upDir[u]][g], upDone[u][g], upFrom[u][g], upData[g])
          PROVE  upFrom[u][g] <= upData'[g] /\ UpFilled(upBack[upDir[u]][g], upDone[u][g], upFrom[u][g], upData'[g])
      BY <2>4, <2>5, <3>2 DEF UpFilled
    <3> QED
      BY <2>1, <3>2 DEF UpCopied, copyVars
  <2> QED
    BY <2>2, <2>3, <2>6, <2>7
<1>12. CASE UNCHANGED upVars
  <2>1. UpTypeOK'
    BY <1>12 DEF upVars, UpTypeOK
  <2>2. UNCHANGED <<copyVars, upData, upPc>>
    BY <1>12 DEF upVars, copyVars
  <2>3. UpPlaced' /\ UpCopied'
    BY <2>2, UpCopiedKept
  <2> QED
    BY <1>12, <2>1, <2>3 DEF upVars, UpNamed, UpOneLoads, UpLoading, UpCounted, UpAhead, UpNewer
<1> QED
  BY <1>1, <1>3, <1>4, <1>5, <1>6, <1>7, <1>8, <1>9, <1>10, <1>11, <1>12 DEF UpNext, UpStep

LEMMA UpInitInv == UpInit => UpInv
<1> SUFFICES ASSUME UpInit PROVE UpInv
  OBVIOUS
<1> USE UpBounds
<1>1. UpTypeOK
  <2>1. 0 \in 0..MaxUpdates
    OBVIOUS
  <2>2. upFile \in [Inodes -> [ver : Versions, part : Parts]]
    BY DEF UpInit, Parts
  <2>3. /\ upDir \in [Updaters -> Dirs \cup {NoDir}] /\ upDone \in [Updaters -> [DataFiles -> 0..Chunks]]
        /\ upBack \in [Dirs -> [DataFiles -> [1..Chunks -> Contents \cup {Missing}]]]
        /\ upFrom \in [Updaters -> [DataFiles -> Contents]] /\ upData \in [DataFiles -> Contents]
    BY DEF UpInit, Unmade
  <2> QED
    BY <2>1, <2>2, <2>3 DEF UpInit, UpTypeOK
<1>2. UpAhead = {}
  BY DEF UpInit, UpAhead
<1>3. UpCounted
  BY <1>2, FS_EmptySet DEF UpInit, UpCounted
<1>4. UpNamed /\ UpOneLoads
  BY DEF UpInit, UpNamed, UpOneLoads, UpLoading, NoInode
<1>5. UpPlaced /\ UpCopied /\ UpNewer
  BY DEF UpInit, UpPlaced, UpBefore, UpPast, UpCopied, UpNewer
<1> QED
  BY <1>1, <1>3, <1>4, <1>5 DEF UpInv

UpSteps == UpInit /\ [][UpNext]_upVars

\* For every number of commands, killed anywhere, of releases published and
\* withdrawn and of data files in use: the binary is a whole download of the
\* release that was looked up, and a later one than before, unless two downloads
\* overlapped; and, unless two of them named the same directory, every chunk of
\* every data file is in the backup as the file had it since the consent, later
\* chunks no older than earlier ones.
THEOREM UpdateSafeAlways == UpSteps => []UpTypeOK /\ UpdateSafe
<1>1. UpInv => UpTypeOK /\ UpBinaryWhole /\ UpBackupKept
  <2> SUFFICES ASSUME UpInv PROVE UpBackupKept
    BY DEF UpInv, UpOneLoads, UpBinaryWhole
  <2> SUFFICES ASSUME NEW u \in Updaters, ~upShared, upPc[u] \in UpPast, NEW f \in DataFiles
               PROVE  /\ \A c \in 1..Chunks : upBack[upDir[u]][f][c] \in upFrom[u][f]..upData[f]
                      /\ \A b, c \in 1..Chunks : b <= c => upBack[upDir[u]][f][b] <= upBack[upDir[u]][f][c]
    BY DEF UpBackupKept, UpPast
  <2>1. upPc[u] \notin UpBefore /\ upDone[u][f] = Chunks
    BY DEF UpInv, UpPlaced, UpPast, UpBefore
  <2>2. UpFilled(upBack[upDir[u]][f], Chunks, upFrom[u][f], upData[f])
    BY <2>1 DEF UpInv, UpCopied
  <2>3. \A b, c \in 1..Chunks : b <= c => b \in 1..c
    OBVIOUS
  <2> QED
    BY <2>2, <2>3 DEF UpFilled
<1>2. UpInv /\ [UpNext]_upVars
      => [\A u \in Updaters : UpSwap(u) =>
            upOverlap \/ (/\ upFile[upBin'].ver = upTag[u]
                          /\ upFile[upBin'].ver > upCurrent[u])]_upVars
  BY DEF UpInv, UpOneLoads, UpNewer, UpSwap
<1> QED
  BY <1>1, <1>2, UpInitInv, UpNextInv, PTL DEF UpSteps, UpdateSafe, UpReplacedRightly

----------------------------------------------------------------------------
(* Session records: what the reader of the log keeps of a key.  A property  *)
(* of 0 that passes from each number to the next holds up to n; with it the *)
(* recursive function of LinesOf is seen to be what its equation says.      *)

LEMMA Least ==
  ASSUME NEW S \in SUBSET Nat, S # {}
  PROVE  \E q \in S : \A r \in S : q <= r
<1>1. PICK q \in S : \A r \in S : ~(<<r, q>> \in OpToRel(<, Nat))
  BY NatLessThanWellFounded, WFMin
<1>2. \A r \in S : ~(r < q)
  BY <1>1 DEF OpToRel
<1> QED
  BY <1>2

LEMMA UpTo ==
  ASSUME NEW n \in Nat, NEW P \in SUBSET Nat, 0 \in P, \A i \in 0..(n - 1) : i \in P => i + 1 \in P
  PROVE  0..n \subseteq P
<1> DEFINE B == {i \in 0..n : i \notin P}
<1>0. SUFFICES ASSUME B # {} PROVE FALSE
  OBVIOUS
<1>1. B \in SUBSET Nat
  OBVIOUS
<1>2. PICK q \in B : \A r \in B : q <= r
  <2> HIDE DEF B
  <2> QED
    BY <1>0, <1>1, Least
<1>3. q \in 0..n /\ q \notin P /\ q # 0
  BY <1>2
<1>4. q - 1 \in 0..(n - 1) /\ q - 1 \in 0..n /\ (q - 1) + 1 = q /\ ~(q <= q - 1)
  BY <1>3
<1>5. q - 1 \notin P
  BY <1>3, <1>4
<1>6. q - 1 \in B
  BY <1>4, <1>5
<1> QED
  BY <1>2, <1>4, <1>6

SeenStep(s, k, seen, i) ==
  IF i = 0 THEN <<>> ELSE IF s[i].key = k THEN Append(seen[i - 1], s[i]) ELSE seen[i - 1]

Seen(s, k) == CHOOSE seen : seen = [i \in 0..Len(s) |-> SeenStep(s, k, seen, i)]

\* A step looks at the step before it only.
LEMMA SeenStepByLast ==
  ASSUME NEW s, NEW k, NEW f, NEW g, NEW i, i # 0, f[i - 1] = g[i - 1]
  PROVE  SeenStep(s, k, f, i) = SeenStep(s, k, g, i)
BY DEF SeenStep

LEMMA SeenIsDefined ==
  ASSUME NEW s, NEW k, Len(s) \in Nat
  PROVE  /\ LinesOf(s, k) = Seen(s, k)[Len(s)]
         /\ \A i \in 0..Len(s) : Seen(s, k)[i] = SeenStep(s, k, Seen(s, k), i)
<1>1. LinesOf(s, k) = Seen(s, k)[Len(s)]
  BY DEF LinesOf, Seen, SeenStep
<1> DEFINE P == {n \in Nat : \E seen : seen = [i \in 0..n |-> SeenStep(s, k, seen, i)]}
<1>2. 0 \in P
  <2> DEFINE seen == [i \in 0..0 |-> <<>>]
  <2>1. seen = [i \in 0..0 |-> SeenStep(s, k, seen, i)]
    BY DEF SeenStep
  <2> HIDE DEF seen
  <2> QED
    BY <2>1
<1>3. ASSUME NEW n \in 0..(Len(s) - 1), n \in P PROVE n + 1 \in P
  <2> PICK old : old = [i \in 0..n |-> SeenStep(s, k, old, i)]
    BY <1>3
  <2> DEFINE seen == [i \in 0..(n + 1) |-> IF i = n + 1 THEN SeenStep(s, k, old, i) ELSE old[i]]
  <2>1. ASSUME NEW i \in 0..(n + 1) PROVE seen[i] = SeenStep(s, k, seen, i)
    <3>1. CASE i = 0
      BY <3>1 DEF SeenStep
    <3>2. CASE i # 0
      <4>1. i - 1 \in 0..n /\ i - 1 # n + 1 /\ seen[i - 1] = old[i - 1]
        BY <3>2
      <4>2. SeenStep(s, k, seen, i) = SeenStep(s, k, old, i)
        BY <3>2, <4>1, SeenStepByLast
      <4>3. CASE i = n + 1
        BY <4>2, <4>3
      <4>4. CASE i # n + 1
        <5>1. i \in 0..n
          BY <4>4
        <5>2. seen[i] = old[i] /\ old[i] = SeenStep(s, k, old, i)
          BY <4>4, <5>1
        <5> QED
          BY <4>2, <5>2
      <4> QED
        BY <4>3, <4>4
    <3> QED
      BY <3>1, <3>2
  <2>2. seen = [i \in 0..(n + 1) |-> seen[i]]
    OBVIOUS
  <2> HIDE DEF seen
  <2>3. seen = [i \in 0..(n + 1) |-> SeenStep(s, k, seen, i)]
    BY <2>1, <2>2
  <2> QED
    BY <2>3
<1>4. Len(s) \in P
  <2> HIDE DEF P
  <2>1. P \in SUBSET Nat
    BY DEF P
  <2>2. 0..Len(s) \subseteq P
    <3>1. \A i \in 0..(Len(s) - 1) : i \in P => i + 1 \in P
      BY <1>3
    <3> QED
      BY <1>2, <2>1, <3>1, UpTo
  <2> QED
    BY <2>2
<1>5. Seen(s, k) = [i \in 0..Len(s) |-> SeenStep(s, k, Seen(s, k), i)]
  BY <1>4, Zenon DEF Seen
<1>6. ASSUME NEW i \in 0..Len(s) PROVE Seen(s, k)[i] = SeenStep(s, k, Seen(s, k), i)
  <2> DEFINE seen == Seen(s, k)
  <2>1. seen = [j \in 0..Len(s) |-> SeenStep(s, k, seen, j)]
    BY <1>5
  <2> HIDE DEF seen
  <2>2. seen[i] = SeenStep(s, k, seen, i)
    BY <2>1
  <2> QED
    BY <2>2 DEF seen
<1> QED
  BY <1>1, <1>6

\* What is kept are lines, all of the key.
LEMMA LinesOfTyped ==
  ASSUME NEW S, NEW s \in Seq(S), NEW k
  PROVE  LinesOf(s, k) \in Seq({e \in S : e.key = k})
<1> DEFINE T == {e \in S : e.key = k}
           seen == Seen(s, k)
           P == {i \in Nat : i \in 0..Len(s) => seen[i] \in Seq(T)}
<1>1. Len(s) \in Nat /\ LinesOf(s, k) = seen[Len(s)] /\ \A i \in 0..Len(s) : seen[i] = SeenStep(s, k, seen, i)
  BY SeenIsDefined
<1> HIDE DEF seen
<1>2. 0 \in P
  <2>1. 0 \in 0..Len(s) /\ <<>> \in Seq(T)
    BY <1>1
  <2>2. seen[0] = <<>>
    BY <1>1, <2>1 DEF SeenStep
  <2> QED
    BY <2>1, <2>2
<1>3. ASSUME NEW i \in 0..(Len(s) - 1), i \in P PROVE i + 1 \in P
  <2>1. i \in 0..Len(s) /\ i + 1 \in 0..Len(s) /\ i + 1 # 0 /\ (i + 1) - 1 = i /\ i + 1 \in DOMAIN s /\ s[i + 1] \in S
    BY <1>1
  <2>2. seen[i] \in Seq(T) /\ seen[i + 1] = IF s[i + 1].key = k THEN Append(seen[i], s[i + 1]) ELSE seen[i]
    BY <1>1, <1>3, <2>1 DEF SeenStep
  <2>3. seen[i + 1] \in Seq(T)
    <3> DEFINE e == s[i + 1]
    <3>1. e.key = k => e \in T
      BY <2>1
    <3> HIDE DEF T, e
    <3>2. e.key = k => Append(seen[i], e) \in Seq(T)
      BY <2>2, <3>1
    <3> QED
      BY <2>2, <3>2 DEF e
  <2> QED
    BY <2>3
<1>4. Len(s) \in P
  <2>1. P \in SUBSET Nat
    OBVIOUS
  <2> HIDE DEF P
  <2>2. \A i \in 0..(Len(s) - 1) : i \in P => i + 1 \in P
    BY <1>3
  <2>3. 0..Len(s) \subseteq P
    BY <1>1, <1>2, <2>1, <2>2, UpTo
  <2> QED
    BY <1>1, <2>3
<1> QED
  BY <1>1, <1>4

\* One more line is kept behind the others if it is of the key.
LEMMA LinesOfAppend ==
  ASSUME NEW S, NEW s \in Seq(S), NEW e \in S, NEW k
  PROVE  LinesOf(Append(s, e), k) = IF e.key = k THEN Append(LinesOf(s, k), e) ELSE LinesOf(s, k)
<1> DEFINE t == Append(s, e)
           a == Seen(s, k)
           b == Seen(t, k)
           n == Len(s)
           P == {i \in Nat : i \in 0..n => a[i] = b[i]}
<1>1. n \in Nat /\ Len(t) = n + 1 /\ Len(t) \in Nat /\ t[n + 1] = e /\ \A i \in 1..n : t[i] = s[i]
  OBVIOUS
<1>2. /\ LinesOf(s, k) = a[n] /\ \A i \in 0..n : a[i] = SeenStep(s, k, a, i)
      /\ LinesOf(t, k) = b[n + 1] /\ \A i \in 0..(n + 1) : b[i] = SeenStep(t, k, b, i)
  <2>1. LinesOf(t, k) = b[Len(t)] /\ \A i \in 0..Len(t) : b[i] = SeenStep(t, k, b, i)
    BY <1>1, SeenIsDefined
  <2> QED
    BY <1>1, <2>1, SeenIsDefined
<1> HIDE DEF a, b, t, n
<1>3. 0 \in P
  BY <1>1, <1>2 DEF SeenStep
<1>4. ASSUME NEW i \in 0..(n - 1), i \in P PROVE i + 1 \in P
  <2>1. i \in 0..n /\ i + 1 \in 0..n /\ i + 1 \in 0..(n + 1) /\ i + 1 # 0 /\ (i + 1) - 1 = i /\ i + 1 \in 1..n
    BY <1>1
  <2>2. a[i] = b[i] /\ t[i + 1] = s[i + 1]
    BY <1>1, <1>4, <2>1
  <2>3. a[i + 1] = IF s[i + 1].key = k THEN Append(a[i], s[i + 1]) ELSE a[i]
    BY <1>2, <2>1 DEF SeenStep
  <2>4. b[i + 1] = IF t[i + 1].key = k THEN Append(b[i], t[i + 1]) ELSE b[i]
    BY <1>2, <2>1 DEF SeenStep
  <2> QED
    BY <2>2, <2>3, <2>4
<1>5. n \in P
  <2>1. P \in SUBSET Nat
    OBVIOUS
  <2> HIDE DEF P
  <2>2. \A i \in 0..(n - 1) : i \in P => i + 1 \in P
    BY <1>4
  <2>3. 0..n \subseteq P
    BY <1>1, <1>3, <2>1, <2>2, UpTo
  <2> QED
    BY <1>1, <2>3
<1>6. a[n] = b[n]
  BY <1>1, <1>5
<1>7. b[n + 1] = IF t[n + 1].key = k THEN Append(b[n], t[n + 1]) ELSE b[n]
  <2>1. n + 1 \in 0..(n + 1) /\ n + 1 # 0 /\ (n + 1) - 1 = n
    BY <1>1
  <2> QED
    BY <1>2, <2>1 DEF SeenStep
<1> QED
  BY <1>1, <1>2, <1>6, <1>7 DEF t

LEMMA LinesOfNothing ==
  ASSUME NEW k
  PROVE  LinesOf(<<>>, k) = <<>>
<1>1. Len(<<>>) = 0 /\ 0 \in 0..0
  OBVIOUS
<1> QED
  BY <1>1, SeenIsDefined DEF SeenStep

\* A file that is not empty is its last line behind the lines before.
LEMMA FrontAndLast ==
  ASSUME NEW S, NEW s \in Seq(S), s # <<>>
  PROVE  /\ Front(s) \in Seq(S) /\ Last(s) \in S /\ Append(Front(s), Last(s)) = s
         /\ Len(s) \in Nat /\ Len(s) > 0 /\ Len(Front(s)) = Len(s) - 1 /\ DOMAIN s = 1..Len(s) /\ DOMAIN Front(s) = 1..(Len(s) - 1)
         /\ \A i \in DOMAIN Front(s) : Front(s)[i] = s[i]
         /\ Last(s) = s[Len(s)]
<1>1. Len(s) \in Nat /\ Len(s) > 0 /\ Len(s) - 1 \in 0..Len(s)
  OBVIOUS
<1>2. Front(s) \in Seq(S) /\ Len(Front(s)) = Len(s) - 1 /\ \A i \in 1..(Len(s) - 1) : Front(s)[i] = s[i]
  <2> DEFINE f == SubSeq(s, 1, Len(s) - 1)
  <2> DEFINE n == Len(s) - 1
  <2>0. 1 \in Int /\ n \in Int /\ n >= 0 /\ \A i \in 1..n : s[i] \in S
    BY <1>1
  <2>4. n - 1 + 1 = n /\ (1 <= n \/ n = 0) /\ \A i \in 1..n : 1 + i - 1 = i
    BY <1>1
  <2> HIDE DEF n
  <2>5. /\ f \in Seq(S) /\ Len(f) = IF 1 <= n THEN n - 1 + 1 ELSE 0
        /\ \A i \in 1..(n - 1 + 1) : f[i] = s[1 + i - 1]
    <3>1. f = SubSeq(s, 1, n)
      BY DEF n
    <3> QED
      BY <3>1, <2>0, SubSeqProperties
  <2>6. Len(f) = n
    BY <2>0, <2>4, <2>5
  <2>1. f \in Seq(S) /\ Len(f) = Len(s) - 1
    BY <2>5, <2>6 DEF n
  <2>2. \A i \in 1..(Len(s) - 1) : f[i] = s[i]
    BY <2>4, <2>5 DEF n
  <2>3. Front(s) = f
    BY DEF Front
  <2> QED
    BY <2>1, <2>2, <2>3
<1>3. Last(s) \in S /\ Last(s) = s[Len(s)]
  BY <1>1 DEF Last
<1>4. Append(Front(s), Last(s)) = s
  <2> DEFINE t == Append(Front(s), Last(s))
  <2>1. t \in Seq(S) /\ Len(t) = Len(s)
    BY <1>1, <1>2, <1>3
  <2>2. ASSUME NEW i \in 1..Len(t) PROVE t[i] = s[i]
    <3>1. CASE i = Len(s)
      BY <1>1, <1>2, <1>3, <3>1
    <3>2. CASE i # Len(s)
      <4>1. i \in 1..(Len(s) - 1)
        BY <2>1, <3>2
      <4> QED
        BY <1>1, <1>2, <1>3, <4>1
    <3> QED
      BY <3>1, <3>2
  <2> HIDE DEF t
  <2>3. t = s
    BY <2>1, <2>2, SeqEqual
  <2> QED
    BY <2>3 DEF t
<1> QED
  BY <1>1, <1>2, <1>3, <1>4

LEMMA PrefixOfMore ==
  ASSUME NEW S, NEW s \in Seq(S), NEW e \in S
  PROVE  IsPrefix(s, s) /\ IsPrefix(s, Append(s, e))
<1>1. Len(s) \in Nat /\ Append(s, e) \in Seq(S) /\ Len(Append(s, e)) = Len(s) + 1
  OBVIOUS
<1> DEFINE a == SubSeq(s, 1, Len(s))
           b == SubSeq(Append(s, e), 1, Len(s))
<1>2. /\ a \in Seq(S) /\ Len(a) = Len(s) /\ \A i \in 1..Len(s) : a[i] = s[i]
      /\ b \in Seq(S) /\ Len(b) = Len(s) /\ \A i \in 1..Len(s) : b[i] = s[i]
  BY <1>1
<1>3. a = b
  <2> HIDE DEF a, b
  <2> QED
    BY <1>2, SeqEqual
<1> QED
  BY <1>1, <1>3 DEF IsPrefix

----------------------------------------------------------------------------
(* Session records: the inductive invariant.                                *)

Torn == IF tail = "clean" THEN 0 ELSE 1

\* What was reported as appended is of a session that exists.
StAckedKnown == \A e \in acked : Exists(e.key) /\ e.msg <= count

\* The line without newline is not one that was reported as appended.
StLastUnacked == tail = "whole" => log # <<>> /\ Last(log) \notin acked

\* A cut that nothing has been written onto yet has cost nothing yet.
StLossCounted == IsFiniteSet(acked) /\ Cardinality(Lost) + Torn <= tears

\* A session that is not there has no lines, but for a Fork's.
StNoneYet == \A k \in Keys \ damaged : ~Exists(k) /\ k # fork.child => Of(k) = <<>>

\* What a Fork has written and what it has still to write are the parent's events.
StForkExact ==
  fork.child \notin damaged =>
    /\ Len(Of(fork.child)) + Len(fork.copies) = Len(Of(fork.parent))
    /\ \A i \in DOMAIN Of(fork.child) : Of(fork.child)[i].msg = Of(fork.parent)[i].msg
    /\ \A i \in DOMAIN fork.copies :
         /\ fork.copies[i].seq = Len(Of(fork.child)) + i
         /\ fork.copies[i].msg = Of(fork.parent)[Len(Of(fork.child)) + i].msg

StForkRight ==
  \/ fork = NoFork
  \/ /\ fork.child \in Keys /\ fork.parent \in Keys
     /\ Exists(fork.parent) /\ ~Exists(fork.child)
     /\ \A i \in DOMAIN fork.copies : fork.copies[i].key = fork.child
     /\ StForkExact

Present == {k \in Keys : Exists(k)}

\* A session is changed once, when it is archived; a child is one deeper than a
\* session that was there before it.
StRecords ==
  \A k \in Present : /\ ~sess[k].archived => sess[k].rev = 1
                     /\ sess[k].depth + 1 <= Cardinality(Present)

StInv == /\ StTypeOK /\ StAckedKnown /\ StLastUnacked /\ StLossCounted
         /\ Numbered /\ AckedInOrder /\ StNoneYet /\ StForkRight /\ StRecords

LEMMA OfTyped ==
  ASSUME StTypeOK, NEW k
  PROVE  /\ Of(k) \in Seq({e \in Line : e.key = k}) /\ Of(k) \in Seq(Line)
         /\ Len(Of(k)) \in Nat /\ DOMAIN Of(k) = 1..Len(Of(k))
         /\ \A i \in DOMAIN Of(k) : Of(k)[i] \in Line /\ Of(k)[i].seq \in Nat
                                    /\ Of(k)[i].msg \in 1..MaxAppends
<1> DEFINE T == {e \in Line : e.key = k}
<1>1. Of(k) \in Seq(T)
  BY LinesOfTyped DEF StTypeOK, Of
<1>2. ASSUME NEW s \in Seq(T)
      PROVE  /\ s \in Seq(Line) /\ Len(s) \in Nat /\ DOMAIN s = 1..Len(s)
             /\ \A i \in DOMAIN s : s[i] \in Line /\ s[i].seq \in Nat /\ s[i].msg \in 1..MaxAppends
  <2>1. T \subseteq Line /\ \A e \in T : e \in Line /\ e.seq \in Nat /\ e.msg \in 1..MaxAppends
    BY DEF Line
  <2> HIDE DEF T
  <2>2. s \in Seq(Line)
    BY <2>1
  <2> QED
    BY <2>1, <2>2
<1> QED
  BY <1>1, <1>2

\* The next number is higher than those of the session; where the events are
\* numbered it is the next one.
LEMMA NextSeqRight ==
  ASSUME StTypeOK, NEW k
  PROVE  /\ NextSeq(k) \in Nat
         /\ \A i \in DOMAIN Of(k) : Of(k)[i].seq < NextSeq(k)
         /\ (\A i \in DOMAIN Of(k) : Of(k)[i].seq = i) => NextSeq(k) = Len(Of(k)) + 1
<1> DEFINE s == Of(k)
           seqs == {s[i].seq : i \in DOMAIN s}
           top == CHOOSE n \in seqs : \A m \in seqs : m <= n
<1>1. Len(s) \in Nat /\ DOMAIN s = 1..Len(s) /\ \A i \in DOMAIN s : s[i].seq \in Nat
  BY OfTyped
<1>2. NextSeq(k) = IF seqs = {} THEN 1 ELSE 1 + top
  BY DEF NextSeq
<1> HIDE DEF s
<1>3. CASE Len(s) = 0
  <2>1. seqs = {}
    BY <1>1, <1>3
  <2> QED
    BY <1>2, <1>3, <2>1 DEF s
<1>4. CASE Len(s) > 0
  <2> DEFINE P == {i \in Nat : i \in 1..Len(s) => \E n \in 1..i : \A m \in 1..i : s[m].seq <= s[n].seq}
  <2>1. 0 \in P /\ P \in SUBSET Nat
    OBVIOUS
  <2>2. ASSUME NEW i \in 0..(Len(s) - 1), i \in P PROVE i + 1 \in P
    <3>1. i \in Nat /\ i + 1 \in 1..Len(s) /\ s[i + 1].seq \in Nat
      BY <1>1
    <3>2. CASE i = 0
      <4>1. 1 \in 1..(i + 1) /\ \A m \in 1..(i + 1) : m = 1
        BY <3>2
      <4>2. \A m \in 1..(i + 1) : s[m].seq <= s[1].seq
        BY <3>1, <3>2, <4>1
      <4> QED
        BY <3>1, <4>1, <4>2
    <3>3. CASE i # 0
      <4>1. PICK n \in 1..i : \A m \in 1..i : s[m].seq <= s[n].seq
        BY <1>1, <2>2, <3>1, <3>3
      <4>2. n \in 1..Len(s) /\ n \in 1..(i + 1) /\ i + 1 \in 1..(i + 1)
            /\ \A m \in 1..(i + 1) : m \in 1..Len(s) /\ (m \in 1..i \/ m = i + 1)
        BY <1>1, <3>1
      <4>3. \A m \in 1..(i + 1) : s[m].seq \in Nat
        BY <1>1, <4>2
      <4>4. CASE s[n].seq <= s[i + 1].seq
        <5>1. \A m \in 1..(i + 1) : s[m].seq <= s[i + 1].seq
          BY <4>1, <4>2, <4>3, <4>4
        <5> QED
          BY <3>1, <4>2, <5>1
      <4>5. CASE ~(s[n].seq <= s[i + 1].seq)
        <5>1. \A m \in 1..(i + 1) : s[m].seq <= s[n].seq
          BY <4>1, <4>2, <4>3, <4>5
        <5> QED
          BY <3>1, <4>2, <5>1
      <4> QED
        BY <4>4, <4>5
    <3> QED
      BY <3>2, <3>3
  <2>3. Len(s) \in P
    <3> HIDE DEF P
    <3>1. \A i \in 0..(Len(s) - 1) : i \in P => i + 1 \in P
      BY <2>2
    <3>2. 0..Len(s) \subseteq P
      BY <1>1, <2>1, <3>1, UpTo
    <3>3. Len(s) \in 0..Len(s)
      BY <1>1
    <3> QED
      BY <3>2, <3>3
  <2>4. PICK n \in 1..Len(s) : \A m \in 1..Len(s) : s[m].seq <= s[n].seq
    BY <1>1, <1>4, <2>3
  <2>5. s[n].seq \in seqs /\ \A m \in seqs : m <= s[n].seq
    BY <1>1, <2>4
  <2>6. seqs \in SUBSET Nat
    BY <1>1
  <2>7. seqs # {} /\ top \in seqs /\ \A m \in seqs : m <= top
    <3> HIDE DEF seqs
    <3> QED
      BY <2>5
  <2>8. ASSUME \A i \in DOMAIN s : s[i].seq = i PROVE top = Len(s)
    <3>1. seqs = 1..Len(s)
      BY <1>1, <2>8
    <3> HIDE DEF seqs, top
    <3>2. top \in 1..Len(s) /\ Len(s) <= top
      BY <1>1, <1>4, <2>7, <3>1
    <3>3. Len(s) \in Nat
      BY <1>1
    <3> QED
      BY <3>2, <3>3
  <2>9. top \in Nat
    BY <2>6, <2>7
  <2>10. NextSeq(k) = 1 + top
    BY <1>2, <2>7
  <2> HIDE DEF top, seqs
  <2>11. (\A i \in DOMAIN s : s[i].seq = i) => NextSeq(k) = Len(s) + 1
    BY <1>1, <2>8, <2>10
  <2>12. \A i \in DOMAIN s : s[i].seq < NextSeq(k)
    <3>1. \A i \in DOMAIN s : s[i].seq \in seqs
      BY DEF seqs
    <3> QED
      BY <1>1, <2>7, <2>9, <2>10, <3>1
  <2> QED
    BY <2>9, <2>10, <2>11, <2>12 DEF s
<1> QED
  BY <1>1, <1>3, <1>4

----------------------------------------------------------------------------
(* Session records: what a write does to the lines of a session.            *)

\* The file grows by a complete line.
LEMMA OfGrown ==
  ASSUME StTypeOK, NEW e \in Line, log' = Append(log, e), NEW k
  PROVE  Of(k)' = IF e.key = k THEN Append(Of(k), e) ELSE Of(k)
  BY LinesOfAppend DEF StTypeOK, Of

\* Its last line, which had no newline, is continued by another.
LEMMA OfCut ==
  ASSUME StTypeOK, log # <<>>, log' = Front(log), NEW k
  PROVE  /\ Last(log) \in Line /\ Of(k)' \in Seq(Line)
         /\ Of(k) = IF Last(log).key = k THEN Append(Of(k)', Last(log)) ELSE Of(k)'
<1>1. log \in Seq(Line)
  BY DEF StTypeOK
<1>2. Front(log) \in Seq(Line) /\ Last(log) \in Line /\ Append(Front(log), Last(log)) = log
  BY <1>1, FrontAndLast
<1>3. LinesOf(log, k) = IF Last(log).key = k THEN Append(LinesOf(Front(log), k), Last(log))
                                             ELSE LinesOf(Front(log), k)
  <2> DEFINE front == Front(log)
             last == Last(log)
  <2>1. front \in Seq(Line) /\ last \in Line /\ Append(front, last) = log
    BY <1>2
  <2> HIDE DEF front, last
  <2>2. LinesOf(Append(front, last), k) = IF last.key = k THEN Append(LinesOf(front, k), last) ELSE LinesOf(front, k)
    BY <2>1, LinesOfAppend
  <2> QED
    BY <2>1, <2>2 DEF front, last
<1>4. LinesOf(Front(log), k) \in Seq({e \in Line : e.key = k})
  BY <1>2, LinesOfTyped
<1>5. LinesOf(Front(log), k) \in Seq(Line)
  BY <1>4
<1> QED
  BY <1>2, <1>3, <1>5 DEF Of

\* What a write can do to the file.
Grows(e) == tail = "clean" /\ log' = Append(log, e)
Stays    == log' = log
Cuts     == tail = "whole" /\ log # <<>> /\ log' = Front(log)

LEMMA WriteDoes ==
  ASSUME StTypeOK, StLastUnacked, NEW e \in Line, Put(e) \/ PutCut(e)
  PROVE  /\ Grows(e) \/ Stays \/ Cuts
         /\ log' \in Seq(Line) /\ tail' \in {"clean", "part", "whole"}
         /\ Put(e) => tail' = "clean"
         /\ Put(e) /\ tail = "clean" => Grows(e)
<1>1. Grows(e) \/ Stays \/ Cuts
  BY DEF StTypeOK, StLastUnacked, Put, PutCut, Grows, Stays, Cuts
<1>2. tail' \in {"clean", "part", "whole"} /\ (Put(e) => tail' = "clean")
      /\ (Put(e) /\ tail = "clean" => Grows(e))
  BY DEF Put, PutCut, Grows
<1>3. log' \in Seq(Line)
  <2>1. log \in Seq(Line)
    BY DEF StTypeOK
  <2>2. log # <<>> => Front(log) \in Seq(Line)
    BY <2>1, FrontAndLast
  <2> QED
    BY <1>1, <2>1, <2>2 DEF Grows, Stays, Cuts
<1> QED
  BY <1>1, <1>2, <1>3

\* A line that was in the file and is not any more was the last, without newline.
LEMMA WriteSpoils ==
  ASSUME StTypeOK, NEW e \in Line, Grows(e) \/ Stays \/ Cuts, NEW x
  PROVE  /\ (\E i \in DOMAIN log : log[i] = x) =>
              (\E i \in DOMAIN log' : log'[i] = x) \/ (tail = "whole" /\ x = Last(log))
         /\ Grows(e) => \E i \in DOMAIN log' : log'[i] = e
<1>0. log \in Seq(Line)
  BY DEF StTypeOK
<1>1. CASE Grows(e)
  <2>1. log' = Append(log, e) /\ Len(log) \in Nat /\ DOMAIN log = 1..Len(log)
    BY <1>0, <1>1 DEF Grows
  <2>2. DOMAIN log' = 1..(Len(log) + 1) /\ log'[Len(log) + 1] = e /\ \A i \in 1..Len(log) : log'[i] = log[i]
    BY <1>0, <2>1
  <2>3. Len(log) + 1 \in 1..(Len(log) + 1) /\ \A i \in 1..Len(log) : i \in 1..(Len(log) + 1)
    BY <2>1
  <2> QED
    BY <2>1, <2>2, <2>3
<1>2. CASE Stays
  <2>1. Grows(e) => log' = Append(log, e)
    BY DEF Grows
  <2>2. Append(log, e) # log
    <3>1. Len(Append(log, e)) = Len(log) + 1 /\ Len(log) \in Nat
      BY <1>0
    <3> QED
      BY <3>1
  <2> QED
    BY <1>2, <2>1, <2>2 DEF Stays
<1>3. CASE Cuts
  <2>1. /\ tail = "whole" /\ Len(log) \in Nat /\ Len(log) > 0
        /\ DOMAIN log = 1..Len(log) /\ DOMAIN log' = 1..(Len(log) - 1)
        /\ \A i \in DOMAIN log' : log'[i] = log[i]
        /\ Last(log) = log[Len(log)]
    BY <1>0, <1>3, FrontAndLast DEF Cuts
  <2>2. \A i \in 1..Len(log) : i \in 1..(Len(log) - 1) \/ i = Len(log)
    <3>1. Len(log) \in Nat
      BY <2>1
    <3> QED
      BY <3>1
  <2>3. ~Grows(e)
    BY <1>3 DEF Cuts, Grows
  <2> QED
    BY <2>1, <2>2, <2>3
<1> QED
  BY <1>1, <1>2, <1>3

LEMMA NumberedKept ==
  ASSUME StTypeOK, Numbered, damaged \subseteq damaged', NEW e, Stays \/ Cuts \/ Grows(e),
         Grows(e) => e \in Line /\ (e.key \in damaged' \/ e.seq = Len(Of(e.key)) + 1)
  PROVE  Numbered'
<1> SUFFICES ASSUME NEW k \in Keys \ damaged' PROVE (\A i \in DOMAIN Of(k) : Of(k)[i].seq = i)'
  BY DEF Numbered
<1>1. \A i \in DOMAIN Of(k) : Of(k)[i].seq = i
  BY DEF Numbered
<1>2. Of(k) \in Seq(Line) /\ Len(Of(k)) \in Nat /\ DOMAIN Of(k) = 1..Len(Of(k))
  BY OfTyped
<1>3. CASE Stays
  BY <1>1, <1>3 DEF Stays, Of
<1>4. CASE Cuts
  <2>1. /\ Last(log) \in Line /\ Of(k)' \in Seq(Line)
        /\ Of(k) = IF Last(log).key = k THEN Append(Of(k)', Last(log)) ELSE Of(k)'
    BY <1>4, OfCut DEF Cuts
  <2> DEFINE s == Of(k)
             t == Of(k)'
             last == Last(log)
  <2>2. t \in Seq(Line) /\ last \in Line /\ s = (IF last.key = k THEN Append(t, last) ELSE t) /\ \A i \in DOMAIN s : s[i].seq = i
    BY <1>1, <2>1
  <2> HIDE DEF s, t, last
  <2>3. \A i \in DOMAIN t : t[i].seq = i
    <3>1. CASE s = t
      BY <2>2, <3>1
    <3>2. CASE s = Append(t, last)
      <4>1. Len(t) \in Nat /\ DOMAIN t = 1..Len(t) /\ DOMAIN s = 1..(Len(t) + 1) /\ \A i \in 1..Len(t) : s[i] = t[i] /\ i \in 1..(Len(t) + 1)
        BY <2>2, <3>2
      <4> QED
        BY <2>2, <4>1
    <3> QED
      BY <2>2, <3>1, <3>2
  <2> QED
    BY <2>3 DEF t
<1>5. CASE Grows(e)
  <2>1. e \in Line /\ Of(k)' = IF e.key = k THEN Append(Of(k), e) ELSE Of(k)
    BY <1>5, OfGrown DEF Grows
  <2>2. CASE e.key # k
    BY <1>1, <2>1, <2>2
  <2>3. CASE e.key = k
    <3>1. e.seq = Len(Of(k)) + 1 /\ Of(k)' = Append(Of(k), e)
      BY <1>5, <2>1, <2>3
    <3> DEFINE s == Of(k)
               t == Of(k)'
    <3>2. s \in Seq(Line) /\ Len(s) \in Nat /\ t = Append(s, e) /\ e.seq = Len(s) + 1 /\ e \in Line /\ \A i \in 1..Len(s) : s[i].seq = i
      BY <1>1, <1>2, <2>1, <3>1
    <3> HIDE DEF s, t
    <3>3. /\ DOMAIN t = 1..(Len(s) + 1) /\ t[Len(s) + 1] = e /\ \A i \in 1..Len(s) : t[i] = s[i]
          /\ \A i \in 1..(Len(s) + 1) : i \in 1..Len(s) \/ i = Len(s) + 1
      BY <3>2
    <3>4. \A i \in DOMAIN t : t[i].seq = i
      BY <3>2, <3>3
    <3> QED
      BY <3>4 DEF t
  <2> QED
    BY <2>2, <2>3
<1> QED
  BY <1>3, <1>4, <1>5

LEMMA OrderKept ==
  ASSUME StTypeOK, AckedInOrder, NEW e \in Line, Stays \/ Cuts \/ Grows(e),
         acked' \subseteq acked \cup {e}, e \notin acked,
         e \in acked' => \A i \in DOMAIN Of(e.key) : Of(e.key)[i].seq < e.seq
  PROVE  AckedInOrder'
<1> SUFFICES ASSUME NEW k \in Keys
             PROVE  (\A i, j \in DOMAIN Of(k) : i < j /\ Of(k)[j] \in acked => Of(k)[i].seq < Of(k)[j].seq)'
  BY DEF AckedInOrder
<1> DEFINE s == Of(k)
           t == Of(k)'
           last == Last(log)
<1>1. /\ s \in Seq(Line) /\ Len(s) \in Nat /\ DOMAIN s = 1..Len(s)
      /\ \A i \in DOMAIN s : s[i] \in Line /\ s[i].seq \in Nat /\ s[i].key = k
  <2>1. s \in Seq({x \in Line : x.key = k}) /\ s \in Seq(Line) /\ Len(s) \in Nat /\ DOMAIN s = 1..Len(s)
        /\ \A i \in DOMAIN s : s[i] \in Line /\ s[i].seq \in Nat
    BY OfTyped
  <2> HIDE DEF s
  <2>2. \A i \in DOMAIN s : s[i].key = k
    BY <2>1
  <2> QED
    BY <2>1, <2>2
<1>2. \A i \in DOMAIN s : s[i] \in acked' => s[i] \in acked
  <2>1. ASSUME NEW i \in DOMAIN s, s[i] = e, e \in acked' PROVE FALSE
    <3>1. e.key = k /\ e.seq \in Nat
      BY <1>1, <2>1
    <3>2. s[i].seq < e.seq
      BY <2>1, <3>1
    <3> QED
      BY <2>1, <3>1, <3>2
  <2> HIDE DEF s
  <2> QED
    BY <2>1
<1>3. \A i, j \in DOMAIN s : i < j /\ s[j] \in acked' => s[i].seq < s[j].seq
  BY <1>2 DEF AckedInOrder
<1>4. \/ t = s
      \/ t \in Seq(Line) /\ last \in Line /\ s = Append(t, last)
      \/ e.key = k /\ t = Append(s, e)
  <2>1. CASE Stays
    BY <2>1 DEF Stays, Of
  <2>2. CASE Cuts
    BY <2>2, OfCut DEF Cuts
  <2>3. CASE Grows(e)
    BY <2>3, OfGrown DEF Grows
  <2> QED
    BY <2>1, <2>2, <2>3
<1>5. \A i \in DOMAIN s : e.key = k /\ e \in acked' => s[i].seq < e.seq
  OBVIOUS
<1> SUFFICES \A i, j \in DOMAIN t : i < j /\ t[j] \in acked' => t[i].seq < t[j].seq
  OBVIOUS
<1> HIDE DEF s, t, last
<1>6. CASE t = s
  BY <1>3, <1>6
<1>7. CASE t \in Seq(Line) /\ s = Append(t, last)
  <2>1. last \in Line \/ TRUE
    OBVIOUS
  <2>2. Len(t) \in Nat /\ DOMAIN t = 1..Len(t) /\ DOMAIN s = 1..(Len(t) + 1) /\ \A i \in 1..Len(t) : s[i] = t[i] /\ i \in 1..(Len(t) + 1)
    BY <1>7
  <2> QED
    BY <1>3, <2>2
<1>8. CASE e.key = k /\ t = Append(s, e)
  <2>1. /\ DOMAIN t = 1..(Len(s) + 1) /\ t[Len(s) + 1] = e /\ \A i \in 1..Len(s) : t[i] = s[i]
        /\ \A i \in 1..(Len(s) + 1) : i \in 1..Len(s) \/ i = Len(s) + 1
    BY <1>1, <1>8
  <2>2. ASSUME NEW i \in DOMAIN t, NEW j \in DOMAIN t, i < j, t[j] \in acked' PROVE t[i].seq < t[j].seq
    <3>1. i \in 1..Len(s)
      BY <1>1, <2>1, <2>2
    <3>2. CASE j \in 1..Len(s)
      BY <1>1, <1>3, <2>1, <2>2, <3>1, <3>2
    <3>3. CASE j = Len(s) + 1
      BY <1>1, <1>5, <1>8, <2>1, <2>2, <3>1, <3>3
    <3> QED
      BY <2>1, <3>2, <3>3
  <2> QED
    BY <2>2
<1> QED
  BY <1>4, <1>6, <1>7, <1>8

LEMMA NoneKept ==
  ASSUME StTypeOK, StNoneYet, NEW e, Stays \/ Cuts \/ Grows(e),
         Grows(e) => e \in Line /\ (e.key \in damaged' \/ Exists(e.key)' \/ e.key = fork'.child),
         \A k \in Keys \ damaged' : ~Exists(k)' /\ k # fork'.child
                                    => k \notin damaged /\ ~Exists(k) /\ k # fork.child
  PROVE  StNoneYet'
<1> SUFFICES ASSUME NEW k \in Keys \ damaged', ~Exists(k)', k # fork'.child PROVE Of(k)' = <<>>
  BY DEF StNoneYet
<1>1. Of(k) = <<>>
  BY DEF StNoneYet
<1>2. CASE Stays
  BY <1>1, <1>2 DEF Stays, Of
<1>3. CASE Cuts
  <2>1. /\ Last(log) \in Line /\ Of(k)' \in Seq(Line)
        /\ Of(k) = IF Last(log).key = k THEN Append(Of(k)', Last(log)) ELSE Of(k)'
    BY <1>3, OfCut DEF Cuts
  <2>2. Append(Of(k)', Last(log)) # <<>>
    BY <2>1, AppendProperties
  <2> QED
    BY <1>1, <2>1, <2>2
<1>4. CASE Grows(e)
  <2>1. e \in Line /\ Of(k)' = IF e.key = k THEN Append(Of(k), e) ELSE Of(k)
    BY <1>4, OfGrown DEF Grows
  <2> QED
    BY <1>1, <1>4, <2>1
<1> QED
  BY <1>2, <1>3, <1>4

LEMMA LossKept ==
  ASSUME StTypeOK, StLastUnacked, StLossCounted, NEW e \in Line, e \notin acked,
         \/ Put(e) /\ acked' \in {acked, acked \cup {e}} /\ tears' = tears
         \/ PutCut(e) /\ acked' = acked
  PROVE  StLastUnacked' /\ StLossCounted'
<1>1. Grows(e) \/ Stays \/ Cuts
  BY WriteDoes
<1>2. \A x \in acked : (\E i \in DOMAIN log : log[i] = x) => (\E i \in DOMAIN log' : log'[i] = x)
  BY <1>1, WriteSpoils DEF StLastUnacked
<1>3. Lost \subseteq acked /\ Lost' \subseteq acked' /\ Lost' \subseteq Lost \cup {e}
  BY <1>2 DEF Lost
<1>4. acked' = acked \/ Grows(e) => Lost' \subseteq Lost
  <2>1. CASE acked' = acked
    BY <1>2, <2>1 DEF Lost
  <2>2. CASE Grows(e)
    <3>1. \E i \in DOMAIN log' : log'[i] = e
      BY <1>1, <2>2, WriteSpoils
    <3> QED
      BY <1>2, <3>1 DEF Lost
  <2> QED
    BY <2>1, <2>2
<1>5. IsFiniteSet(acked') /\ IsFiniteSet(Lost) /\ IsFiniteSet(Lost') /\ Cardinality(Lost) \in Nat /\ Cardinality(Lost') \in Nat
  <2>1. IsFiniteSet(acked) /\ IsFiniteSet(acked \cup {e})
    BY FS_AddElement DEF StLossCounted
  <2>2. IsFiniteSet(acked')
    BY <2>1
  <2>3. IsFiniteSet(Lost) /\ IsFiniteSet(Lost')
    BY <1>3, <2>1, <2>2, FS_Subset
  <2> QED
    BY <2>2, <2>3, FS_CardinalityType
<1>6. Cardinality(Lost') <= Cardinality(Lost) + 1
  <2>1. IsFiniteSet(Lost \cup {e}) /\ Cardinality(Lost \cup {e}) \in {Cardinality(Lost), Cardinality(Lost) + 1}
    BY <1>5, FS_AddElement
  <2>2. Cardinality(Lost') <= Cardinality(Lost \cup {e})
    BY <1>3, <2>1, FS_Subset
  <2> QED
    BY <1>5, <2>1, <2>2
<1>7. acked' = acked \/ Grows(e) => Cardinality(Lost') <= Cardinality(Lost)
  BY <1>4, <1>5, FS_Subset
<1>8. tears \in Nat /\ Cardinality(Lost) + Torn <= tears /\ Torn \in {0, 1} /\ Torn' \in {0, 1}
  BY DEF StTypeOK, StLossCounted, Torn, StoreBounds
<1>9. CASE Put(e) /\ acked' \in {acked, acked \cup {e}} /\ tears' = tears
  <2>1. tail' = "clean" /\ Torn' = 0 /\ (tail = "clean" => Grows(e)) /\ (tail # "clean" => Torn = 1)
    BY <1>9, WriteDoes DEF Torn
  <2>2. StLastUnacked'
    BY <2>1 DEF StLastUnacked
  <2>3. Cardinality(Lost') + Torn' <= tears'
    <3>1. CASE tail = "clean"
      BY <1>5, <1>7, <1>8, <1>9, <2>1, <3>1
    <3>2. CASE tail # "clean"
      BY <1>5, <1>6, <1>8, <1>9, <2>1, <3>2
    <3> QED
      BY <3>1, <3>2
  <2>4. StLossCounted'
    BY <1>5, <2>3 DEF StLossCounted
  <2> QED
    BY <2>2, <2>4
<1>10. CASE PutCut(e) /\ acked' = acked
  <2>1. tears' = tears + 1 /\ (tail' = "whole" => Grows(e))
    BY <1>10 DEF PutCut, Grows
  <2>2. StLastUnacked'
    <3>1. CASE Grows(e)
      <4>1. log' = Append(log, e) /\ log \in Seq(Line)
        BY <3>1 DEF Grows, StTypeOK
      <4>2. log' \in Seq(Line) /\ log' # <<>> /\ Len(log') = Len(log) + 1 /\ log'[Len(log) + 1] = e
        BY <4>1, AppendProperties
      <4>3. Last(log)' = e
        BY <4>2 DEF Last
      <4> QED
        BY <1>10, <4>2, <4>3 DEF StLastUnacked
    <3>2. CASE ~Grows(e)
      BY <2>1, <3>2 DEF StLastUnacked
    <3> QED
      BY <3>1, <3>2
  <2>3. Cardinality(Lost') + Torn' <= tears'
    <3>1. Cardinality(Lost') <= Cardinality(Lost)
      BY <1>7, <1>10
    <3> QED
      BY <1>5, <1>8, <2>1, <3>1
  <2>4. StLossCounted'
    BY <1>5, <2>3 DEF StLossCounted
  <2> QED
    BY <2>2, <2>4
<1> QED
  BY <1>9, <1>10

----------------------------------------------------------------------------
(* Session records: the steps keep the invariant.                           *)

\* Steps that write nothing to the transcript.
LEMMA QuietInv ==
  ASSUME StInv, UNCHANGED <<log, tail, count, tears, acked>>, damaged \subseteq damaged',
         \A k \in Keys : Exists(k) => Exists(k)'
  PROVE  StAckedKnown' /\ StLastUnacked' /\ StLossCounted' /\ Numbered' /\ AckedInOrder'
<1>1. StAckedKnown'
  <2>1. \A e \in acked : e.key \in Keys
    BY DEF StInv, StTypeOK, Line
  <2> QED
    BY <2>1 DEF StInv, StAckedKnown
<1>2. StLastUnacked' /\ StLossCounted'
  <2>1. Lost' = Lost /\ Torn' = Torn
    BY DEF Lost, Torn
  <2> QED
    BY <2>1 DEF StInv, StLastUnacked, StLossCounted
<1>3. Numbered' /\ AckedInOrder'
  BY DEF StInv, Numbered, AckedInOrder, Of
<1> QED
  BY <1>1, <1>2, <1>3

LEMMA PresentFacts ==
  ASSUME StTypeOK
  PROVE  /\ Present \subseteq Keys /\ IsFiniteSet(Present)
         /\ Cardinality(Present) \in Nat /\ Cardinality(Keys) \in Nat
         /\ Cardinality(Present) <= Cardinality(Keys)
         /\ \A k \in Present : sess[k] \in Session /\ sess[k].rev \in 1..2
                               /\ sess[k].depth \in 0..Cardinality(Keys)
<1>1. Present \subseteq Keys /\ IsFiniteSet(Keys)
  BY KeysAreFew DEF Present
<1>2. IsFiniteSet(Present) /\ Cardinality(Present) <= Cardinality(Keys)
  BY <1>1, FS_Subset
<1>3. Cardinality(Present) \in Nat /\ Cardinality(Keys) \in Nat
  BY <1>1, <1>2, FS_CardinalityType
<1>4. \A k \in Present : sess[k] \in Session
  BY DEF StTypeOK, Present, Exists
<1>5. \A r \in Session : r.rev \in 1..2 /\ r.depth \in 0..Cardinality(Keys)
  BY DEF Session
<1> QED
  BY <1>1, <1>2, <1>3, <1>4, <1>5

\* A record more, one deeper at most than one that was there.
LEMMA RecordMore ==
  ASSUME StTypeOK, StRecords, NEW k \in Keys, ~Exists(k), NEW d \in Nat, d <= Cardinality(Present),
         sess' = [sess EXCEPT ![k] = [rev |-> 1, archived |-> FALSE, depth |-> d]]
  PROVE  /\ sess' \in [Keys -> Session \cup {NoSession}]
         /\ Exists(k)'
         /\ \A j \in Keys : j # k => sess'[j] = sess[j] /\ (Exists(j)' <=> Exists(j))
         /\ StRecords'
<1> DEFINE r == [rev |-> 1, archived |-> FALSE, depth |-> d]
<1>1. IsFiniteSet(Present) /\ Cardinality(Present) \in Nat /\ Cardinality(Keys) \in Nat
  BY PresentFacts
<1>2. Cardinality(Present \cup {k}) = Cardinality(Present) + 1 /\ Cardinality(Present \cup {k}) <= Cardinality(Keys)
  <2>1. k \notin Present /\ Present \cup {k} \subseteq Keys
    BY DEF Present
  <2>2. Cardinality(Present \cup {k}) = Cardinality(Present) + 1
    BY <1>1, <2>1, FS_AddElement
  <2>3. Cardinality(Present \cup {k}) <= Cardinality(Keys)
    BY <2>1, KeysAreFew, FS_Subset
  <2> QED
    BY <2>2, <2>3
<1>3. r \in Session /\ r # NoSession /\ ~r.archived /\ r.rev = 1 /\ r.depth = d
  <2>1. d \in 0..Cardinality(Keys)
    BY <1>1, <1>2
  <2>2. r.rev # NoSession.rev
    BY DEF NoSession
  <2> QED
    BY <2>1, <2>2 DEF Session
<1> HIDE DEF r
<1>4. sess' \in [Keys -> Session \cup {NoSession}] /\ sess'[k] = r /\ \A j \in Keys : j # k => sess'[j] = sess[j]
  <2>1. sess \in [Keys -> Session \cup {NoSession}] /\ sess' = [sess EXCEPT ![k] = r]
    BY DEF StTypeOK, r
  <2> QED
    BY <1>3, <2>1
<1>5. Exists(k)' /\ \A j \in Keys : j # k => (Exists(j)' <=> Exists(j))
  BY <1>3, <1>4 DEF Exists
<1>6. Present' = Present \cup {k}
  BY <1>5 DEF Present
<1>7. StRecords'
  <2> SUFFICES ASSUME NEW j \in Present \cup {k}
               PROVE  (~sess'[j].archived => sess'[j].rev = 1) /\ sess'[j].depth + 1 <= Cardinality(Present \cup {k})
    BY <1>6 DEF StRecords
  <2>1. CASE j = k
    BY <1>1, <1>2, <1>3, <1>4, <2>1
  <2>2. CASE j # k
    <3>1. j \in Present /\ sess'[j] = sess[j]
      BY <1>4, <2>2 DEF Present
    <3>2. sess[j].depth \in 0..Cardinality(Keys) /\ sess[j].depth + 1 <= Cardinality(Present)
      BY <3>1, PresentFacts DEF StRecords
    <3>3. ~sess[j].archived => sess[j].rev = 1
      BY <3>1 DEF StRecords
    <3>4. sess[j].depth + 1 <= Cardinality(Present \cup {k})
      BY <1>1, <1>2, <3>2
    <3> QED
      BY <3>1, <3>3, <3>4
  <2> QED
    BY <2>1, <2>2
<1> QED
  BY <1>4, <1>5, <1>7

LEMMA CreateInv ==
  ASSUME StInv, NEW k \in Keys, Create(k, 0)
  PROVE  StInv'
<1>1. /\ Unlocked /\ ~Exists(k) /\ sess' = [sess EXCEPT ![k] = [rev |-> 1, archived |-> FALSE, depth |-> 0]]
      /\ UNCHANGED <<log, tail, jammed, fork, held, count, tears, acked, damaged>>
  BY DEF Create
<1>2. 0 \in Nat /\ 0 <= Cardinality(Present)
  BY PresentFacts DEF StInv
<1>3. /\ sess' \in [Keys -> Session \cup {NoSession}]
      /\ Exists(k)' /\ \A j \in Keys : j # k => sess'[j] = sess[j] /\ (Exists(j)' <=> Exists(j))
      /\ StRecords'
  BY <1>1, <1>2, RecordMore DEF StInv
<1>4. StTypeOK'
  BY <1>1, <1>3 DEF StInv, StTypeOK
<1>5. StAckedKnown' /\ StLastUnacked' /\ StLossCounted' /\ Numbered' /\ AckedInOrder'
  BY <1>1, <1>3, QuietInv
<1>6. StNoneYet'
  BY <1>1, <1>3 DEF StInv, StNoneYet, Of
<1>7. StForkRight'
  BY <1>1 DEF StForkRight, Unlocked
<1> QED
  BY <1>3, <1>4, <1>5, <1>6, <1>7 DEF StInv

LEMMA GetInv ==
  ASSUME StInv, NEW w \in Writers, NEW k \in Keys, Get(w, k)
  PROVE  StInv'
<1>1. /\ Unlocked /\ Exists(k) /\ held' = [held EXCEPT ![w] = [key |-> k, rev |-> sess[k].rev]]
      /\ UNCHANGED <<sess, log, tail, jammed, fork, count, tears, acked, damaged>>
  BY DEF Get
<1>2. sess[k].rev \in 0..2
  <2>1. k \in Present
    BY <1>1 DEF Present
  <2>2. sess[k].rev \in 1..2
    BY <2>1, PresentFacts DEF StInv
  <2> QED
    BY <2>2
<1>3. StTypeOK'
  <2>1. [key |-> k, rev |-> sess[k].rev] \in [key : Keys \cup {NoKey}, rev : 0..2]
    BY <1>2
  <2>2. held' \in [Writers -> [key : Keys \cup {NoKey}, rev : 0..2]]
    BY <1>1, <2>1 DEF StInv, StTypeOK
  <2> QED
    BY <1>1, <2>2 DEF StInv, StTypeOK
<1>4. StAckedKnown' /\ StLastUnacked' /\ StLossCounted' /\ Numbered' /\ AckedInOrder'
  BY <1>1, QuietInv DEF Exists
<1>5. StNoneYet'
  BY <1>1 DEF StInv, StNoneYet, Of, Exists
<1>6. StForkRight'
  BY <1>1 DEF StForkRight, Unlocked
<1>7. StRecords'
  BY <1>1 DEF StInv, StRecords, Present, Exists
<1> QED
  BY <1>3, <1>4, <1>5, <1>6, <1>7 DEF StInv

LEMMA ArchiveInv ==
  ASSUME StInv, NEW k \in Keys, Archive(k)
  PROVE  StInv'
<1> DEFINE r == [rev |-> sess[k].rev + 1, archived |-> TRUE, depth |-> sess[k].depth]
<1>1. /\ Unlocked /\ Exists(k) /\ ~sess[k].archived
      /\ UNCHANGED <<log, tail, jammed, fork, held, count, tears, acked, damaged>>
  BY DEF Archive, Archivable
<1>2. k \in Present /\ sess[k] \in Session /\ sess[k].rev = 1
  <2>1. k \in Present
    BY <1>1 DEF Present
  <2> QED
    BY <1>1, <2>1, PresentFacts DEF StInv, StRecords
<1>3. r \in Session /\ r # NoSession /\ r.archived = TRUE /\ r.depth = sess[k].depth
  <2>1. sess[k].depth \in 0..Cardinality(Keys)
    BY <1>2 DEF Session
  <2>2. r.rev = 2 /\ r.archived = TRUE /\ r.depth = sess[k].depth
    BY <1>2
  <2>3. r \in Session
    BY <1>2, <2>1, <2>2 DEF Session
  <2>4. NoSession.rev = 0
    BY DEF NoSession
  <2> QED
    BY <2>2, <2>3, <2>4
<1>4. /\ sess' \in [Keys -> Session \cup {NoSession}] /\ sess'[k] = r /\ \A j \in Keys : j # k => sess'[j] = sess[j]
  <2>1. sess \in [Keys -> Session \cup {NoSession}]
    BY DEF StInv, StTypeOK
  <2>2. sess' = [sess EXCEPT ![k].archived = TRUE, ![k].rev = @ + 1]
    BY DEF Archive
  <2>3. sess' = [sess EXCEPT ![k] = r]
    <3> DEFINE old == sess[k]
               mid == [sess EXCEPT ![k].archived = TRUE]
    <3>1. mid[k] = [old EXCEPT !.archived = TRUE] /\ \A j \in Keys : j # k => mid[j] = sess[j]
      BY <2>1
    <3>2. sess' = [mid EXCEPT ![k].rev = @ + 1]
      BY <2>2
    <3>3. mid = [sess EXCEPT ![k] = [old EXCEPT !.archived = TRUE]]
      BY <2>1
    <3>4. [[old EXCEPT !.archived = TRUE] EXCEPT !.rev = @ + 1] = r
      <4>1. ASSUME NEW D, NEW o \in [rev : 1..2, archived : BOOLEAN, depth : D]
            PROVE  [[o EXCEPT !.archived = TRUE] EXCEPT !.rev = @ + 1]
                     = [rev |-> o.rev + 1, archived |-> TRUE, depth |-> o.depth]
        <5> DEFINE m == [o EXCEPT !.archived = TRUE]
        <5>1. m \in [rev : 1..2, archived : BOOLEAN, depth : D] /\ m.rev = o.rev /\ m.archived = TRUE /\ m.depth = o.depth
          OBVIOUS
        <5> HIDE DEF m
        <5>2. [m EXCEPT !.rev = @ + 1] = [rev |-> m.rev + 1, archived |-> m.archived, depth |-> m.depth]
          BY <5>1
        <5> QED
          BY <5>1, <5>2 DEF m
      <4>2. old \in [rev : 1..2, archived : BOOLEAN, depth : 0..Cardinality(Keys)]
        BY <1>2 DEF Session
      <4> HIDE DEF old
      <4> QED
        BY <4>1, <4>2 DEF old
    <3> QED
      BY <2>1, <3>1, <3>2, <3>3, <3>4
  <2> QED
    BY <1>3, <2>1, <2>3
<1> HIDE DEF r
<1>5. \A j \in Keys : Exists(j)' <=> Exists(j)
  BY <1>1, <1>3, <1>4 DEF Exists
<1>6. StTypeOK'
  BY <1>1, <1>4 DEF StInv, StTypeOK
<1>7. StAckedKnown' /\ StLastUnacked' /\ StLossCounted' /\ Numbered' /\ AckedInOrder'
  BY <1>1, <1>5, QuietInv
<1>8. StNoneYet'
  BY <1>1, <1>5 DEF StInv, StNoneYet, Of
<1>9. StForkRight'
  BY <1>1 DEF StForkRight, Unlocked
<1>10. StRecords'
  <2>1. Present' = Present
    BY <1>5 DEF Present
  <2> SUFFICES ASSUME NEW j \in Present
               PROVE  (~sess'[j].archived => sess'[j].rev = 1) /\ sess'[j].depth + 1 <= Cardinality(Present)
    BY <2>1 DEF StRecords
  <2>2. j \in Keys /\ (~sess[j].archived => sess[j].rev = 1) /\ sess[j].depth + 1 <= Cardinality(Present)
    BY DEF Present, StInv, StRecords
  <2>3. CASE j = k
    BY <1>3, <1>4, <2>2, <2>3
  <2>4. CASE j # k
    BY <1>4, <2>2, <2>4
  <2> QED
    BY <2>3, <2>4
<1> QED
  BY <1>6, <1>7, <1>8, <1>9, <1>10 DEF StInv

LEMMA RestartInv ==
  ASSUME StInv, Restart
  PROVE  StInv'
<1>1. /\ held' = NotHeld /\ fork' = NoFork /\ damaged' = damaged \cup ({fork.child} \ {NoKey})
      /\ UNCHANGED <<sess, log, tail, jammed, count, tears, acked>>
  BY DEF Restart
<1>2. fork.child \in Keys \cup {NoKey}
  BY DEF StInv, StTypeOK
<1>3. StTypeOK'
  <2>1. NotHeld \in [Writers -> [key : Keys \cup {NoKey}, rev : 0..2]]
    BY DEF NotHeld
  <2>2. NoFork \in [child : Keys \cup {NoKey}, parent : Keys \cup {NoKey}, copies : Seq(Line)]
    BY DEF NoFork
  <2>3. damaged' \in SUBSET Keys
    BY <1>1, <1>2 DEF StInv, StTypeOK
  <2> QED
    BY <1>1, <2>1, <2>2, <2>3 DEF StInv, StTypeOK
<1>4. StAckedKnown' /\ StLastUnacked' /\ StLossCounted' /\ Numbered' /\ AckedInOrder'
  BY <1>1, QuietInv DEF Exists
<1>5. StNoneYet'
  <2>1. ASSUME NEW k \in Keys \ damaged', ~Exists(k)' PROVE Of(k)' = <<>>
    <3>1. k \notin damaged /\ k # fork.child /\ ~Exists(k)
      BY <1>1, <2>1, KeysAreFew DEF Exists
    <3> QED
      BY <1>1, <3>1 DEF StInv, StNoneYet, Of
  <2> QED
    BY <2>1 DEF StNoneYet
<1>6. StForkRight'
  BY <1>1 DEF StForkRight
<1>7. StRecords'
  BY <1>1 DEF StInv, StRecords, Present, Exists
<1> QED
  BY <1>3, <1>4, <1>5, <1>6, <1>7 DEF StInv

\* A Fork under way has two different sessions and writes the child's lines.
LEMMA ForkUnderWay ==
  ASSUME StInv, fork.child # NoKey \/ fork.copies # <<>>
  PROVE  \E c, p \in Keys : \E s \in Seq(Line) :
           /\ fork = [child |-> c, parent |-> p, copies |-> s]
           /\ c # p /\ Exists(p) /\ ~Exists(c) /\ c # NoKey
           /\ \A i \in DOMAIN s : s[i].key = c
           /\ StForkExact
<1>1. fork # NoFork
  BY DEF NoFork
<1>2. StForkRight /\ fork \in [child : Keys \cup {NoKey}, parent : Keys \cup {NoKey}, copies : Seq(Line)]
  BY DEF StInv, StTypeOK
<1>3. /\ fork.child \in Keys /\ fork.parent \in Keys /\ Exists(fork.parent) /\ ~Exists(fork.child)
      /\ \A i \in DOMAIN fork.copies : fork.copies[i].key = fork.child
      /\ StForkExact
  BY <1>1, <1>2 DEF StForkRight
<1>4. fork.child # fork.parent /\ fork.child # NoKey
  BY <1>3, KeysAreFew
<1>5. fork = [child |-> fork.child, parent |-> fork.parent, copies |-> fork.copies] /\ fork.copies \in Seq(Line)
  BY <1>2
<1> QED
  BY <1>3, <1>4, <1>5

LEMMA ForkInv ==
  ASSUME StInv, NEW p \in Keys, NEW c \in Keys, Fork(p, c)
  PROVE  StInv'
<1>1. /\ Unlocked /\ Exists(p) /\ ~Exists(c) /\ p # c /\ c # NoKey
      /\ fork' = [child |-> c, parent |-> p, copies |-> Copies(p, c)]
      /\ UNCHANGED <<sess, log, tail, jammed, held, count, tears, acked, damaged>>
  BY KeysAreFew DEF Fork
<1>2. /\ Of(p) \in Seq(Line) /\ Len(Of(p)) \in Nat /\ DOMAIN Of(p) = 1..Len(Of(p))
      /\ \A i \in DOMAIN Of(p) : Of(p)[i].msg \in 1..MaxAppends
  BY OfTyped DEF StInv
<1>3. PICK s : s = Copies(p, c)
  OBVIOUS
<1>4. /\ s \in Seq(Line) /\ Len(s) = Len(Of(p)) /\ DOMAIN s = 1..Len(Of(p))
      /\ \A i \in 1..Len(Of(p)) : s[i].key = c /\ s[i].seq = i /\ s[i].msg = Of(p)[i].msg
  <2>1. PICK n \in Nat : n = Len(Of(p))
    BY <1>2
  <2>2. s = [i \in 1..n |-> [key |-> c, seq |-> i, msg |-> Of(p)[i].msg]]
    BY <1>2, <1>3, <2>1 DEF Copies
  <2>3. \A i \in 1..n : [key |-> c, seq |-> i, msg |-> Of(p)[i].msg] \in Line
    BY <1>2, <2>1 DEF Line
  <2>4. s \in Seq(Line) /\ Len(s) = n /\ DOMAIN s = 1..n
    BY <2>2, <2>3
  <2> QED
    BY <2>1, <2>2, <2>4
<1>5. fork' = [child |-> c, parent |-> p, copies |-> s]
  BY <1>1, <1>3
<1>6. StTypeOK'
  BY <1>1, <1>4, <1>5 DEF StInv, StTypeOK
<1>7. StAckedKnown' /\ StLastUnacked' /\ StLossCounted' /\ Numbered' /\ AckedInOrder'
  BY <1>1, QuietInv DEF Exists
<1>8. StNoneYet'
  <2>1. fork.child = NoKey
    BY <1>1 DEF Unlocked, NoFork
  <2> QED
    BY <1>1, <2>1, KeysAreFew DEF StInv, StNoneYet, Of, Exists
<1>9. StForkRight'
  <2>1. fork'.child = c /\ fork'.parent = p /\ fork'.copies = s
    BY <1>5
  <2>2. c \notin damaged => Of(c) = <<>>
    BY <1>1 DEF StInv, StNoneYet, Unlocked, NoFork
  <2>3. Of(c)' = Of(c) /\ Of(p)' = Of(p)
    BY <1>1 DEF Of
  <2>4. StForkExact'
    <3> SUFFICES ASSUME c \notin damaged
                 PROVE  /\ Len(Of(c)) + Len(s) = Len(Of(p))
                        /\ \A i \in DOMAIN Of(c) : Of(c)[i].msg = Of(p)[i].msg
                        /\ \A i \in DOMAIN s : s[i].seq = Len(Of(c)) + i /\ s[i].msg = Of(p)[Len(Of(c)) + i].msg
      BY <1>1, <2>1, <2>3 DEF StForkExact
    <3>1. Len(Of(c)) = 0 /\ DOMAIN Of(c) = {}
      BY <2>2
    <3>2. \A i \in 1..Len(Of(p)) : 0 + i = i
      BY <1>2
    <3> QED
      BY <1>2, <1>4, <3>1, <3>2
  <2> QED
    BY <1>1, <1>4, <2>1, <2>4 DEF StForkRight, Exists
<1>10. StRecords'
  BY <1>1 DEF StInv, StRecords, Present, Exists
<1> QED
  BY <1>6, <1>7, <1>8, <1>9, <1>10 DEF StInv

LEMMA ForkEndInv ==
  ASSUME StInv, ForkEnd
  PROVE  StInv'
<1>1. PICK c \in Keys, p \in Keys : \E s \in Seq(Line) :
        /\ fork = [child |-> c, parent |-> p, copies |-> s]
        /\ c # p /\ Exists(p) /\ ~Exists(c) /\ c # NoKey
  BY ForkUnderWay DEF ForkEnd
<1>2. fork.child = c /\ fork.parent = p
  BY <1>1
<1>3. PICK d : d = sess[p].depth + 1
  OBVIOUS
<1>4. /\ sess' = [sess EXCEPT ![c] = [rev |-> 1, archived |-> FALSE, depth |-> d]]
      /\ fork' = NoFork
      /\ UNCHANGED <<log, tail, jammed, held, count, tears, acked, damaged>>
  BY <1>2, <1>3 DEF ForkEnd
<1>5. d \in Nat /\ d <= Cardinality(Present)
  <2>1. p \in Present
    BY <1>1 DEF Present
  <2>2. sess[p].depth \in 0..Cardinality(Keys) /\ Cardinality(Keys) \in Nat /\ sess[p].depth + 1 <= Cardinality(Present)
    BY <2>1, PresentFacts DEF StInv, StRecords
  <2> QED
    BY <1>3, <2>2
<1>6. /\ sess' \in [Keys -> Session \cup {NoSession}]
      /\ Exists(c)' /\ \A j \in Keys : j # c => sess'[j] = sess[j] /\ (Exists(j)' <=> Exists(j))
      /\ StRecords'
  BY <1>1, <1>4, <1>5, RecordMore DEF StInv
<1>7. StTypeOK'
  <2>1. NoFork \in [child : Keys \cup {NoKey}, parent : Keys \cup {NoKey}, copies : Seq(Line)]
    BY DEF NoFork
  <2> QED
    BY <1>4, <1>6, <2>1 DEF StInv, StTypeOK
<1>8. StAckedKnown' /\ StLastUnacked' /\ StLossCounted' /\ Numbered' /\ AckedInOrder'
  BY <1>4, <1>6, QuietInv
<1>9. StNoneYet'
  <2>1. ASSUME NEW k \in Keys \ damaged, ~Exists(k)' PROVE Of(k)' = <<>>
    <3>1. k # c /\ ~Exists(k)
      BY <1>6, <2>1
    <3> QED
      BY <1>2, <1>4, <3>1 DEF StInv, StNoneYet, Of
  <2> QED
    BY <1>4, <2>1 DEF StNoneYet
<1>10. StForkRight'
  BY <1>4 DEF StForkRight
<1> QED
  BY <1>6, <1>7, <1>8, <1>9, <1>10 DEF StInv

\* Where no record changes.
LEMMA RecordsAsTheyAre ==
  ASSUME StInv, UNCHANGED sess
  PROVE  StRecords' /\ \A k : Exists(k)' <=> Exists(k)
  BY DEF StInv, StRecords, Present, Exists

LEMMA ForkFailInv ==
  ASSUME StInv, ForkFail
  PROVE  StInv'
<1>1. PICK c \in Keys, p \in Keys : \E s \in Seq(Line) :
        /\ fork = [child |-> c, parent |-> p, copies |-> s]
        /\ c # p /\ Exists(p) /\ ~Exists(c) /\ c # NoKey
        /\ \A i \in DOMAIN s : s[i].key = c
  BY ForkUnderWay DEF ForkFail
<1>2. PICK s \in Seq(Line) : fork = [child |-> c, parent |-> p, copies |-> s] /\ \A i \in DOMAIN s : s[i].key = c
  BY <1>1
<1>3. fork.child = c /\ fork.copies = s
  BY <1>2
<1>4. /\ fork' = NoFork /\ damaged' = damaged \cup {c}
      /\ UNCHANGED <<sess, held, count, acked>> /\ jammed' \in BOOLEAN
      /\ (s # <<>> /\ PutCut(Head(s))) \/ UNCHANGED <<log, tail, tears>>
  BY <1>3 DEF ForkFail, Jams, StInv, StTypeOK
<1>5. NoFork \in [child : Keys \cup {NoKey}, parent : Keys \cup {NoKey}, copies : Seq(Line)] /\ NoFork.child = NoKey
  BY DEF NoFork
<1>6. StRecords' /\ \A k : Exists(k)' <=> Exists(k)
  BY <1>4, RecordsAsTheyAre
<1>7. StForkRight'
  BY <1>4 DEF StForkRight
<1>8. damaged' \in SUBSET Keys /\ damaged \subseteq damaged'
  BY <1>4 DEF StInv, StTypeOK
<1>9. CASE UNCHANGED <<log, tail, tears>>
  <2>1. StTypeOK'
    BY <1>4, <1>5, <1>8, <1>9 DEF StInv, StTypeOK
  <2>2. StAckedKnown' /\ StLastUnacked' /\ StLossCounted' /\ Numbered' /\ AckedInOrder'
    BY <1>4, <1>6, <1>8, <1>9, QuietInv
  <2>3. StNoneYet'
    <3>1. ASSUME NEW k \in Keys \ damaged', ~Exists(k)' PROVE Of(k)' = <<>>
      <4>1. k # c /\ ~Exists(k) /\ k \notin damaged
        BY <1>4, <1>6, <3>1
      <4> QED
        BY <1>3, <1>9, <4>1 DEF StInv, StNoneYet, Of
    <3> QED
      BY <3>1 DEF StNoneYet
  <2> QED
    BY <1>6, <1>7, <2>1, <2>2, <2>3 DEF StInv
<1>10. CASE s # <<>> /\ PutCut(Head(s))
  <2>1. PICK e \in Line : e = Head(s) /\ e.key = c
    <3>1. Head(s) \in Line /\ Head(s) = s[1] /\ 1 \in DOMAIN s
      BY <1>10
    <3> QED
      BY <1>2, <3>1
  <2>2. PutCut(e)
    BY <1>10, <2>1
  <2>3. /\ Grows(e) \/ Stays \/ Cuts
        /\ log' \in Seq(Line) /\ tail' \in {"clean", "part", "whole"}
    BY <2>2, WriteDoes DEF StInv
  <2>4. e \notin acked
    BY <1>1, <2>1 DEF StInv, StAckedKnown
  <2>5. StLastUnacked' /\ StLossCounted'
    BY <1>4, <2>2, <2>4, LossKept DEF StInv
  <2>6. Numbered'
    <3>1. e.key \in damaged'
      BY <1>4, <2>1
    <3> QED
      BY <1>8, <2>3, <3>1, NumberedKept DEF StInv
  <2>10. AckedInOrder'
    BY <1>4, <2>3, <2>4, OrderKept DEF StInv
  <2>7. StNoneYet'
    <3>1. e.key \in damaged'
      BY <1>4, <2>1
    <3>2. \A k \in Keys \ damaged' : ~Exists(k)' /\ k # fork'.child => k \notin damaged /\ ~Exists(k) /\ k # fork.child
      BY <1>3, <1>4, <1>6
    <3> QED
      BY <2>3, <3>1, <3>2, NoneKept DEF StInv
  <2>8. StTypeOK'
    <3>1. tears' \in 0..MaxTears
      BY <2>2, StoreBounds DEF StInv, StTypeOK, PutCut
    <3> QED
      BY <1>4, <1>5, <1>8, <2>3, <3>1 DEF StInv, StTypeOK
  <2>9. StAckedKnown'
    BY <1>4, <1>6 DEF StInv, StAckedKnown
  <2> QED
    BY <1>6, <1>7, <2>5, <2>6, <2>7, <2>8, <2>9, <2>10 DEF StInv
<1> QED
  BY <1>4, <1>9, <1>10

LEMMA ForkCopyInv ==
  ASSUME StInv, ForkCopy
  PROVE  StInv'
<1>1. PICK c \in Keys, p \in Keys : \E s \in Seq(Line) :
        /\ fork = [child |-> c, parent |-> p, copies |-> s]
        /\ c # p /\ Exists(p) /\ ~Exists(c) /\ c # NoKey
        /\ \A i \in DOMAIN s : s[i].key = c
        /\ StForkExact
  BY ForkUnderWay DEF ForkCopy
<1>2. PICK s \in Seq(Line) : fork = [child |-> c, parent |-> p, copies |-> s] /\ \A i \in DOMAIN s : s[i].key = c
  BY <1>1
<1>3. fork.child = c /\ fork.parent = p /\ fork.copies = s /\ s # <<>>
  BY <1>2 DEF ForkCopy
<1>4. PICK e \in Line : e = Head(s) /\ e.key = c /\ e = s[1]
  <2>1. Head(s) \in Line /\ Head(s) = s[1] /\ 1 \in DOMAIN s
    BY <1>3
  <2> QED
    BY <1>2, <2>1
<1>5. PICK r : r = Tail(s)
  OBVIOUS
<1>6. /\ r \in Seq(Line) /\ Len(s) \in Nat /\ Len(r) \in Nat /\ Len(s) = Len(r) + 1
      /\ DOMAIN s = 1..Len(s) /\ DOMAIN r = 1..Len(r)
      /\ \A i \in 1..Len(r) : r[i] = s[i + 1] /\ i + 1 \in 1..Len(s)
  <2>1. r \in Seq(Line) /\ Len(s) \in Nat /\ Len(s) > 0
    BY <1>3, <1>5
  <2>2. Len(r) = Len(s) - 1 /\ \A i \in 1..Len(r) : r[i] = s[i + 1]
    BY <1>3, <1>5, HeadTailProperties
  <2> QED
    BY <2>1, <2>2
<1>7. /\ Put(e)
      /\ fork' = [child |-> c, parent |-> p, copies |-> r]
      /\ damaged' = damaged \cup (IF tail = "clean" THEN {} ELSE {c})
      /\ UNCHANGED <<sess, held, count, tears, acked>> /\ jammed' \in {jammed, TRUE}
  BY <1>2, <1>3, <1>4, <1>5 DEF ForkCopy, Jams
<1>8. damaged' \in SUBSET Keys /\ damaged \subseteq damaged'
  BY <1>7 DEF StInv, StTypeOK
<1>9. /\ Grows(e) \/ Stays \/ Cuts
      /\ log' \in Seq(Line) /\ tail' \in {"clean", "part", "whole"}
      /\ tail = "clean" => Grows(e)
  BY <1>7, WriteDoes DEF StInv
<1>10. e \notin acked
  BY <1>1, <1>4 DEF StInv, StAckedKnown
<1>11. StRecords' /\ \A k : Exists(k)' <=> Exists(k)
  BY <1>7, RecordsAsTheyAre
<1>12. StTypeOK'
  BY <1>6, <1>7, <1>8, <1>9 DEF StInv, StTypeOK
<1>13. StAckedKnown'
  BY <1>7, <1>11 DEF StInv, StAckedKnown
<1>14. StLastUnacked' /\ StLossCounted'
  BY <1>7, <1>10, LossKept DEF StInv
<1>15. /\ Of(c) \in Seq(Line) /\ Len(Of(c)) \in Nat /\ DOMAIN Of(c) = 1..Len(Of(c))
       /\ Of(p) \in Seq(Line) /\ Len(Of(p)) \in Nat /\ DOMAIN Of(p) = 1..Len(Of(p))
  BY OfTyped DEF StInv
<1>16. c \notin damaged =>
         /\ Len(Of(c)) + Len(s) = Len(Of(p))
         /\ \A i \in DOMAIN Of(c) : Of(c)[i].msg = Of(p)[i].msg
         /\ \A i \in DOMAIN s : s[i].seq = Len(Of(c)) + i /\ s[i].msg = Of(p)[Len(Of(c)) + i].msg
  BY <1>1, <1>3 DEF StForkExact
<1>17. c \notin damaged => e.seq = Len(Of(c)) + 1 /\ e.msg = Of(p)[Len(Of(c)) + 1].msg
  <2>1. 1 \in DOMAIN s
    BY <1>6
  <2> QED
    BY <1>4, <1>16, <2>1
<1>18. Numbered'
  <2>1. Grows(e) => e.key \in damaged' \/ e.seq = Len(Of(e.key)) + 1
    BY <1>4, <1>8, <1>17
  <2> QED
    BY <1>8, <1>9, <2>1, NumberedKept DEF StInv
<1>21. AckedInOrder'
  BY <1>7, <1>9, <1>10, OrderKept DEF StInv
<1>19. StNoneYet'
  <2>1. e.key = fork'.child
    BY <1>4, <1>7
  <2>2. \A k \in Keys \ damaged' : ~Exists(k)' /\ k # fork'.child => k \notin damaged /\ ~Exists(k) /\ k # fork.child
    BY <1>3, <1>7, <1>8, <1>11
  <2> QED
    BY <1>9, <2>1, <2>2, NoneKept DEF StInv
<1>20. StForkRight'
  <2>1. fork'.child = c /\ fork'.parent = p /\ fork'.copies = r
    BY <1>7
  <2>2. \A i \in DOMAIN r : r[i].key = c
    BY <1>2, <1>6
  <2>3. StForkExact'
    <3> DEFINE a == Of(c)'
               b == Of(p)'
    <3> SUFFICES ASSUME c \notin damaged'
                 PROVE  /\ Len(a) + Len(r) = Len(b)
                        /\ \A i \in DOMAIN a : a[i].msg = b[i].msg
                        /\ \A i \in DOMAIN r : r[i].seq = Len(a) + i /\ r[i].msg = b[Len(a) + i].msg
      BY <2>1 DEF StForkExact
    <3>1. tail = "clean" /\ c \notin damaged
      BY <1>7
    <3>2. Grows(e)
      BY <1>9, <3>1
    <3>3. a = Append(Of(c), e) /\ b = Of(p)
      BY <1>1, <1>4, <3>2, OfGrown DEF Grows, StInv
    <3>4. PICK t \in Seq(Line) : t = Of(c)
      BY <1>15
    <3>5. PICK u \in Seq(Line) : u = Of(p)
      BY <1>15
    <3>6. a = Append(t, e) /\ b = u
      BY <3>3, <3>4, <3>5
    <3> HIDE DEF a, b
    <3>7. /\ Len(t) \in Nat /\ Len(t) + Len(s) = Len(u)
          /\ \A i \in 1..Len(t) : t[i].msg = u[i].msg
          /\ \A i \in 1..Len(s) : s[i].seq = Len(t) + i /\ s[i].msg = u[Len(t) + i].msg
          /\ e.msg = u[Len(t) + 1].msg
      BY <1>6, <1>15, <1>16, <1>17, <3>1, <3>4, <3>5
    <3>8. /\ Len(a) = Len(t) + 1 /\ DOMAIN a = 1..(Len(t) + 1) /\ a[Len(t) + 1] = e
          /\ \A i \in 1..Len(t) : a[i] = t[i]
      BY <3>6, <3>7
    <3>9. Len(a) + Len(r) = Len(b)
      BY <1>6, <3>6, <3>7, <3>8
    <3>10. ASSUME NEW i \in DOMAIN a PROVE a[i].msg = b[i].msg
      <4>1. i \in 1..Len(t) \/ i = Len(t) + 1
        BY <3>7, <3>8
      <4> QED
        BY <3>6, <3>7, <3>8, <4>1
    <3>11. ASSUME NEW i \in DOMAIN r PROVE r[i].seq = Len(a) + i /\ r[i].msg = b[Len(a) + i].msg
      <4>1. i \in 1..Len(r) /\ i \in Nat
        BY <1>6
      <4>2. r[i] = s[i + 1] /\ i + 1 \in 1..Len(s)
        BY <1>6, <4>1
      <4>3. s[i + 1].seq = Len(t) + (i + 1) /\ s[i + 1].msg = u[Len(t) + (i + 1)].msg
        BY <3>7, <4>2
      <4>4. Len(t) + (i + 1) = Len(a) + i
        BY <3>7, <3>8, <4>1
      <4> QED
        BY <3>6, <4>2, <4>3, <4>4
    <3> QED
      BY <3>9, <3>10, <3>11
  <2> QED
    BY <1>1, <1>11, <2>1, <2>2, <2>3 DEF StForkRight
<1> QED
  BY <1>11, <1>12, <1>13, <1>14, <1>18, <1>19, <1>20, <1>21 DEF StInv

LEMMA AppendLockedInv ==
  ASSUME StInv, NEW k \in Keys, Unlocked, AppendLocked(k),
         held' \in [Writers -> [key : Keys \cup {NoKey}, rev : 0..2]]
  PROVE  StInv'
<1>1. PICK e : e = [key |-> k, seq |-> NextSeq(k), msg |-> count + 1]
  OBVIOUS
<1>2. /\ Writable(k) /\ count < MaxAppends /\ count' = count + 1
      /\ \/ Put(e) /\ acked' = acked \cup {e} /\ UNCHANGED <<tears, damaged>>
         \/ PutCut(e) /\ UNCHANGED <<acked, damaged>>
      /\ jammed' \in {jammed, TRUE} /\ UNCHANGED <<sess, fork>>
  BY <1>1 DEF AppendLocked, Jams
<1>3. count \in Nat /\ count + 1 \in 0..MaxAppends /\ count + 1 \in 1..MaxAppends
  <2>1. count \in 0..MaxAppends /\ MaxAppends \in Nat
    BY StoreBounds DEF StInv, StTypeOK
  <2> QED
    BY <1>2, <2>1
<1>4. e \in Line /\ e.key = k /\ e.seq = NextSeq(k) /\ e.msg = count + 1
  <2>1. NextSeq(k) \in Nat
    BY NextSeqRight DEF StInv
  <2> QED
    BY <1>1, <1>3, <2>1 DEF Line
<1>5. e \notin acked
  <2>1. \A x \in acked : x.msg <= count
    BY DEF StInv, StAckedKnown
  <2> QED
    BY <1>3, <1>4, <2>1
<1>6. /\ Grows(e) \/ Stays \/ Cuts
      /\ log' \in Seq(Line) /\ tail' \in {"clean", "part", "whole"}
  BY <1>2, <1>4, WriteDoes DEF StInv
<1>7. damaged' = damaged
  BY <1>2
<1>8. StRecords' /\ \A j : Exists(j)' <=> Exists(j)
  BY <1>2, RecordsAsTheyAre
<1>9. StTypeOK'
  <2>1. tears' \in 0..MaxTears
    <3>1. tears \in 0..MaxTears /\ MaxTears \in Nat
      BY StoreBounds DEF StInv, StTypeOK
    <3>2. tears' = tears \/ (tears < MaxTears /\ tears' = tears + 1)
      BY <1>2 DEF PutCut
    <3> QED
      BY <3>1, <3>2
  <2>2. acked' \in SUBSET Line
    BY <1>2, <1>4 DEF StInv, StTypeOK
  <2>3. jammed' \in BOOLEAN
    BY <1>2 DEF StInv, StTypeOK
  <2> QED
    BY <1>2, <1>3, <1>6, <1>7, <2>1, <2>2, <2>3 DEF StInv, StTypeOK
<1>10. StAckedKnown'
  <2>1. Exists(k)
    BY <1>2 DEF Writable
  <2>2. \A x \in acked : Exists(x.key)' /\ x.msg <= count'
    <3>1. \A x \in acked : x \in Line /\ Exists(x.key) /\ x.msg <= count
      BY DEF StInv, StTypeOK, StAckedKnown
    <3>2. \A x \in Line : x.msg \in Nat
      BY DEF Line
    <3>3. \A x \in acked : x.msg \in Nat /\ x.msg <= count
      BY <3>1, <3>2
    <3>4. \A x \in acked : x.msg <= count'
      BY <1>2, <1>3, <3>3
    <3> QED
      BY <1>8, <3>1, <3>4
  <2>3. e.msg <= count' /\ Exists(e.key)'
    BY <1>2, <1>3, <1>4, <1>8, <2>1
  <2>4. acked' \subseteq acked \cup {e}
    BY <1>2
  <2> QED
    BY <2>2, <2>3, <2>4 DEF StAckedKnown
<1>11. StLastUnacked' /\ StLossCounted'
  BY <1>2, <1>4, <1>5, LossKept DEF StInv
<1>12. Numbered'
  <2>1. e.key \in damaged' \/ e.seq = Len(Of(e.key)) + 1
    <3>1. k \notin damaged => \A i \in DOMAIN Of(k) : Of(k)[i].seq = i
      BY DEF StInv, Numbered
    <3>2. k \notin damaged => NextSeq(k) = Len(Of(k)) + 1
      BY <3>1, NextSeqRight DEF StInv
    <3> QED
      BY <1>4, <1>7, <3>2
  <2> QED
    BY <1>4, <1>6, <1>7, <2>1, NumberedKept DEF StInv
<1>15. AckedInOrder'
  <2>1. \A i \in DOMAIN Of(e.key) : Of(e.key)[i].seq < e.seq
    BY <1>4, NextSeqRight DEF StInv
  <2>2. acked' \subseteq acked \cup {e}
    BY <1>2
  <2> QED
    BY <1>4, <1>5, <1>6, <2>1, <2>2, OrderKept DEF StInv
<1>13. StNoneYet'
  <2>1. Exists(e.key)'
    BY <1>2, <1>4, <1>8 DEF Writable
  <2>2. \A j \in Keys \ damaged' : ~Exists(j)' /\ j # fork'.child => j \notin damaged /\ ~Exists(j) /\ j # fork.child
    BY <1>2, <1>7, <1>8
  <2> QED
    BY <1>4, <1>6, <2>1, <2>2, NoneKept DEF StInv
<1>14. StForkRight'
  BY <1>2 DEF Unlocked, StForkRight
<1> QED
  BY <1>8, <1>9, <1>10, <1>11, <1>12, <1>13, <1>14, <1>15 DEF StInv

LEMMA AppendEventInv ==
  ASSUME StInv, NEW k \in Keys, AppendEvent(k)
  PROVE  StInv'
<1>1. Unlocked /\ AppendLocked(k) /\ held' = held
  BY DEF AppendEvent
<1> QED
  BY <1>1, AppendLockedInv DEF StInv, StTypeOK

LEMMA AppendAtRevInv ==
  ASSUME StInv, NEW w \in Writers, AppendAtRev(w)
  PROVE  StInv'
<1>1. PICK k : k = held[w].key
  OBVIOUS
<1>2. Unlocked /\ AppendLocked(k) /\ k # NoKey /\ held' = [held EXCEPT ![w] = [key |-> NoKey, rev |-> 0]]
  BY <1>1 DEF AppendAtRev
<1>3. held \in [Writers -> [key : Keys \cup {NoKey}, rev : 0..2]]
  BY DEF StInv, StTypeOK
<1>4. k \in Keys
  BY <1>1, <1>2, <1>3
<1>5. held' \in [Writers -> [key : Keys \cup {NoKey}, rev : 0..2]]
  <2>1. [key |-> NoKey, rev |-> 0] \in [key : Keys \cup {NoKey}, rev : 0..2]
    OBVIOUS
  <2> QED
    BY <1>2, <1>3, <2>1
<1> QED
  BY <1>2, <1>4, <1>5, AppendLockedInv

LEMMA StNextInv == StInv /\ [StNext]_stVars => StInv'
<1> SUFFICES ASSUME StInv, [StNext]_stVars PROVE StInv'
  OBVIOUS
<1>1. CASE UNCHANGED stVars
  <2>1. UNCHANGED <<sess, log, tail, jammed, fork, held, count, tears, acked, damaged>>
    BY <1>1 DEF stVars
  <2>2. StTypeOK'
    BY <2>1 DEF StInv, StTypeOK
  <2>3. StAckedKnown' /\ StLastUnacked' /\ StLossCounted' /\ Numbered' /\ AckedInOrder'
    BY <2>1, QuietInv DEF Exists
  <2>4. StNoneYet' /\ StForkRight'
    BY <2>1 DEF StInv, StNoneYet, StForkRight, StForkExact, Of, Exists
  <2> QED
    BY <2>1, <2>2, <2>3, <2>4, RecordsAsTheyAre DEF StInv
<1> QED
  BY <1>1, CreateInv, GetInv, ArchiveInv, RestartInv, ForkInv, ForkCopyInv, ForkEndInv, ForkFailInv,
     AppendEventInv, AppendAtRevInv DEF StNext

LEMMA StInitInv == StInit => StInv
<1> SUFFICES ASSUME StInit PROVE StInv
  OBVIOUS
<1>1. \A k : Of(k) = <<>>
  BY LinesOfNothing DEF StInit, Of
<1>2. StTypeOK
  <2>1. NotHeld \in [Writers -> [key : Keys \cup {NoKey}, rev : 0..2]]
    BY DEF NotHeld
  <2>2. NoFork \in [child : Keys \cup {NoKey}, parent : Keys \cup {NoKey}, copies : Seq(Line)]
    BY DEF NoFork
  <2>3. 0 \in 0..MaxAppends /\ 0 \in 0..MaxTears /\ <<>> \in Seq(Line)
    BY StoreBounds
  <2>4. sess \in [Keys -> Session \cup {NoSession}]
    BY DEF StInit
  <2> QED
    BY <2>1, <2>2, <2>3, <2>4 DEF StInit, StTypeOK
<1>3. StAckedKnown /\ StLastUnacked
  BY DEF StInit, StAckedKnown, StLastUnacked
<1>4. StLossCounted
  <2>1. Lost = {} /\ Torn = 0
    BY DEF StInit, Lost, Torn
  <2> QED
    BY <2>1, FS_EmptySet DEF StInit, StLossCounted
<1>5. Numbered /\ AckedInOrder
  BY <1>1 DEF Numbered, AckedInOrder
<1>6. StNoneYet /\ StForkRight
  BY <1>1 DEF StInit, StNoneYet, StForkRight
<1>7. StRecords
  BY DEF StInit, StRecords, Present, Exists
<1> QED
  BY <1>2, <1>3, <1>4, <1>5, <1>6, <1>7 DEF StInv

----------------------------------------------------------------------------
(* Session records: what a step does to a session's transcript.             *)

\* A step writes one line at most, and none of an archived session.
LEMMA StepWrites ==
  ASSUME StInv, [StNext]_stVars
  PROVE  Stays \/ \E e \in Line : (Stays \/ Cuts \/ Grows(e)) /\ ~sess[e.key].archived
<1>1. ASSUME NEW k \in Keys, AppendLocked(k)
      PROVE  \E e \in Line : (Stays \/ Cuts \/ Grows(e)) /\ ~sess[e.key].archived
  <2>1. PICK e : e = [key |-> k, seq |-> NextSeq(k), msg |-> count + 1]
    OBVIOUS
  <2>2. Writable(k) /\ count < MaxAppends /\ (Put(e) \/ PutCut(e))
    BY <1>1, <2>1 DEF AppendLocked
  <2>3. e \in Line /\ e.key = k
    <3>1. NextSeq(k) \in Nat
      BY NextSeqRight DEF StInv
    <3>2. count + 1 \in 1..MaxAppends
      <4>1. count \in 0..MaxAppends /\ MaxAppends \in Nat
        BY StoreBounds DEF StInv, StTypeOK
      <4> QED
        BY <2>2, <4>1
    <3> QED
      BY <2>1, <3>1, <3>2 DEF Line
  <2>4. Grows(e) \/ Stays \/ Cuts
    BY <2>2, <2>3, WriteDoes DEF StInv
  <2> QED
    BY <2>2, <2>3, <2>4 DEF Writable
<1>2. ASSUME fork.copies # <<>>, Put(Head(fork.copies)) \/ PutCut(Head(fork.copies))
      PROVE  \E e \in Line : (Stays \/ Cuts \/ Grows(e)) /\ ~sess[e.key].archived
  <2>1. PICK c \in Keys, p \in Keys : \E s \in Seq(Line) :
          fork = [child |-> c, parent |-> p, copies |-> s] /\ ~Exists(c) /\ \A i \in DOMAIN s : s[i].key = c
    BY <1>2, ForkUnderWay
  <2>2. PICK s \in Seq(Line) : fork = [child |-> c, parent |-> p, copies |-> s] /\ \A i \in DOMAIN s : s[i].key = c
    BY <2>1
  <2>3. s # <<>> /\ fork.copies = s
    BY <1>2, <2>2
  <2>4. PICK e \in Line : e = Head(s) /\ e.key = c
    <3>1. Head(s) \in Line /\ Head(s) = s[1] /\ 1 \in DOMAIN s
      BY <2>3
    <3> QED
      BY <2>2, <3>1
  <2>5. Put(e) \/ PutCut(e)
    BY <1>2, <2>3, <2>4
  <2>6. Grows(e) \/ Stays \/ Cuts
    BY <2>5, WriteDoes DEF StInv
  <2>7. ~sess[c].archived
    BY <2>1 DEF Exists, NoSession
  <2> QED
    BY <2>4, <2>6, <2>7
<1>3. ASSUME NEW w \in Writers, AppendAtRev(w) PROVE held[w].key \in Keys /\ AppendLocked(held[w].key)
  BY <1>3 DEF AppendAtRev, StInv, StTypeOK
<1>4. CASE UNCHANGED log
  BY <1>4 DEF Stays
<1>5. CASE UNCHANGED stVars
  BY <1>4, <1>5 DEF stVars
<1>6. ASSUME NEW k \in Keys, Create(k, 0) \/ Archive(k) PROVE UNCHANGED log
  BY <1>6 DEF Create, Archive
<1>7. ASSUME NEW w \in Writers, NEW k \in Keys, Get(w, k) PROVE UNCHANGED log
  BY <1>7 DEF Get
<1>8. ASSUME NEW p \in Keys, NEW c \in Keys, Fork(p, c) PROVE UNCHANGED log
  BY <1>8 DEF Fork
<1>9. ForkEnd \/ Restart => UNCHANGED log
  BY DEF ForkEnd, Restart
<1>10. ASSUME NEW k \in Keys, AppendEvent(k) PROVE AppendLocked(k)
  BY <1>10 DEF AppendEvent
<1>11. ForkCopy => fork.copies # <<>> /\ Put(Head(fork.copies))
  BY DEF ForkCopy
<1>12. ForkFail => UNCHANGED log \/ (fork.copies # <<>> /\ PutCut(Head(fork.copies)))
  BY DEF ForkFail
<1> HIDE DEF Stays, Cuts, Grows
<1>13. CASE \E w \in Writers : AppendAtRev(w)
  BY <1>1, <1>3, <1>13
<1>14. CASE \E k \in Keys : AppendEvent(k)
  BY <1>1, <1>10, <1>14
<1>15. CASE ForkCopy \/ ForkFail
  BY <1>2, <1>4, <1>11, <1>12, <1>15
<1>16. CASE \/ \E k \in Keys : Create(k, 0) \/ Archive(k)
            \/ \E w \in Writers : \E k \in Keys : Get(w, k)
            \/ \E p, c \in Keys : Fork(p, c)
            \/ ForkEnd \/ Restart
  BY <1>4, <1>6, <1>7, <1>8, <1>9, <1>16
<1> QED
  BY <1>5, <1>13, <1>14, <1>15, <1>16 DEF StNext

LEMMA PrefixOfItself ==
  ASSUME NEW S, NEW s \in Seq(S)
  PROVE  IsPrefix(s, s)
  BY DEF IsPrefix

\* What becomes of a session's readable lines.
LEMMA TranscriptStep ==
  ASSUME StInv, [StNext]_stVars, NEW k \in Keys
  PROVE  /\ Of(k)' = Of(k) \/ IsPrefix(Of(k), Of(k)') \/ k \in Spoilt
         /\ sess[k].archived => IsPrefix(Of(k)', Of(k))
<1>0. Of(k) \in Seq(Line)
  BY OfTyped DEF StInv
<1>1. CASE Stays
  <2>1. Of(k)' = Of(k)
    BY <1>1 DEF Stays, Of
  <2>2. IsPrefix(Of(k), Of(k))
    BY <1>0, PrefixOfItself
  <2> QED
    BY <2>1, <2>2
<1>2. CASE Cuts
  <2>1. /\ Last(log) \in Line /\ Of(k)' \in Seq(Line)
        /\ Of(k) = IF Last(log).key = k THEN Append(Of(k)', Last(log)) ELSE Of(k)'
    BY <1>2, OfCut DEF Cuts, StInv
  <2>2. IsPrefix(Of(k)', Of(k)')
    BY <2>1, PrefixOfItself
  <2>3. IsPrefix(Of(k)', Append(Of(k)', Last(log)))
    <3> DEFINE t == Of(k)'
               last == Last(log)
    <3>1. t \in Seq(Line) /\ last \in Line
      BY <2>1
    <3> HIDE DEF t, last
    <3>2. IsPrefix(t, Append(t, last))
      BY <3>1, PrefixOfMore
    <3> QED
      BY <3>2 DEF t, last
  <2>4. Last(log).key = k => k \in Spoilt
    BY <1>2 DEF Cuts, Spoilt
  <2> QED
    BY <2>1, <2>2, <2>3, <2>4
<1>3. CASE \E e \in Line : Grows(e) /\ ~sess[e.key].archived
  <2>1. PICK e \in Line : Grows(e) /\ ~sess[e.key].archived
    BY <1>3
  <2>2. Of(k)' = IF e.key = k THEN Append(Of(k), e) ELSE Of(k)
    BY <2>1, OfGrown DEF Grows, StInv
  <2>3. IsPrefix(Of(k), Of(k)) /\ IsPrefix(Of(k), Append(Of(k), e))
    BY <1>0, PrefixOfMore
  <2> QED
    BY <2>1, <2>2, <2>3
<1> QED
  BY <1>1, <1>2, <1>3, StepWrites

\* What a line that is too long does to every later step.
LEMMA JamStep ==
  ASSUME [StNext]_stVars, jammed
  PROVE  jammed' /\ acked' = acked /\ (Unlocked => Unlocked' /\ log' = log /\ tail' = tail)
<1> DEFINE goal == jammed' /\ acked' = acked /\ (Unlocked => Unlocked' /\ log' = log /\ tail' = tail)
<1>1. ASSUME UNCHANGED <<jammed, acked, fork, log, tail>> PROVE goal
  BY <1>1 DEF Unlocked
<1>2. ASSUME NEW k, AppendLocked(k) PROVE FALSE
  BY <1>2 DEF AppendLocked
<1>3. (\E k \in Keys : AppendEvent(k)) \/ (\E w \in Writers : AppendAtRev(w)) => FALSE
  BY <1>2 DEF AppendEvent, AppendAtRev
<1>4. (\E k \in Keys : Create(k, 0) \/ Archive(k)) => UNCHANGED <<jammed, acked, fork, log, tail>>
  BY DEF Create, Archive
<1>5. (\E w \in Writers : \E k \in Keys : Get(w, k)) => UNCHANGED <<jammed, acked, fork, log, tail>>
  BY DEF Get
<1>6. UNCHANGED stVars => UNCHANGED <<jammed, acked, fork, log, tail>>
  BY DEF stVars
<1>7. (\E p, c \in Keys : Fork(p, c)) => FALSE
  BY DEF Fork
<1>8. ForkCopy \/ ForkFail => ~Unlocked
  <2>1. Unlocked => fork.child = NoKey /\ fork.copies = <<>>
    BY DEF Unlocked, NoFork
  <2> QED
    BY <2>1 DEF ForkCopy, ForkFail
<1>9. ForkCopy \/ ForkFail => jammed' /\ acked' = acked
  <2>1. Jams \/ UNCHANGED jammed => jammed'
    BY DEF Jams
  <2>2. ForkCopy => Jams /\ acked' = acked
    BY DEF ForkCopy
  <2>3. ForkFail => (Jams \/ UNCHANGED jammed) /\ acked' = acked
    BY DEF ForkFail
  <2> QED
    BY <2>1, <2>2, <2>3
<1>10. ForkEnd \/ Restart => Unlocked' /\ UNCHANGED <<jammed, acked, log, tail>>
  BY DEF ForkEnd, Restart, Unlocked
<1> QED
  BY <1>1, <1>3, <1>4, <1>5, <1>6, <1>7, <1>8, <1>9, <1>10 DEF StNext

\* No step brings an archived session back.
LEMMA ArchivedStays ==
  ASSUME StInv, [StNext]_stVars, NEW k \in Keys, sess[k].archived
  PROVE  sess'[k].archived
<1>1. sess \in [Keys -> Session \cup {NoSession}] /\ Exists(k)
  BY DEF StInv, StTypeOK, Exists, NoSession
<1>2. CASE UNCHANGED sess
  BY <1>2
<1>3. ASSUME NEW j \in Keys, Create(j, 0) PROVE sess'[k].archived
  BY <1>1, <1>3 DEF Create
<1>4. ASSUME NEW j \in Keys, Archive(j) PROVE sess'[k].archived
  BY <1>1, <1>4 DEF Archive, Archivable, Session, NoSession
<1>5. CASE ForkEnd
  <2>1. fork.child # k
    <3>1. PICK c \in Keys, p \in Keys : \E s \in Seq(Line) : fork = [child |-> c, parent |-> p, copies |-> s] /\ ~Exists(c)
      BY <1>5, ForkUnderWay DEF ForkEnd
    <3> QED
      BY <1>1, <3>1
  <2> QED
    BY <1>1, <1>5, <2>1 DEF ForkEnd
<1>6. ASSUME NEW j \in Keys, AppendEvent(j) PROVE UNCHANGED sess
  BY <1>6 DEF AppendEvent, AppendLocked
<1>7. ASSUME NEW w \in Writers, AppendAtRev(w) PROVE UNCHANGED sess
  BY <1>7 DEF AppendAtRev, AppendLocked
<1>8. ASSUME NEW w \in Writers, NEW j \in Keys, Get(w, j) PROVE UNCHANGED sess
  BY <1>8 DEF Get
<1>9. ASSUME NEW p \in Keys, NEW c \in Keys, Fork(p, c) PROVE UNCHANGED sess
  BY <1>9 DEF Fork
<1>10. ForkCopy \/ ForkFail \/ Restart => UNCHANGED sess
  BY DEF ForkCopy, ForkFail, Restart
<1>11. UNCHANGED stVars => UNCHANGED sess
  BY DEF stVars
<1> QED
  BY <1>2, <1>3, <1>4, <1>5, <1>6, <1>7, <1>8, <1>9, <1>10, <1>11 DEF StNext

\* For every number of sessions, writers and writes cut short, through forks,
\* failures and restarts: the lines of events that were acknowledged stay in the
\* file but for one per cut write; an acknowledged event has a higher number than
\* those before it, in damaged sessions too, and a session no cut write or abandoned
\* Fork has touched is numbered without a gap; once a line is too long nothing is
\* acknowledged any more, and between Forks nothing is written; an archived session
\* is frozen; a child that is not damaged begins with its parent's transcript; and
\* no write touches another session, but for the cut line at the end.
THEOREM TranscriptsKeptAlways == StSpec => []StTypeOK /\ TranscriptsKept
<1>1. StInv => StTypeOK /\ LossBounded /\ Numbered /\ AckedInOrder
  <2>1. ASSUME StInv PROVE LossBounded
    <3>1. IsFiniteSet(Lost)
      BY <2>1, FS_Subset DEF StInv, StLossCounted, Lost
    <3>2. Cardinality(Lost) \in Nat /\ Cardinality(Lost) + Torn <= tears /\ Torn \in {0, 1} /\ tears \in Nat
      BY <2>1, <3>1, FS_CardinalityType, StoreBounds DEF StInv, StTypeOK, StLossCounted, Torn
    <3> QED
      BY <3>2 DEF LossBounded
  <2> QED
    BY <2>1 DEF StInv
<1>2. StInv /\ [StNext]_stVars
      => [\A k \in Keys : sess[k].archived => sess'[k].archived /\ IsPrefix(Of(k)', Of(k))]_stVars
  BY TranscriptStep, ArchivedStays
<1>3. StInv /\ [StNext]_stVars
      => [ForkEnd /\ fork.child \notin damaged =>
            /\ Len(Of(fork.child)) = Len(Of(fork.parent))
            /\ \A i \in DOMAIN Of(fork.child) : Of(fork.child)[i].msg = Of(fork.parent)[i].msg]_stVars
  <2> SUFFICES ASSUME StInv, ForkEnd, fork.child \notin damaged
               PROVE  /\ Len(Of(fork.child)) = Len(Of(fork.parent))
                      /\ \A i \in DOMAIN Of(fork.child) : Of(fork.child)[i].msg = Of(fork.parent)[i].msg
    OBVIOUS
  <2>1. StForkExact /\ Len(fork.copies) = 0
    BY ForkUnderWay DEF ForkEnd
  <2>2. Len(Of(fork.child)) \in Nat
    BY OfTyped DEF StInv
  <2> QED
    BY <2>1, <2>2 DEF StForkExact
<1>4. StInv /\ [StNext]_stVars
      => [\A k \in Keys : Of(k)' = Of(k) \/ IsPrefix(Of(k), Of(k)') \/ k \in Spoilt]_stVars
  BY TranscriptStep
<1>5. StInv /\ [StNext]_stVars
      => [jammed => /\ jammed' /\ acked' = acked
                    /\ Unlocked => Unlocked' /\ log' = log /\ tail' = tail]_stVars
  BY JamStep
<1> QED
  BY <1>1, <1>2, <1>3, <1>4, <1>5, StInitInv, StNextInv, PTL
     DEF StSpec, TranscriptsKept, JamHolds, ArchivedFrozen, ForkFaithful, Isolated

----------------------------------------------------------------------------
(* The records together.                                                    *)

LEMMA EachRecordAlone == MCSpec => DelSteps /\ StSpec /\ NdSpec /\ UpSteps
<1>1. MCInit => DInit /\ StInit /\ NdInit /\ UpInit
  BY DEF MCInit
<1>2. [MCNext]_mcVars => [DelStep]_delVars
  BY DEF MCNext, mcVars, Delegating, Waits, Stores, Pairs, Updates, DelStep
<1>3. [MCNext]_mcVars => [StNext]_stVars
  BY DEF MCNext, mcVars, Delegating, Waits, Pairs, Updates, Stores
<1>4. [MCNext]_mcVars => [NdNext]_ndVars
  BY DEF MCNext, mcVars, Delegating, Waits, Stores, Updates, Pairs
<1>5. [MCNext]_mcVars => [UpNext]_upVars
  BY DEF MCNext, mcVars, Delegating, Waits, Stores, Pairs, Updates
<1>6. MCSpec => MCInit /\ [][MCNext]_mcVars
  BY PTL DEF MCSpec
<1> QED
  BY <1>1, <1>2, <1>3, <1>4, <1>5, <1>6, PTL DEF DelSteps, StSpec, NdSpec, UpSteps

\* The state of tasks, sessions, nodes and updates is well typed.
THEOREM RecordsTypesKept == MCSpec => []RecordsTypeOK
<1>1. DTypeOK /\ StTypeOK /\ NdTypeOK /\ UpTypeOK => RecordsTypeOK
  BY DEF RecordsTypeOK
<1> QED
  BY <1>1, EachRecordAlone, DelegationBoundedAlways, TranscriptsKeptAlways, NdApprovalsKeptAlways,
     UpdateSafeAlways, PTL

\* Under delegation and agents_wait together, what the theorem above says of the
\* registry of tasks alone: recorded outcomes are those of the work, and a wait
\* that finishes found every task over.
THEOREM TasksToldTogether == MCSpec => TasksTold
<1>1. DelSteps => Spec
  <2>1. DInit => Init
    BY DEF DInit
  <2> QED
    BY <2>1, DelegationIsTaskStep, DelegationBoundedAlways, PTL DEF DelSteps, Spec
<1> QED
  BY <1>1, EachRecordAlone, TasksToldAlways, PTL

=============================================================================
