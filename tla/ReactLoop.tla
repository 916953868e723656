----------------------------- MODULE ReactLoop -----------------------------
(***************************************************************************)
(* internal/engine: react.go, stream.go, rules.go, mode.go and             *)
(* compact_summary.go.  One Run (or RunStream) at a time asks the model,   *)
(* executes the tools it calls and asks again, while the user switches the *)
(* mode, the caller's context ends, or the process is killed.              *)
(*                                                                         *)
(* A message is its role and, for an assistant message, how many tool      *)
(* calls it makes; what it says and how long it is are left out, so the    *)
(* budget of the context may ask for any stage of compaction at any turn   *)
(* and any query may overflow.  Pruning shortens old tool results in place *)
(* and changes no message here.                                            *)
(***************************************************************************)
EXTENDS Integers, Sequences, FiniteSets

CONSTANTS MaxSteps,   \* Engine.MaxSteps
          MaxCalls,   \* bound: tool calls in one assistant message
          KeepLast,   \* compactKeepLast (8 in the code)
          MaxHeals,   \* overflow heals in one Run (2 in the code)
          MaxTries,   \* attempts to execute a tool (3 in the code)
          MaxFlips,   \* bound: mode switches in one Run
          MaxMissed,  \* bound: rows the session store fails to write
          Policies    \* rulesets to consider, see Verdict

ASSUME LoopParameters ==
  /\ {MaxSteps, MaxCalls, KeepLast, MaxHeals, MaxTries, MaxFlips, MaxMissed} \subseteq Nat
  /\ MaxTries > 0 /\ KeepLast > 0
ASSUME KnownPolicies  == Policies \subseteq {"none", "ask", "deny"}

VARIABLES pc,        \* where the run is
          streams,   \* it is a RunStream
          policy,    \* Engine.Ruleset: "none" (the mode decides) or an explicit one
          mode,      \* Engine.Mode
          approved,  \* an approval for the mutating tool has been given
          msgs,      \* local variable msgs
          step,      \* local variable step
          heals,     \* local variable overflows
          calls,     \* tool calls of this turn still to run
          tool,      \* the tool of the call being run
          tries,     \* attempts made for it
          row,       \* the assistant message of this turn is recorded, or was missed (history)
          open,      \* calls executed whose result is not recorded (history)
          missed,    \* rows the store failed to write (history)
          flips,     \* mode switches in this run (history)
          writes     \* mutating calls begun since the last switch to plan mode (history)

env   == <<policy, mode, approved, flips>>
local == <<streams, msgs, step, heals, calls, tool, tries>>
hist  == <<row, open, missed, writes>>
vars  == <<pc, env, local, hist>>

Tools  == {"read", "shell"}
System == {"prompt", "plan", "note"}           \* messages whose Role is system
Roles  == System \cup {"user", "asst", "tool"}
Msg(r)  == [role |-> r, n |-> 0]
PCs    == {"idle", "top", "query", "turn", "check", "ask", "exec", "result"}

TypeOK ==
  /\ pc       \in PCs
  /\ streams  \in BOOLEAN
  /\ policy   \in Policies
  /\ mode     \in {"plan", "build"}
  /\ approved \in BOOLEAN
  /\ msgs     \in Seq([role : Roles, n : 0..MaxCalls])
  /\ step     \in 0..MaxSteps
  /\ heals    \in 0..MaxHeals
  /\ calls    \in 0..MaxCalls
  /\ tool     \in Tools
  /\ tries    \in 0..MaxTries
  /\ row      \in BOOLEAN
  /\ open     \in Nat
  /\ missed   \in 0..MaxMissed
  /\ flips    \in 0..MaxFlips
  /\ writes   \in Nat

Init ==
  /\ pc = "idle" /\ streams = FALSE /\ policy \in Policies /\ mode \in {"plan", "build"}
  /\ approved = FALSE /\ msgs = <<>> /\ step = 0 /\ heals = 0 /\ calls = 0
  /\ tool = "read" /\ tries = 0 /\ row = FALSE
  /\ open = 0 /\ missed = 0 /\ flips = 0 /\ writes = 0

----------------------------------------------------------------------------
\* persist: a row is written, or the store fails, which never fails the run.
Persist == \/ missed' = missed
           \/ missed < MaxMissed /\ missed' = missed + 1

\* Mutant: the mode at the start of the run decides.
VerdictStart(t) == IF t = "read" \/ (policy = "none" /\ \A i \in DOMAIN msgs : msgs[i].role # "plan")
                   THEN "allow" ELSE IF approved THEN "allow" ELSE "deny"

\* The verdict of the ruleset in force on a tool.  Without a ruleset the mode
\* decides; approvals are looked at last and win.
Verdict(t) ==
  CASE t = "read"                            -> "allow"
    [] t = "shell" /\ approved               -> "allow"
    [] t = "shell" /\ ~approved /\ policy = "none" -> IF mode = "plan" THEN "deny" ELSE "allow"
    [] t = "shell" /\ ~approved /\ policy = "ask"  -> "ask"
    [] t = "shell" /\ ~approved /\ policy = "deny" -> "deny"

\* The run is over, by an answer or by an error.
End ==
  /\ pc'    = "idle"
  /\ msgs'  = <<>>
  /\ step'  = 0 /\ heals' = 0 /\ calls' = 0 /\ tries' = 0 /\ tool' = "read"
  /\ UNCHANGED streams

Opening(prompt) ==
  (IF prompt THEN <<Msg("prompt")>> ELSE <<>>) \o <<Msg("user")>>
    \o (IF policy = "none" /\ mode = "plan" THEN <<Msg("plan")>> ELSE <<>>)

Begin(s, prompt) ==
  /\ pc = "idle"
  /\ pc' = "top" /\ streams' = s
  /\ msgs' = Opening(prompt)
  /\ Persist
  /\ row' = FALSE /\ open' = 0 /\ flips' = 0 /\ writes' = 0
  /\ UNCHANGED <<policy, mode, approved, step, heals, calls, tool, tries>>

\* The system message at the head, which both compactors keep.
HeadLen(m) == IF m # <<>> /\ m[1].role \in System THEN 1 ELSE 0

\* compactOldest(msgs, 30).
Oldest(m) ==
  LET h   == HeadLen(m)
      n   == Len(m) - h
      pct == (n * 30) \div 100
      cut == IF pct < 1 THEN 1 ELSE pct
      cut1 == IF cut >= n THEN n - 1 ELSE cut
  IN  IF Len(m) <= 2 THEN m
      ELSE SubSeq(m, 1, h) \o <<Msg("note")>> \o SubSeq(m, h + cut1 + 1, Len(m))

\* Mutant: the messages to keep are counted from the wrong end.
SummarizedHead(m) ==
  SubSeq(m, 1, HeadLen(m) + KeepLast) \o <<Msg("note")>>

\* summaryCompact when the summary succeeds.
Summarized(m) ==
  SubSeq(m, 1, HeadLen(m)) \o <<Msg("note")>> \o SubSeq(m, Len(m) - KeepLast + 1, Len(m))

Summarizable(m) == Len(m) > KeepLast + 1 /\ Len(m) - HeadLen(m) > KeepLast

\* maybeCompact: nothing to do, or pruning, which records a row; ...
CompactStep ==
  /\ pc = "top" /\ step < MaxSteps
  /\ pc' = "query"
  /\ UNCHANGED <<env, streams, step, heals, calls, tool, tries, row, open, writes>>

Untouched == CompactStep /\ UNCHANGED msgs /\ Persist

\* ... a summary by the model; ...
Summarise == CompactStep /\ Summarizable(msgs) /\ Persist /\ msgs' = Summarized(msgs)

\* ... or, when the summary fails, the extractive compactor.
FallBack == CompactStep /\ Summarizable(msgs) /\ Persist /\ msgs' = Oldest(msgs)

Compact == Untouched \/ Summarise \/ FallBack

\* The loop runs out of steps: an error.
OutOfSteps ==
  /\ pc = "top" /\ step = MaxSteps
  /\ End
  /\ UNCHANGED <<env, hist>>

\* The context has ended where the loop looks at it, or the model fails.
Fail ==
  /\ pc \in {"top", "query", "check"}
  /\ End
  /\ UNCHANGED <<env, hist>>

\* Mutant: heals are not counted.
HealedNever(n) == n

Healed(n) == n + 1

\* The provider reports an overflow: Run compacts and sends again at once
\* (RunStream does not heal).
Heal ==
  /\ pc = "query" /\ ~streams
  /\ heals < MaxHeals /\ Len(msgs) > 2
  /\ heals' = Healed(heals)
  /\ msgs'  = Oldest(msgs)
  /\ pc'    = "top"
  /\ UNCHANGED <<env, streams, step, calls, tool, tries, hist>>

\* RunStream's first Chat fails: it becomes a Run, which starts over.
Degrade ==
  /\ pc = "query" /\ streams /\ step = 0
  /\ streams' = FALSE
  /\ pc' = "top"
  /\ \E prompt \in BOOLEAN :
       /\ prompt <=> msgs[1].role = "prompt"
       /\ msgs' = Opening(prompt)
  /\ Persist
  /\ UNCHANGED <<env, step, heals, calls, tool, tries, row, open, writes>>

\* Where an answer goes first.
Answered(n) == "turn"

\* The model answers with n tool calls.
Answer(n) ==
  /\ pc = "query"
  /\ msgs'  = Append(msgs, [role |-> "asst", n |-> n])
  /\ calls' = n
  /\ pc'    = Answered(n)
  /\ UNCHANGED <<env, streams, step, heals, tool, tries, hist>>

\* The answer is recorded; without calls it is the result of the run.
RecordTurn ==
  /\ pc = "turn"
  /\ Persist
  /\ IF calls = 0
     THEN row' = FALSE /\ End
     ELSE /\ row' = TRUE /\ pc' = "check"
          /\ UNCHANGED local
  /\ UNCHANGED <<env, open, writes>>

----------------------------------------------------------------------------
\* executeWithRetries.  The model calls tool t; a call that is denied, has
\* malformed arguments or names an unknown tool is answered by a message.
Check(t) ==
  /\ pc = "check"
  /\ tool'  = t
  /\ tries' = 0
  /\ \/ pc' = "result"
     \/ Verdict(t) = "ask"   /\ pc' = "ask"
     \/ Verdict(t) = "allow" /\ pc' = "exec"
  /\ UNCHANGED <<env, streams, msgs, step, heals, calls, hist>>

\* resolveAsk: the user approves, for good, or refuses (as no handler does).
Resolve ==
  /\ pc = "ask"
  /\ \/ approved' = TRUE /\ pc' = "exec"
     \/ UNCHANGED approved /\ pc' = "result"
  /\ UNCHANGED <<policy, mode, flips, local, hist>>

\* Mutant: one attempt too many.
AgainOff(n) == n <= MaxTries

\* A failed attempt, the n-th, is followed by another.
Again(n) == n < MaxTries

\* One attempt, after which the call has succeeded, is tried again, or has
\* failed; the end of the context comes before an attempt.
Attempt ==
  /\ pc = "exec"
  /\ tries' = tries + 1
  /\ pc' \in {"result"} \cup (IF Again(tries') THEN {"exec"} ELSE {})
  /\ open'   = IF tries = 0 THEN open + 1 ELSE open
  /\ writes' = IF tries = 0 /\ tool = "shell" /\ mode = "plan" THEN writes + 1 ELSE writes
  /\ UNCHANGED <<env, streams, msgs, step, heals, calls, tool, row, missed>>

Cancelled ==
  /\ pc = "exec"
  /\ pc' = "result"
  /\ UNCHANGED <<env, local, hist>>

\* The loop goes on to the next call, or to the next step.
Advance ==
  /\ calls' = calls - 1
  /\ IF calls = 1 THEN pc' = "top" /\ step' = step + 1 /\ row' = FALSE
                  ELSE pc' = "check" /\ UNCHANGED <<step, row>>

\* Recording a result closes its call.
Settled(n) == n - 1

\* The result, or the message in its place, goes to the model and is recorded.
RecordResult ==
  /\ pc = "result"
  /\ msgs' = Append(msgs, Msg("tool"))
  /\ Persist
  /\ open' = IF tries > 0 /\ missed' = missed THEN Settled(open) ELSE open
  /\ Advance
  /\ UNCHANGED <<env, streams, heals, tool, tries, writes>>

----------------------------------------------------------------------------
\* SetMode, at any time.
SetMode(m) ==
  /\ m # mode /\ flips < MaxFlips
  /\ mode' = m
  /\ flips' = flips + 1
  /\ writes' = 0
  /\ UNCHANGED <<pc, policy, approved, local, row, open, missed>>

\* The process is killed: the run is gone, its rows stay.
Crash ==
  /\ pc # "idle"
  /\ End
  /\ UNCHANGED <<env, hist>>

RunStep ==
  \/ Compact \/ OutOfSteps \/ Fail \/ Heal \/ Degrade
  \/ \E n \in 0..MaxCalls : Answer(n)
  \/ RecordTurn
  \/ \E t \in Tools : Check(t)
  \/ Resolve \/ Attempt \/ Cancelled \/ RecordResult

Next ==
  \/ \E s, prompt \in BOOLEAN : Begin(s, prompt)
  \/ RunStep
  \/ \E m \in {"plan", "build"} : SetMode(m)
  \/ Crash

Spec == Init /\ [][Next]_vars

\* A model call and a tool end, by an answer or by the end of the caller's
\* context, which has a deadline in all callers but the heartbeat.  A question
\* to the user has none (rules.go:123): that its handler answers is assumed;
\* the program installs none, and the call is refused at once.
FairSpec == Spec /\ WF_vars(RunStep)

----------------------------------------------------------------------------
\* Whatever is executed has been asked for by an answer that is recorded, so
\* that after a kill the session shows who asked ("record-before-execute",
\* session.go:8); the store failing is the only exception.
RecordBeforeExecute == pc \in {"check", "ask", "exec", "result"} => row

\* At any moment, after a kill included, at most one executed call is without
\* a recorded result, beside those the store failed to write.
OneOpenCall == open <= 1 + missed

\* Switching to plan mode stops a run in its tracks: at most the one mutating
\* call that had already been checked is still executed.
PlanStopsWrites == policy = "none" => writes <= 1

\* A session shows what was executed in it, whenever the process is killed, and
\* nothing is executed that the mode had ruled out.
ExecutedRightly == RecordBeforeExecute /\ OneOpenCall /\ PlanStopsWrites

\* "the system prompt is never dropped" (compact_summary.go:6-7), by whatever
\* sequence of summaries, fallbacks and heals.
PromptKept ==
  [][msgs # <<>> /\ msgs[1].role = "prompt" /\ msgs' # <<>> => msgs'[1].role = "prompt"]_vars

\* The k newest messages are the same after the step.
SuffixKept(k) ==
  /\ k <= Len(msgs) /\ k <= Len(msgs')
  /\ SubSeq(msgs', Len(msgs') - k + 1, Len(msgs')) = SubSeq(msgs, Len(msgs) - k + 1, Len(msgs))

\* A summary keeps the newest KeepLast messages.  The extractive compactor, after
\* a summary that failed or an overflow, promises less and may cut into them
\* (NewestProtected): whatever stands behind its note is the end of the
\* conversation as it was, the newest message in it, and what it drops is one
\* message or at most three tenths of those behind the head.
NewestKept ==
  [][/\ Summarise => SuffixKept(KeepLast)
     /\ (FallBack \/ Heal) /\ msgs' # msgs =>
          LET body == Len(msgs) - HeadLen(msgs)
              k    == Len(msgs') - HeadLen(msgs) - 1
          IN  /\ k >= 1 /\ SuffixKept(k)
              /\ body - k = 1 \/ 10 * (body - k) <= 3 * body]_vars

\* The head stays through any sequence of compactions, and of the newest messages
\* each stage keeps what it can be said to keep.
EndsKept == PromptKept /\ NewestKept

\* "Protection window: newest N messages are never compacted"
\* (compact_summary.go:21; "the newest turns are always protected", :5-6): the
\* extractive compactor, called when the summary fails, knows no such window.
NewestProtected == [][Compact /\ msgs' # msgs => SuffixKept(KeepLast)]_vars

\* Every run ends: heals and repeated attempts are bounded.
RunEnds == (pc # "idle") ~> (pc = "idle")
=============================================================================
