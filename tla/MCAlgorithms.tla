---------------------------- MODULE MCAlgorithms ----------------------------
(***************************************************************************)
(* The pure parts of the program over every input of their bounds: a state *)
(* is one input, and an invariant says of it what the definition promises. *)
(***************************************************************************)
EXTENDS Routes, Streams, Matching, Agents, Wire, Discovery, Timetable, SkillFiles

VARIABLE input

MCInit == input = [of |-> "none"]

Try(of, cases) == \E c \in cases : input' = [of |-> of, case |-> c]

MCNext ==
  /\ input.of = "none"
  /\ \/ Try("routes", RtCases)
     \/ Try("calls", RtCallCases)
     \/ Try("streams", SmCases)
     \/ Try("matching", MaCases)
     \/ Try("patterns", MaGlobs)
     \/ Try("agents", AgCases)
     \/ Try("wire", WiCases)
     \/ Try("discovery", DiCases)
     \/ Try("timetable", TtCases)
     \/ Try("clock", TtClockCases)
     \/ Try("skills", SkCases)

\* A model goes to a provider the user has a key for, credentials are tried in their order,
\* and an answer is put together whole or is an error (llm, nimbus-min).
ModelsRight ==
  /\ input.of = "routes" => RtRight(input.case)
  /\ input.of = "streams" => SmRight(input.case)

\* What comes next: a call that fails goes on to the next provider or is tried again as
\* long as that can help and no longer, or waits until the provider said and not less, and
\* its reader is told of one ending at most (fallback.go, resilience.go, windows.go); a
\* schedule comes due when it says, once and within its hours, and a heartbeat keeps its
\* distances (cron.go, heartbeat2.go, termux.go).
NextRight ==
  /\ input.of = "calls" => RtRight(input.case)
  /\ input.of = "clock" => TtRight(input.case)

\* The last rule that matches decides, no target of a scope or a hook is missed or taken
\* for another, and a roster means the same in each of its forms (perms, gateway, hooks,
\* agents).
AccessRight ==
  /\ input.of = "matching" => MaRight(input.case)
  /\ input.of = "agents" => AgRight(input.case)

\* A permission rule without a star is for the targets it spells and no others, one with a
\* star for none that differ from it before the star, and it misses no target its pattern
\* means but such as have a star themselves; "dir/**" is for dir, too (perms.go
\* matchPattern).
PatternsRight == input.of = "patterns" => MaRight(input.case)

\* What is cut, framed or encoded comes back whole, however it was cut, and what breaks the
\* rules is told (gateway, pkg/mcp, netdiscover); a job that ran is due no more, a checklist
\* with work in it is not silent, and a skill reads back as it was written (jobs.go,
\* daemon, skills).
TextsRight ==
  /\ input.of = "wire" => WiRight(input.case)
  /\ input.of = "discovery" => DiRight(input.case)
  /\ input.of = "timetable" => TtRight(input.case)
  /\ input.of = "skills" => SkRight(input.case)
=============================================================================
