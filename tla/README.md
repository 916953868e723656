# Nimbus-One: specifications, model checks and proofs

This directory holds TLA+ specifications of Nimbus-One, the configurations that
check them with TLC, and proofs checked by TLAPS. Paths below are relative to
the repository (`internal/tools/queue.go` and so on); line numbers refer to the
commit the modules were translated from. `PROJECT.json` says for each definition
which lines it stands for, lists every component with what is left out of it,
and the hazards the properties are about.

    tlc -workers 2 -config MCFileTools.cfg MCFileTools     # any run below
    tlapm RecordsProofs.tla                                # any module named ...Proofs

## 1. The system

The repository contains two programs. `nimbus-min/` is the product: a small
agent that works from the command line and serves a phone app. `cmd/`,
`internal/` and `pkg/` are the full-scope runtime, `nimbus-one`: an agent engine
over a pool of API keys, with tools, channels, a daemon and on-disk state.

    Telegram  Discord  HTTP/OpenAI/stream  WebSocket  terminal     heartbeat, cron
          \       \          |              /        /                   |
                gateway.Broker.Handle (histories)                        |
                             |                                           |
                    engine.Engine.Run / RunStream  <---------------------+
                     |           |            \             record first -> session store
                 llm.Provider   tools          delegate -> Tasks -> child Engine
              (route, chain,   (queue, edit, patch,
               pool, clients)   process, MCP, skills, ask)

`nimbus-one serve` starts the fronts, the heartbeat and the watchers as
goroutines of one process; `nimbus-one run` is one engine on a terminal;
`nimbus-one update` replaces the binary under whatever runs.

### 1.1 The agent and its tools

**Mutation queue** (`internal/tools/queue.go`). A map from path to a lock object
with a reference count, under the queue's own mutex. `Run` acquires the object,
locks it, runs a function, unlocks, releases. Shared by every tool call of every
engine. Hard: the object is looked up and locked in two steps while others delete
and re-create entries. Correct when operations on one path exclude each other,
nobody is left waiting and no entry leaks.

**File-mutating tools** (`edit.go`, `patch.go`, `fs.go`). `edit` and `apply_patch`
work under the queue, `write` beside it. Hard: a file is read, matched in memory
and written back in two system calls; a patch takes several locks one after the
other; contexts end and disks fail in between. Correct when an edit that was
reported applied is not undone by another.

**Key pool** (`internal/llm/pool`). Per key: health, cooldown deadline, failures in
a row, latency average, requests in flight. Hard: the answer to a request is
reported long after the key was picked, when other requests have changed its
state; the prober acts on a state it read up to 15 s before. Correct when the load
is counted exactly, the breaker trips, cooldowns are served and a call ends.

**Agent loop** (`internal/engine`: `react.go`, `stream.go`, `rules.go`, `mode.go`,
`compact_summary.go`). The conversation, the mode, approvals, what is recorded.
Hard: compaction and overflow heals rewrite the conversation in the middle of a
run, the mode changes between the check of a call and its execution, the process
is killed. Correct when what is executed is recorded first and allowed, the ends of
the conversation survive compaction, and a run ends.

**Delegation and tasks** (`delegate.go`, `tasks.go`, `send.go`). Subagents, each with
a context, a depth and a copy of the engine; a registry of background work.
Hard: which context bounds whom; work ends after it was cancelled or pruned; a
waiter looks at its tasks one by one. Correct when chains of waiting agents are
bounded, read-only agents stay read-only, a recorded outcome is that of the work,
and waiters return.

**User questions** (`ask.go`). A run blocks on a channel of its own. Hard: answers,
cancellations, the timeout and the end of the context race. Correct when the first
answer accepted is the one received, and nobody hangs.

**Processes** (`tools/process.go`). Shells in the background, polled, paged, written
to, killed and pruned by others while a goroutine waits for them. Correct when what
a caller is told of a session was true, and sessions end.

**MCP clients and server** (`pkg/mcp`). Requests over a child's pipes or an event
stream. Hard: answers late, out of order, for nobody, or never; closing during a
call. Correct when a call gets the answer with its id and ends.

### 1.2 The fronts

**Broker** (`gateway/broker.go`, `session.go`) under the chat route, the OpenAI
route, the task API, the event stream, the terminal and its own queue: two runs of
one conversation are not serialised, runs fail or panic, clients leave. Correct when
the record of a conversation is what was said and everybody is told.

**Telegram** (`gateway/telegram*.go`). Polling in batches, the offset in memory and in
a file. Hard: kills within a batch, an answer lost on its way, 429. Correct when every
update is handled.

**Discord** (`gateway/discord_ws.go`). Sessions one after another, a heartbeat
goroutine beside the read loop. Correct when sessions do not overlap, events are
handled once, and a connection whose other end is silent is given up.

**WebSocket server** (`gateway/wsserver.go`). Read loop, pings, a deadline. Correct
when a live peer is kept and served in order, and a dead one dropped.

### 1.3 The daemon and what is on disk

**serve, scheduler, heartbeat, cron** (`cmd/nimbus-one/main.go`, `daemon`, `cron`).
Hard: the checklist changes under a tick, an interrupt comes between two items.
Correct when each item of the list as it was read runs once, in order, and nothing
starts after the interrupt; ids of jobs are not reused.

**Watchers** (`skills/watcher.go`, `gateway/reload.go`). Events with a debounce, or
fingerprints by interval. Correct when a change that stays is loaded.

**Session records** (`state/sessions.go`). Two JSONL files, one replaced by rename,
one appended to. Hard: writes cut short, a crash between the writes of a fork,
stale revisions. Correct when accepted events survive, are numbered without gaps,
and archived sessions are frozen.

**Nodes** (`nettail/nodes.go`). Pairing codes with an expiry, approved nodes, one
file. Hard: failing reads and writes, restarts. Correct when what was approved
stays approved until it is removed, and a code is used once.

**Update** (`internal/update`). Backup, download, swap. Hard: kills at every point,
two commands at once, releases that change in between. Correct when a command that
reports success installed a whole release, and the backup holds what it says.

### 1.4 The pure parts

Choice of provider and model, failover, backoff, key rotation (`llm`); the messages
and streams of the model clients (`llm`, `nimbus-min`); permission rules, scopes,
hooks, who is served; agent rosters and session keys (`agents`); frames, pieces, lines
of a pipe; mDNS names and records (`netdiscover`); schedules, hours and silence (`cron`,
`daemon`); skill files and tiers (`skills`). No state lasts; the boundaries are hard.

### 1.5 nimbus-min

`loop.go`, `confirm.go`, `tools.go`, `compat.go`: one conversation per run, one
workspace for all, the bridge's session list. Hard: several connections and terminal
processes work over one workspace without locks; lines are typed before they are
asked for. Correct when transcripts stay paired, commands are approved one by one,
clients are told what happened, and requests are answered.

## 2. Modules

| Module | Models | How state and actions correspond |
|---|---|---|
| `PathSerializer` | the promise of the queue | per path, who waits and who owns; `Join`, `Enter`, `Leave` |
| `MutationQueue` | `queue.go` | `locks` is the map, `refs` and `holder` the fields of the lock objects, `pc`, `path`, `lock` the locals of a caller; `Acquire`, `Lock`, `Unlock`, `Release` are the steps of `Run` between which others run |
| `FileTools` | `edit.go`, `patch.go`, `fs.go` | EXTENDS the queue. A job is one tool call, a list of operations. A file is the set of fragments that occur exactly once; `Open` truncates, `Fill` writes |
| `KeyPool` | `pool.go`, `prober.go` | a record of variables per key, a program counter per call. Each critical section on a key is one step, `Pick` one of the whole pool. A deadline is in the future or not and `Elapse` moves it |
| `Tasks` | `tasks.go`, `WaitTool` | each method of the registry is a step; the work's return and its recording are two |
| `Delegate` | `delegate.go` | EXTENDS `Tasks`. An agent is a run of an engine; `starter` is who started it and waits for it, unless it is the work of a task; `depth` is what its context says |
| `SessionStore` | `sessions.go` | the log is the sequence of its readable lines and `tail` says how the file ends; each method is a step, except `Fork`, one step per write |
| `ReactLoop` | `react.go`, `stream.go`, `rules.go`, `mode.go`, `compact_summary.go` | the conversation is a sequence of roles; an assistant message knows how many calls it makes. Any stage of compaction and an overflow may come at any query |
| `NimbusMin` | `nimbus-min` | runners are connections and terminals; the workspace is one file, the set of edits in it, truncated and then filled |
| `Broker` | `broker.go`, `session.go` and its callers | `bkSessions` the histories, `bkQueue` the channel, `bkLoop` the dispatcher, `bkCall` the goroutine of each message, `bkSeen` what its client got |
| `OrderedDelivery` | the promise of a poller | what was sent, what was handled to its end, what the sender keeps; `Send`, `Handle`, `Forget`. `TelegramPolling` implements it |
| `TelegramPolling` | `telegram.go`, `telegram_rich.go`, `telegram_policy.go` | what Telegram holds, the batch, the offset in memory and on disk; an update is its number and kind |
| `DiscordGateway` | `discord_ws.go` | the connection, its frames in flight, the flag that a beat is unanswered, the read loop and the heartbeat as two program counters |
| `WsServer` | `wsserver.go` | frames sent and unread, the request handled, intervals since the last read |
| `McpClient` | `client.go`, `sse.go` | per call its id, counter and result; the line of the pipe or the pump's table |
| `Processes` | `process.go` | per session the shell, its output and its flags; a caller keeps what it looked up under the lock and goes on without it |
| `OneAnswer` | the promise of a question | whether it is open, the answer accepted, what who asked was told; `Accept`, `Learn`, `GiveUp` and so on. `Ask` implements it |
| `Ask` | `ask.go` | the set of pending questions, one channel of capacity one per question |
| `Daemon` | `cmdServe`, `scheduler.go`, `heartbeat.go`, `jobs.go`, `tool.go` | the checklist, the items of the tick, the stop flag, the job registry |
| `SkillsWatch` | `watcher.go`, `registry.go`, `reload.go` | a file is the version of its content; what is watched, the timer, what was loaded |
| `Nodes` | `nodes.go` | the registry in memory, the one in the file (or a torn file), codes by number |
| `Update` | `update.go`, `cmdUpdate` | directory entries and inodes, what is in each inode, a counter per command. A backup is copied chunk by chunk into the directory named by its second, which two commands may share |
| `Routes`, `Streams` | `llm`, `buildProvider`, clients of `nimbus-min` | operators with the code's shape (`RtChat`, `SmPart`, ...) beside what they promise (`...Right`) |
| `Matching`, `Agents` | `perms`, `hooks`, scopes, Telegram policy; `agents` | the same |
| `Wire`, `Discovery` | frames, pieces, pipes; `mdns.go` | the same; a name on the wire is bytes, in a record labels |
| `Timetable`, `SkillFiles` | `cron`, heartbeat hours and silence; skill files | the same, over a calendar of 24 minutes |

The operators of the pure modules are not compared with a second copy of the code:
`MaMeans` says what a pattern means by the existence of a placement of its parts,
a stream's answer must be the calls that were cut into its pieces, a skill must read
back as it was written, a name decoded must be the one encoded or be refused.

MC modules give constants their values. `MCFileTools`, `MCKeyPool`, `MCReactLoop` and
`MCNimbusMin` have one component each; `MCRecords` (what outlives a step) and `MCServe`
(the nine parts that serve runs) hold components that share nothing with each other: a
behaviour picks one *scenario* at the start and the variables of the others rest, so
that the state spaces add up instead of multiplying. `MCKeyPool` has three scenarios of
its one component. `MCAlgorithms` has one state per input, a pair of the module's part
and the input (`RtCallCases`, `TtClockCases` and `MaGlobs` are the inputs of the
operators that section 4 proves right).

Composition: `FileTools` extends `MutationQueue`, and `EditsSerialized` says that the
tools use it as `Run` prescribes (a tool mutates a path only while it runs there),
so what is proved of the queue holds under them (`FileToolsProofs`). `Delegate`
extends `Tasks`. Three abstract specifications say what a component promises, and the
detailed one implements it: `PathSerializer` (`ImplementsSerializer`),
`OrderedDelivery` (`TgDeliversInOrder`) and `OneAnswer` (`AkOneAnswer`). `Broker`
carries the fronts; its promise to a caller (one answer in the end, checked by
`GatewayServes`) is what `TelegramPolling`, `DiscordGateway` and `WsServer` assume of
a run. `ReactLoop` treats the model, the tools and the session store as environment:
they succeed, fail or refuse at will.

Mutant operators (`...Off`, `...Late`, `...Always` and so on, each with the word
*Mutant* in its comment) stand before the definition they could replace. They
are not used by the specifications; substituting one makes TLC refute the
property paired with it in `PROJECT.json`, which shows that the property depends
on that line of code.

## 3. Runs

State counts are of distinct states; each run takes at most about two minutes.

| Run | States | Shows |
|---|---|---|
| `file_tools` | 313 602 | mutual exclusion, exact counts, no lost edit, every write based on what is in the file, no circular wait; the tools implement `PathSerializer` |
| `key_pool` | 242 109 | exact load, breaker, cooldown, and every call returns, with keys it has tried and keys it has not |
| `records` | 224 529 | what a task is reported to have done is so, waiting is bounded and read-only agents stay so, transcripts, approvals, backups and the updated binary are kept, waits and updates end |
| `react_loop` | 918 546 | recording before execution, plan mode, compaction, termination |
| `nimbus_min` | 361 000 | pairing, approvals, edits, what clients are told, answers |
| `serve` | 211 684 | the record of a conversation is truthful, Telegram's updates are handled in order and at least once, Discord sessions stay apart, a live WebSocket peer is served in order; answers of MCP and of users reach who asked, what is told of a process is so, the heartbeat does the list as it was; everybody is told in the end |
| `algorithms` | 162 805 | the pure parts on every input of their bounds |
| `pool_dead`, `delegate_nested`, `react_newest`, `telegram_twice`, `discord_live` | | one documented claim each that the code does not keep (section 6) |

Each composed property is a conjunction of named parts that stand in the component's
module with a comment of their own.

### Bounds, and why they are enough

- `file_tools`: two callers, two paths, two lock objects, five tool calls each
  made once by either caller. Two callers are what it takes for an entry to be
  deleted and created again between the steps of another; two paths taken in
  opposite orders are what it takes for a circular wait. A lock object is needed
  per caller at most, so two addresses include every reuse. The queue itself is
  proved for any number.
- `key_pool`: three scenarios over two keys. *crowd*: three callers on one key, the
  other having been killed, with every kind of answer. *probe*: two callers on that key
  beside the prober. *choice*: two callers and two good keys, so that a call that failed
  picks again, among keys it has tried and keys it has not; a key fails at most twice in
  a row there (`MaxRow`), because the thresholds are reached in the others. Latencies
  lie on both sides of the 3000 ms limit and the thresholds are the code's own, 3 and 5.
  Failures above 5 are indistinguishable to the code and saturate. For any number of
  keys the invariants and the cooldown are proved (section 4).
- `records`: two tasks, three subagents and one waiter: a chain of two foreground
  delegations, which is the cap, and a background one beside it, which may delegate in
  its turn; the waiter's scenario has tasks of any origin, because waiting only reads
  the registry. Two session keys, one of which can be a fork of the other, one writer
  that holds a revision, three appends, two cut writes (so that a cut line can meet
  another). Two pairings, two failing reads or writes. Two update commands, at once or
  one after the other, in one second or in two, two published versions, and a data file
  of two chunks that is written once: a write between the two chunks tears the copy.
  `delegate_nested` has three tasks, three subagents and the cap of 2.
- `react_loop`: the code's constants for what is kept (8) and heals (2), attempts 2
  instead of 3 (first and last), four steps and two calls a step. Fourteen messages can
  be summarised more than once. One mode switch and one row the store fails to write in
  a run. `react_newest` has the same bounds. The ruleset "deny" is left out: its verdict
  is one the plan mode gives as well.
- `nimbus_min`: two connections and a terminal, two runs in all, two turns; one
  client may leave; the answers of the model include a call after a failed one, two
  edits and two commands.
- `serve`: two messages on one conversation in five pairs of fronts, among them two
  that meet in a queue of one; resets at any time. Two Telegram updates of eight
  kinds, one fault, replies of two pieces. Two Discord events, two faults, two
  attempts instead of five. Two WebSocket requests, a deadline of two ping
  intervals instead of three, with which being late by one is already a difference.
  Two calls of each MCP transport and one stray line; one process of two
  bytes, read a byte at a time, with a reader and a writer; two questions, two users;
  three contents of the checklist, two ticks, two jobs, three configurations; two
  skill directories and two changes, which is what it takes for one to fall into the
  debounce of the other.
- `algorithms`: patterns to four letters and targets to three, stars among both, streams
  of three lines, four frames, buffers of five bytes, rosters of two agents, failover
  lists of three, skill files of five lines, every minute of the calendar. The calendar
  has two minutes to the hour, two hours to the day and three days to the month, so that
  every carry happens, and two-day weeks that are out of step with the months.

### Fairness, and why the code justifies it

Safety needs none. For liveness:

- `KeyPool`: a call that has begun goes on. Its callers give it a context with a
  deadline (`gateway/broker.go:113` 120 s, `engine/delegate.go:185` 5 min, the
  `run` command 10 min), because the model clients themselves have no timeout
  (`llm/client.go:46-50` uses `http.DefaultClient`). The heartbeat is the one
  caller without a deadline (`daemon/heartbeat.go:79`): for it the property says
  nothing.
- `ReactLoop`: one weak-fairness condition on the run, with the same reason. A tool
  is given the context; that a handler of approvals answers is assumed. Nothing
  obliges users to switch modes, or the process to be killed.
- `MCRecords`: the subagents' deadline of five minutes, the recording of an ended
  work, the clock, the steps of a waiter and of an update command whose requests end
  with its context of five minutes. Work nobody delegated may run for ever, and
  a user who is asked need not answer.
- `NimbusMin`: the goroutine of a connection goes on, and the model answers or its
  client times out after 120 s (`netguard.go:64`). Nothing is assumed of clients,
  users or terminal processes, which is why that run does not report a state where
  they all stopped.
- `MCServe`: `FairStep(k)`, k from 1 to 3, is a choice by scenario, so that few
  conditions serve all: a behaviour stays in its scenario, and fairness to the choice,
  over the variables of that scenario (`Alone`), is fairness to the component's own
  steps. Actions that can happen only so often share a choice, since fairness to any of
  them is then fairness to all. Runs of the engine end (120 s in `Handle`), goroutines
  that can go on do, timers fire, an MCP server that is neither silent nor gone answers.
  Nobody must send, ask, fail, stop or change a file. A Telegram process that was killed
  need not be started again, and a poll need not ever get through; sends and voice
  downloads use a client without a timeout under serve's own context
  (`telegram.go:279,436`), so they may hang for ever (`TgHang`), and what waits for one
  of them is exempt. The bound on Telegram's faults only limits how many happen. A
  sender blocked in `Enqueue` is among those who must be served while the broker's loop
  runs; when the loop is stopped it stays blocked, which the formula exempts and section
  6 notes. `Close` of an MCP client is among the waits, except behind a call that waits
  on a silent stdio child: it takes the lock that call holds before it kills the child
  (`client.go:145`). nimbus-min's writes to a WebSocket have no deadline
  (`compat.go:371`): there a peer that stays connected is assumed to read. Runs of the
  heartbeat end once the process has been told to stop, because their context does.
- `file_tools` has no temporal formula. Its specification lets everybody rest when all
  calls have returned and at no other time (`Rest`, a stuttering step), so that TLC
  reports any other state where nobody can go on as a deadlock. Every step brings a call
  nearer its end, so this is the claim that all calls return, and cheaper.

In the other runs deadlock is not reported, because there everybody may have stopped for
good: all calls made, bounds used up, connections closed.

## 4. What is proved

TLAPS checks the following for every value of the constants that satisfies the
named ASSUMEs, which TLC evaluates in the runs above; the runs also check the
properties the theorems name on small instances. An invariant that is not inductive
is strengthened, and the conjuncts that had to be added say *why* the code is right:
they are listed below. They stand in the proof modules; each was checked with TLC
on the configuration of its run before it was proved.

Every safety property of the runs is proved, with the exceptions at the end of this
section. The component's own step relation is what a proof is about; that a
scenario of an MC module lets one component move and leaves the others alone are the
lemmas `EachFrontAlone`, `EachServiceAlone` and `EachRecordAlone`, which carry the
theorems over to `MCSpec`.

**`KeyPoolProofs`** (any finite sets of callers and keys, any latencies, any
thresholds with `HttpTrip` between 1 and `NetTrip`):

- `Inductive`: `IInv` is the type invariant with `AttemptLeft` (a call that holds a
  key has an attempt left, without which the count of attempts would leave its
  range), `InFlightExact`, `BreakerTrips` and `DegradedMeansSick`.
- `LoadIsExact`: by lemmas that a flight begins with one report and ends with
  exactly one, on every way out of `Complete`.
- `BreakerHolds`: `BreakerTrips` and `DegradedMeansSick`. A failure that leaves a
  key in rotation had a count below the threshold; whatever puts a key back
  resets its count.
- `CooldownServed`: an action property from the type invariant, one step per
  action: only a probe that began earlier ends a cooldown before its deadline.

**`FileToolsProofs`**. Of the queue (any finite set of callers, any paths and
addresses; the nil values are distinct from them):

- `Inductive`: `IInv` is `TypeOK`, `SameLock` (a caller inside `Run` points to the
  object its path's entry points to), `HolderOK` (a running caller holds that
  object), `Injective` (no object serves two paths) and `RefsExact` (an entry's
  count is the number of callers inside `Run` for its path). `Exclusive` alone is
  not inductive: without `SameLock` two callers could hold two objects of one
  path, and `SameLock` holds only because an entry is deleted at count zero,
  which needs the counts to be exact; these need `Injective`. The cardinality
  argument is that one caller enters or leaves the set of active callers of one
  path at a time.
- `TypeCorrect`, `MutualExclusion`, `ReferenceCounts` and, from the last two,
  `QueueSafeAlways` follow from it.
- `Implements`: every step is a step of `PathSerializer` or a stutter, with the
  waiting and the running callers of a path as its state. `Acquire` is `Join`,
  `Lock` is `Enter`, `Unlock` is `Leave`, `Release` a stutter.

Of the tools on it (any calls, callers, paths and contents; `JobsFormed` says what the
parsers let through, `FilesFormed` that an absent file is no content):

- `EditsSerializedAlways`: every step of a tool is a step of the queue or leaves it
  alone; an edit or a patch writes what it computed from what the file still holds
  (`WriteBasedOnCurrent`); what was reported applied is there until another
  operation takes it away (`NoLostUpdate`). The invariant `ToolsInv` adds to that of
  the queue `Placed` (where a call is in its tool says where it is in the queue) and
  `Kept`: a fragment is in the file, in the body of the one who has truncated the
  file, or consumed. `NoLostUpdate` says nothing of a file that is being
  written, and is not inductive for that reason.
- The lemmas about `Substitute` say that the replacements of an edit, if they all
  apply, leave each new text in the result unless a later replacement takes it.
- `ToolsUseTheQueue`: exclusion, exact counts and the refinement of `PathSerializer`
  under the tools, by the theorems of the queue.
- `NoCircularWaitAlways`: whoever waits for a lock waits for somebody who runs, on
  that path, and does not wait himself. `HeldByRunning` says that a lock object that is
  locked is held by a caller inside its function, and a caller there is in the
  tool that made it run, which enters the queue again only after it has left it. That
  `Acquire` always finds a lock object (`ObjectFound`) needs one address per caller
  (`LocksSuffice`): the callers inside `Run` use at most one each.

**`ReactLoopProofs`** (`LoopParameters`: limits are naturals, one attempt and one
message to keep at least):

- `ExecutedRightlyAlways`: `LoopInv` adds `RunShape` (a step to spare and a call to run
  in a turn, attempts left while one is run), `OpenCounted` (an attempted call is
  open; before it none is open but those whose rows were missed) and `OneWrite` (in
  plan mode the call that was let through before the switch is the only one): the
  check comes before the execution, so the switch in between is what there is to
  bound.
- `EndsKeptAlways`: the system prompt stays at the head; a summary keeps the newest
  `KeepLast` messages, the extractive compactor an end of the conversation, all of it but
  one message or but three tenths. An action property by the shapes of `Oldest`, `Summarized`
  and of their composition: a head that is kept, a notice or a summary, and a tail of
  the conversation. That the extractive compactor does not keep the newest `KeepLast` is
  the run `react_newest`.

**`NimbusMinProofs`** (connections and terminals are disjoint, answers of the model
are sequences of calls):

- `CallsSettledAlways`: in a turn the answer's calls are those with a result followed by
  those without (`Turn`); the lines a terminal has read are lines typed
  (`LinesKept`).
- `TruthfulAlways`: unless writers have overlapped there is one writer, and what it
  holds in memory is what the file is to hold (`Alone`); a request has one
  session at most, none before it is recorded (`OneSession`), so that what the
  handler finds as its own is its own.

**`RecordsProofs`**:

- `TasksToldAlways`, `TasksToldTogether` (any number of tasks and waiters): a recorded
  task has returned (`TaskHistory`), and a task that a waiter has looked at and not
  noted stays ended (`WaitersLook`), which is what makes "all finished" true
  although the tasks are looked at one by one.
- `DelegationBoundedAlways` (any number of subagents, any cap): a chain of agents that
  wait on each other is as long as its depth says and no longer than the cap
  (`WaitersBounded`), and an agent in plan mode stays in it and starts nobody, to wait for
  or in the background (`ReadOnlyStays`). The invariant adds `StartersStarted`: whoever
  started a subagent was started before, so no depth changes under a chain. How deep
  agents start each other through tasks nothing bounds (`delegate_nested`).
- `TranscriptsKeptAlways` (any finite set of keys, any numbers of appends and cuts): an
  acknowledged event stays a line of the file, but for one per cut write (`LossBounded`);
  it has a higher number than those of its session before it, in sessions that a failed
  fork has damaged too (`AckedInOrder`), and the others are numbered without a gap
  (`Numbered`); once a line is over 1 MiB nothing is acknowledged any more (`JamHolds`),
  so that what can then no longer be read is what was acknowledged up to that line; and
  `ArchivedFrozen`, `ForkFaithful`, `Isolated`. `StInv` adds
  that a line without its newline is not an acknowledged one (`StLastUnacked`), that
  a cut nothing was written onto has cost nothing yet (`StLossCounted`), that a
  session that does not exist has no lines but a fork's (`StNoneYet`), and that
  what a fork has copied and has still to copy is the parent's transcript
  (`StForkExact`). The first two are what makes the bound one event per cut.
- `NdApprovalsKeptAlways`: once the file was read an approved node is in memory too, so
  that the next save does not drop it; whatever is pending was told and is not
  spent.
- `UpdateSafeAlways` (any commands, data files and releases whose tags grow, `TagsGrow`):
  while commands have not overlapped at most one downloads, and what it has open is
  what the name stands for (`UpOneLoads`); the binary never has that name
  (`UpNamed`). Of a backup, `UpCopied` is the invariant: the chunks copied so far are as
  the file had them since the consent, in the order of time. A file that is written
  meanwhile may be torn in the backup, and two commands that share a directory are
  excepted: the code promises no more. That `NeedsUpdate` is asymmetric is a lemma of its own
  (`UpdatesOneWay`).

**`GatewayProofs`**:

- `BkRecordFaithfulAlways`: a message queued has not been handled and is queued once,
  `Handle` has returned exactly when there is a reply, and nothing is recorded of
  a message that was not handled.
- `TgNothingLostEver`: everything below the update at hand came to its end, the batch
  goes on from there without a gap (`TgBatchInOrder`), and when no batch is open all
  below the offset did (`TgReached`). The type invariant needs a bound on how often an
  update is run: twice in one life of the process, and each further life takes a
  fault.
- `TgDeliversInOrderAlways`: every step of the poller is a step of `OrderedDelivery`
  or a stutter. What is sent are the updates, what is handled those that came to
  their end, and what Telegram keeps begins where the last request's offset pointed. The
  invariant is that of `TgNothingLostEver`: it places the offset on the wire, in memory
  and on disk behind updates that ended, so that no restart makes Telegram
  forget another.
- `AdaptersKeepAlways` joins `TgNothingLostEver` and the two that follow.
- `DcSessionsApartAlways`: the events on the wire are newer than what was read, and in
  order; Connect's count runs ahead of the failures in a row by one at most.
- `WsServesLivePeerAlways`: the requests not yet read stand in the queue in order, each
  once, from the one behind those answered; a peer that is there has its pong on the
  way when the deadline nears. This needs a deadline of at least two intervals
  (`WsAssumption`; the code has three).

**`ServicesProofs`**:

- `McOwnAnswerAlways`: a call's channel holds what was put there for its own id, and the
  counter is one ahead of the number of calls that have an id.
- `PrToldTrulyAlways`: a session called done has ended so and shows all it wrote, one
  called finished or killed has ended, one that took or refused a write was started, no
  cursor is past its log and no running session is pruned. The invariant: flags that
  were read stay true, because a shell that has ended stays ended (`PrFlagsTrue`), and
  whatever a caller has looked up was started (`PrLookedUp`).
- `ToldTrulyAlways` joins these two and the next.
- `AkFirstWinsAlways`: a question that is still in the map has told nobody, and one that
  is not has told one.
- `AkOneAnswerAlways`: the questions implement `OneAnswer`. A question is open while it
  is in the map, its accepted answer is the one in the channel or the one told; the
  answers to a question do not depend on the order in which answer, timeout and the
  end of the context come, and what is accepted too late is not told.
- `DmFaithfulAlways`: what was run and what is left are a list of the file's; what was
  handed over embeds in what was run in order (`DmToldUpTo`); ids are handed out in
  sequence.
- `SwTypeOKAlways`: the watcher's types, for `ServicesTypesKept`.

**`AlgorithmsProofs`** (inputs of every length and size, where `MCAlgorithms` takes
those within its bounds):

- `CompleteRightAlways`, `ChatRightAlways` (any list of providers and any outcomes):
  failover asks them in order and goes on just past those whose error is a reason to;
  the reader of a stream gets one ending at most, behind all text, and none only
  where the last provider stopped without a word. `RetryRightAlways`,
  `WaitRightAlways`, `GuardRightAlways`: attempts stay within their number, a wait is
  never negative and ends when the provider said (for a reset given in milliseconds, not
  before), a window that fills up never looks emptier.
- `PatternMeansWhatItSays`: a pattern without a star matches what it spells and nothing
  else; one with a star matches nothing that differs from it before the star, and misses
  no target that a placement of its parts (`MaMeans`) accepts, unless the target has a
  star of its own. By two lemmas on the loop: up to the first star it walks the two texts
  letter by letter (`GlobWalks`, `GlobSpells`); behind it (`Ahead`, `TurnKeepsAhead`) the rest
  of the pattern still fits the rest of the target from where the cursors are, or from a
  place the last star can go back to. That the loop ends is a measure (`ToGo`), by which
  `GlobStarIs` also shows that the recursive function is the loop. Behind a star the
  converse is not true of the code, nor is the rest for targets with a star (section 6,
  permissions).
- `DueRightAlways`: `TtNextTime` returns the earliest minute ahead that matches within
  the horizon (`NextFinds`), so a job is due just when a matching minute has come since
  it was last run, and a watcher that looks at any times misses none (`now <= last +
  TtHorizon`, because `Next` gives up at the horizon). `FieldRightAlways` is about the
  fields themselves, with steps, ranges and lists; `RunnerRightAlways`,
  `PaceRightAlways` and `ActiveRightAlways` about the heartbeat's intervals and hours.
- `NextRightAlways`, `PatternsRightAlways`: two of the run's invariants, from those.

Recursion and induction. The library's induction theorems take an operator as a
parameter, which no installed prover can instantiate. Facts about recursive functions
are proved by the least number for which they would fail (`Least`):
`NatLessThanWellFounded` gives one, and the step before it does not fail. That a
recursive definition, which TLA+ takes as the choice of *some* function with its
equation, satisfies the equation at all is the lemma `Recursion`: if the step
looks only at arguments of lower rank (`LooksBelow`), there is a solution.
`ListRecursion` and `Backwards` are its forms for the functions that go along
a sequence.

Only model-checked:

- liveness (`CallReturns`, `RecordsEnd`, `RunEnds`, `ChatAnswered`, `GatewayServes`,
  `ServicesEnd`) and the absence of deadlock in `file_tools`, because the prover knows
  neither fairness nor ENABLED; that nobody waits in a circle is proved;
- three of the five invariants of `algorithms`: `ModelsRight`, `AccessRight` and
  `TextsRight`. They are about folds over sequences and `SelectSeq`, which take operators
  and cannot be expanded in a proof, and about powers of two.

## 5. Abstractions a reader should know

- `FileTools` leaves out the patch parser, the diff in the result and files that
  change outside the program. Fragments stand for texts that occur once.
- `KeyPool` leaves out jitter and the exact averages: after a success a key's
  latency is any of the values, and its state follows. `Pick` is one step: reports on
  other keys may come between its looks at two keys, which chooses no key that a report
  right after the pick could not have made as stale.
- `SessionStore` gives the n-th event the content n. A cut write leaves a line
  without its newline, part of it or all but the newline; what follows joins it
  and both are unreadable. A line over 1 MiB
  is a flag that stays: the scanner stops there, for every session and after a restart,
  although the append that wrote the line succeeded.
- `ReactLoop` leaves out what messages say and how long they are. Pruning old tool
  results changes no message in the model; hooks and the memory that is added to
  the prompt are left out.
- `NimbusMin` counts overlapping writers as `disturbed` and says nothing of the
  file's content afterwards: nothing in the repository promises more. What a
  shell command does to the file is left out, as are frames and the app's page.
- `Broker` leaves the engine open: a run answers with text, with nothing, fails or
  panics. The prompt is a function of the message alone, so histories are written and
  not read by a run.
- `TelegramPolling` has updates by number, in the order Telegram gives them; what
  Telegram no longer keeps is what lies below the last offset asked for.
- `DiscordGateway` keeps the network's order and loses whole connections, not frames.
- `McpClient` has the child's output as a sequence of lines and the event stream as
  events; headers and the endpoint event are part of connecting.
- `Processes` has a log as its length; `Nodes` draws codes that do not repeat;
  `Update` takes a download as whole or broken and `fsync` as done; a data file is its
  chunks, of which each copy reads one at a time, and a version counts its writes.
- `Daemon` has the parts that serve starts as names: what they do is in modules of
  their own.
- The pure modules take texts as sequences over the letters that the code tells apart.
  Where the code's own text promises less than one would expect, `...Right` promises
  that much, and section 6 says what was seen.

## 6. Where the code and its documentation differ

Shown by a run:

| Run | Claim | What happens |
|---|---|---|
| `pool_dead` | "marked Dead and never retried silently" (`docs/TROUBLESHOOTING.md:7-8`) | a rate limit reported late by another request turns Dead into CoolingDown |
| `delegate_nested` | "the top agent may delegate, and a subagent may do work, but subagents may not spawn their own subagents. Depth travels in the context so background tasks inherit it correctly" (`delegate.go:14-16`) | the cap of 2 lets a subagent start another, and the context of a background task is the task's own: its subagent begins at depth 1, so that three start each other in a row |
| `react_newest` | "Protection window: newest N messages are never compacted" (`compact_summary.go:21`, also `:5-7`) | when a summary fails, the extractive compactor drops the oldest three tenths, even if messages of the newest eight are among them |
| `telegram_twice` | "routes one update's text (or transcribed voice) through the broker" (`telegram.go:291`) | a voice note is run and answered by its own path, and then by that of the texts |
| `discord_live` | "If an ACK is still outstanding when the next beat is due" (`discord_ws.go:323`) | an acknowledgement read before the flag is set leaves it set: the connection is closed with nothing outstanding |

Noticed while modelling, without a run of their own.

*Engine and tools.* "Every operation validates first, then all apply" (`patch.go:3-5`),
but whether a block matches is found out when it is applied. Grants follow the mutex,
not the arrival promised at `queue.go:28-29`; `write` bypasses the queue (`fs.go:197`,
against `queue.go:70`); files are rewritten in place (`edit.go:160`). "Every key in the
pool failed" (`pool.go:74`) may be said while attempts all went to one key and another
is healthy (`pool.go:302`). The prober revives a key on a state it read before the probe
(`prober.go:108`). A cancelled task whose work succeeds becomes Done (`tasks.go:70`),
which `TasksTold` takes as right: the outcome is that of the work. A mode switch does
not reach running subagents. Compaction separates tool results from their call
(`mode.go:99`). A stream that falls back records the user's message twice
(`stream.go:56`). An accepted answer can be lost to the timeout (`ask.go:125-139`).
`poll` of a process racing `prune` reads an empty log.

*Models.* A failover in the middle of a stream repeats text (`fallback.go:135-208`), and
`Chain.Chat` may end with neither Done nor an error. A stream that ends without `[DONE]`
counts as complete, and an error object inside a stream is an empty answer. A call
without an id becomes `toolu_<name>` while its result is keyed by the name
(`providers.go:138,149`). `x-ratelimit-reset` in milliseconds (`resilience.go:83-91`
knows that providers send it) is read as seconds, so the wait is far too long;
`NextRight` asks only that it does not end early. Usage of Anthropic's answers is not
read; an "error" event of opencode with a good exit is an answer. nimbus-min's OpenAI
client takes null content without calls as a silent empty turn. Arguments of a script
may share an environment variable (`exec.go`).

*Permissions.* "`*` spanning any characters" (`perms.go:78`), but after a failed match
only the target's cursor falls back and the pattern's goes on (`perms.go:94`): `*.env`
matches `.env2` and `*/` matches `/a`, against `perms.go:26-28` as well. `PatternsRight`
therefore asks of what stands behind a star only that nothing is missed that the pattern
means; and a star in a target is compared as a letter before the pattern's is
taken for one (`perms.go:84`), so that `*b` misses the target `*ab`.

*Fronts.* Polling cancels its context before the body is read (`telegram.go:567`);
serve gives Telegram no offset file; the webhook runs an update under a request's
context that has ended. Pairing, edited streaming, the webhook, `Trim`, the
configuration watcher, `Chain`, lanes, the profile store, the packages `agents` and
`nettail`, `AskTool` and `SessionStore` are not wired into any program. `POST
/api/v1/task` whose run answers with nothing is never done for its poller
(`http.go:156`). A control frame between fragments, a body glued to its frame and
cuts in the middle of a character are taken as they come; methods that are known are
answered even without an id. nimbus-min's page says that
commands pause for approval (`compat.go:433`) while the bridge refuses them. Nothing
calls `Enqueue` or `Broker.Start`; whoever would be blocked in `Enqueue` when the loop is
stopped stays blocked. A send or a voice download of Telegram that gets no answer hangs
the poller (`telegram.go:279,436`).

*Daemon and disk.* "Skill hot-reload without restarts" (`main.go:930`,
`docs/COMMANDS.md:70`): the watcher's callback fills a registry that nobody reads.
Nothing calls `MarkRan` or runs cron jobs by itself; a panic in one runner takes the
rest of the tick with it. The parts that answer on the network start before serve
refuses a LAN address without a token. 30 February never comes due, and "70/5" is
accepted. A skill put into a directory made later is never watched; `LoadDir` keeps the
last of a name and `LoadAll` the first. A line over 1 MiB is acknowledged and then no
transcript can be read, of any session (`sessions.go:403,415`). A fork that begins on a
cut line loses its first copied event (`sessions.go:252`), and one that fails leaves the
events it has copied under the child's key; two processes on one `JSONLStore` give out
the same ids (`store.go:83`). The cap of nodes is not enforced (`nodes.go:172` drops the
result), and the registry counts as loaded before it is read. Two updates at once share
`<binary>.new`, so the binary may be a mixture; two in the same second share a backup
directory (`update.go:248-263`), and a file that is written while it is copied is torn
in the backup (`update.go:316-341`); `Run` installs what is the latest then, not what
was asked about. In agents.yaml, ids with capitals lose their configuration, and a list
at its key's own indentation drops what follows. nimbus-min's workspace root, "set once
at startup" (`jail.go:13`), is written by every run of the bridge.

## 7. What is left

**Not modelled, and why.** Command, git, web and device tools, browser, media, verify,
doctor, setup and self-test call external programs and servers and keep no state a
property could relate. Lanes and the SQLite store: a mutex per session that nothing
takes, and single statements to a SQL engine. The JSONL store appends lines with the
number after the largest, which `SessionStore` does with harder operations. Vector and
BM25 search score with floating-point numbers. The secret store is cryptography; the
path and token checks of nimbus-min's jail, configuration, prompts, the terminal
interface and the web page are text. `PROJECT.json` has the reason of every part.

**Proofs.** What is left is in the pure modules: that an allowed key is one of the
pool's (`RtPool`, `RtOrder`), that a verdict denies whenever a deny rule matches
(`MaEvaluate`, `MaScope`), that a frame's length is read as it was written (`WiFrames`,
`WiLength`), pieces of a text (`WiChunk`). All fold over sequences; each would have to be
stated with a recursive function of its own in place of the fold. An abstract
specification that would be worth stating beside the three is a log with lossy
appends for `SessionStore`.
