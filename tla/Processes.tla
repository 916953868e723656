----------------------------- MODULE Processes -----------------------------
(***************************************************************************)
(* Background shell sessions (internal/tools/process.go): a supervisor     *)
(* that starts a shell under a deadline, a goroutine that waits for it,    *)
(* and callers that poll, page through the log, write to stdin, kill, list *)
(* and prune at the same time.  A caller looks a session up under the      *)
(* manager's lock and then works without it.  A log is its length.         *)
(***************************************************************************)
EXTENDS Naturals, FiniteSets

CONSTANTS
  PrProcs,    \* the sessions started, in the order of their ids: 1..n
  PrClients,  \* the callers whose calls of the tool may overlap
  PrUses,     \* [PrClients -> the actions of the tool it calls]
  PrMaxLog,   \* bound on the bytes a session writes
  PrPage      \* bytes of one Log call (64 KiB in the code)

ASSUME PrAssumption == PrMaxLog \in Nat /\ PrPage \in Nat \ {0} /\ PrProcs \subseteq Nat \ {0}
                       /\ PrUses \in [PrClients -> SUBSET {"start", "poll", "list", "log", "write", "kill", "prune"}]

VARIABLES
  prKnown,   \* ProcessManager.procs
  prShell,   \* "none", "running", "ok" or "failed" once it has exited
  prHeirs,   \* sessions whose shell left a child behind, which nothing kills, that holds the log open
  prDone,    \* bgProc.done with exitErr: "no", "ok" or "failed"
  prLog,     \* length of the log file
  prCall,    \* what each caller is doing
  prTold,    \* what the last call to return told
  prPages    \* the cursor each caller was given last, and of which session

prVars == <<prKnown, prShell, prHeirs, prDone, prLog, prCall, prTold, prPages>>

PrIdle == [op |-> "idle", p |-> 0, pc |-> "-", rest |-> {}, done |-> "no"]
PrSaid == [p : PrProcs \union {0}, as : {"none", "running", "ok", "failed", "sent", "broken", "finished", "killed", "unknown"},
           total : 0..PrMaxLog]
PrSay(p, as, total) == prTold' = [p |-> p, as |-> as, total |-> total]

PrInit ==
  /\ prKnown = {} /\ prShell = [p \in PrProcs |-> "none"] /\ prHeirs = {}
  /\ prDone = [p \in PrProcs |-> "no"] /\ prLog = [p \in PrProcs |-> 0]
  /\ prCall = [c \in PrClients |-> PrIdle]
  /\ prTold = [p |-> 0, as |-> "none", total |-> 0]
  /\ prPages = [c \in PrClients |-> [p |-> 0, cursor |-> 0]]

-----------------------------------------------------------------------------
\* The machine: the shell writes, leaves a child, exits; the deadline of its
\* context kills it.
PrOutput(p) ==
  /\ prShell[p] = "running" \/ p \in prHeirs
  /\ prLog[p] < PrMaxLog
  /\ prLog' = [prLog EXCEPT ![p] = @ + 1]
  /\ UNCHANGED <<prKnown, prShell, prHeirs, prDone, prCall, prTold, prPages>>

PrExit(p) ==
  /\ prShell[p] = "running"
  /\ \E how \in {"ok", "failed"} : prShell' = [prShell EXCEPT ![p] = how]
  /\ prHeirs' \in {prHeirs, prHeirs \union {p}}
  /\ UNCHANGED <<prKnown, prDone, prLog, prCall, prTold, prPages>>

PrDeadline(p) ==
  /\ prShell[p] = "running"
  /\ prShell' = [prShell EXCEPT ![p] = "failed"]
  /\ UNCHANGED <<prKnown, prHeirs, prDone, prLog, prCall, prTold, prPages>>

\* The goroutine of Start: Wait returns, the flags are set.
PrWaited(p) ==
  /\ prShell[p] \in {"ok", "failed"} /\ prDone[p] = "no"
  /\ prDone' = [prDone EXCEPT ![p] = prShell[p]]
  /\ UNCHANGED <<prKnown, prShell, prHeirs, prLog, prCall, prTold, prPages>>

-----------------------------------------------------------------------------
\* Start: the next id, unless the command is empty or the shell does not start.
PrStart(c) ==
  /\ prCall[c] = PrIdle /\ "start" \in PrUses[c]
  /\ \E p \in PrProcs :
       /\ prShell[p] = "none" /\ \A q \in PrProcs : q < p => prShell[q] # "none"
       /\ prShell' = [prShell EXCEPT ![p] = "running"]
       /\ prKnown' = prKnown \union {p}
  /\ UNCHANGED <<prHeirs, prDone, prLog, prCall, prTold, prPages>>

PrBegin(c, op, ids) ==
  /\ prCall[c] = PrIdle /\ ids # {}
  /\ prCall' = [prCall EXCEPT ![c] = [PrIdle EXCEPT !.op = op, !.pc = "get", !.rest = ids]]
  /\ UNCHANGED <<prKnown, prShell, prHeirs, prDone, prLog, prTold, prPages>>

\* List polls every session it found in the map, one after another.
PrList(c) == "list" \in PrUses[c] /\ PrBegin(c, "poll", prKnown)

PrExecute(c) ==
  \/ PrList(c)
  \/ \E op \in {"poll", "log", "write", "kill"} \intersect PrUses[c], p \in PrProcs : PrBegin(c, op, {p})

\* get, under the manager's lock; an id that is not there ends the call, or is
\* skipped by List.
PrGet(c) ==
  LET call == prCall[c]
      p == CHOOSE q \in call.rest : \A r \in call.rest : q <= r
      left == call.rest \ {p} IN
  /\ call.pc = "get"
  /\ prCall' = [prCall EXCEPT ![c] =
       IF p \in prKnown THEN [call EXCEPT !.p = p, !.rest = left, !.pc = "flags"]
       ELSE IF left # {} THEN [call EXCEPT !.rest = left] ELSE PrIdle]
  /\ IF p \in prKnown THEN UNCHANGED prTold ELSE PrSay(p, "unknown", 0)
  /\ UNCHANGED <<prKnown, prShell, prHeirs, prDone, prLog, prPages>>

PrAfter(call) == IF call.rest = {} THEN PrIdle ELSE [call EXCEPT !.pc = "get"]

\* Poll reads the flags under the session's lock ...
PrFlags(c) ==
  /\ prCall[c].op = "poll" /\ prCall[c].pc = "flags"
  /\ prCall' = [prCall EXCEPT ![c].done = prDone[prCall[c].p], ![c].pc = "tail"]
  /\ UNCHANGED <<prKnown, prShell, prHeirs, prDone, prLog, prTold, prPages>>

\* ... and then the log; a log that was pruned in between reads as empty.
PrTail(c) ==
  LET call == prCall[c] IN
  /\ call.pc = "tail"
  /\ PrSay(call.p, IF call.done = "no" THEN "running" ELSE call.done,
           IF call.p \in prKnown THEN prLog[call.p] ELSE 0)
  /\ prCall' = [prCall EXCEPT ![c] = PrAfter(call)]
  /\ UNCHANGED <<prKnown, prShell, prHeirs, prDone, prLog, prPages>>

\* mutant: the page is not clamped to the end of the log
PrCutWhole(from, size) == PrPage

\* Log: from the cursor of the page before, clamped to the size, at most a page.
PrCut(from, size) == IF size - from < PrPage THEN size - from ELSE PrPage

PrLogPage(c) ==
  LET call == prCall[c]
      from == IF prPages[c].p = call.p THEN prPages[c].cursor ELSE 0
      n == PrCut(from, prLog[call.p]) IN
  /\ call.op = "log" /\ call.pc = "flags"
  /\ prPages' = [prPages EXCEPT ![c] =
       IF call.p \in prKnown THEN [p |-> call.p, cursor |-> from + n] ELSE @]
  /\ prCall' = [prCall EXCEPT ![c] = PrIdle]
  /\ UNCHANGED <<prKnown, prShell, prHeirs, prDone, prLog, prTold>>

\* Somebody reads the shell's input: the shell, or a child it left, until Wait
\* closes the pipe.
PrReads(p) == prShell[p] = "running" \/ (p \in prHeirs /\ prDone[p] = "no")

\* Write: refused once the flags say done; the pipe may be gone before they do, or
\* closed by the shell.
PrWrite(c) ==
  LET call == prCall[c] IN
  /\ call.op = "write" /\ call.pc \in {"flags", "pipe"}
  /\ IF call.pc = "flags" /\ prDone[call.p] = "no"
       THEN prCall' = [prCall EXCEPT ![c].pc = "pipe"] /\ UNCHANGED prTold
       ELSE /\ \E as \in IF call.pc = "flags" THEN {"finished"}
                          ELSE {"broken"} \union (IF PrReads(call.p) THEN {"sent"} ELSE {}) :
                 PrSay(call.p, as, 0)
            /\ prCall' = [prCall EXCEPT ![c] = PrIdle]
  /\ UNCHANGED <<prKnown, prShell, prHeirs, prDone, prLog, prPages>>

\* Kill: cancel and kill, then up to five seconds for the goroutine to notice.
PrKill(c) ==
  LET p == prCall[c].p IN
  /\ prCall[c].op = "kill" /\ prCall[c].pc = "flags"
  /\ prShell' = [prShell EXCEPT ![p] = IF @ = "running" THEN "failed" ELSE @]
  /\ prCall' = [prCall EXCEPT ![c].pc = "wait"]
  /\ UNCHANGED <<prKnown, prHeirs, prDone, prLog, prTold, prPages>>

PrKilled(c) ==
  /\ prCall[c].pc = "wait"
  /\ PrSay(prCall[c].p, "killed", 0)
  /\ prCall' = [prCall EXCEPT ![c] = PrIdle]
  /\ UNCHANGED <<prKnown, prShell, prHeirs, prDone, prLog, prPages>>

\* Prune: every session marked done leaves the map with its log, under the lock.
PrPrunable == {p \in prKnown : prDone[p] # "no"}

PrPrune(c) ==
  /\ prCall[c] = PrIdle /\ "prune" \in PrUses[c] /\ PrPrunable # {}
  /\ prKnown' = prKnown \ PrPrunable
  /\ UNCHANGED <<prShell, prHeirs, prDone, prLog, prCall, prTold, prPages>>

PrCallStep(c) == PrGet(c) \/ PrFlags(c) \/ PrTail(c) \/ PrLogPage(c) \/ PrWrite(c) \/ PrKill(c) \/ PrKilled(c)
PrMachine(p) == PrOutput(p) \/ PrExit(p) \/ PrDeadline(p) \/ PrWaited(p)

PrNext ==
  \/ \E c \in PrClients : PrStart(c) \/ PrExecute(c) \/ PrPrune(c) \/ PrCallStep(c)
  \/ \E p \in PrProcs : PrMachine(p)

-----------------------------------------------------------------------------
PrTypeOK ==
  /\ prKnown \subseteq PrProcs /\ prHeirs \subseteq PrProcs
  /\ prShell \in [PrProcs -> {"none", "running", "ok", "failed"}]
  /\ prDone \in [PrProcs -> {"no", "ok", "failed"}] /\ prLog \in [PrProcs -> 0..PrMaxLog]
  /\ prCall \in [PrClients -> [op : {"idle", "poll", "log", "write", "kill"}, p : PrProcs \union {0},
        pc : {"-", "get", "flags", "tail", "pipe", "wait"}, rest : SUBSET PrProcs, done : {"no", "ok", "failed"}]]
  /\ prTold \in PrSaid
  /\ prPages \in [PrClients -> [p : PrProcs \union {0}, cursor : 0..PrMaxLog]]

\* A poll or a list that calls a session done shows all it will ever write, unless
\* a child of the shell outlived it or the session was pruned while it was polled;
\* a write is refused as to a finished session, and a session is called killed, only
\* when its shell has ended, and neither "sent" nor "broken" is said of one that was
\* not started; the cursor given with a page is not past what the session has
\* written, so that the next page leaves nothing out; a running session is never
\* pruned.
PrToldTruly ==
  /\ prTold.as \in {"ok", "failed"} =>
       /\ prShell[prTold.p] = prTold.as
       /\ prTold.p \in prKnown \ prHeirs => prTold.total = prLog[prTold.p]
  /\ prTold.as \in {"finished", "killed"} => prShell[prTold.p] \in {"ok", "failed"}
  /\ prTold.as \in {"sent", "broken"} => prShell[prTold.p] # "none"
  /\ \A c \in PrClients : prPages[c].p # 0 => prPages[c].cursor <= prLog[prPages[c].p]
  /\ \A p \in PrProcs : prShell[p] = "running" => p \in prKnown

\* A session that has not been seen to end, and a call of the tool under way.
PrRuns(p)  == prShell[p] # "none" /\ prDone[p] = "no"
PrWaits(c) == prCall[c] # PrIdle
=============================================================================
