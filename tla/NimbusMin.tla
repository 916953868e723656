----------------------------- MODULE NimbusMin -----------------------------
(***************************************************************************)
(* nimbus-min: loop.go, confirm.go, tools.go, compat.go.  One serve        *)
(* process with a goroutine per app connection, and terminal runs in       *)
(* processes of their own, all over one workspace.  An agent run asks the  *)
(* model, executes the calls of its answer in order, sends the results     *)
(* back, and stops when there are no more calls or after MaxTurns.         *)
(*                                                                         *)
(* The workspace is one file, seen as the set of edits it holds.  Writing  *)
(* it truncates it and then fills it, in two steps, and nothing locks it.  *)
(* A call that changes no file (read, list, an unknown name, a rejected    *)
(* path) is a "look".  What a shell command does to the file is left out.  *)
(***************************************************************************)
EXTENDS Integers, Sequences, FiniteSets, Functions

CONSTANTS Conns,     \* connections to the bridge
          Terms,     \* terminal runs
          Leavers,   \* bound: connections whose client may go away
          MaxTurns,  \* 25 in the code
          Answers,   \* bound: runner |-> the sequences of calls the model may answer with
          MaxRuns,   \* bound: agent runs, of connections and terminals together
          MaxLines   \* bound: lines typed at one terminal

Runners == Conns \cup Terms
Kinds   == {"look", "write", "edit", "shell"}

ASSUME AnswersCall == \A r \in Runners : Answers[r] \subseteq Seq(Kinds) \ {<<>>}
ASSUME MinParties  == Conns \cap Terms = {} /\ MaxTurns \in Nat

VARIABLES pc,        \* runner |-> where it is
          turn,      \* runner |-> local variable turn
          msgs,      \* runner |-> the end of local variable msgs, its calls only
          todo,      \* runner |-> calls of this turn still to execute
          results,   \* runner |-> calls of this turn with a result
          buf,       \* runner |-> content an edit or a write is about to put
          file, torn,          \* the file's edits; is it truncated?
          open, authed, chats, \* connection |-> client there, authenticated, requests accepted
          seq, sessions,       \* the bridge's
          told,      \* connection |-> sessions its client was told of
          typed, read, \* terminal |-> lines typed; how many of them were read
          applied, disturbed, \* history: edits reported since the last write; did two writers overlap, or a write fail halfway?
          ran                  \* history: runner |-> commands run

loopVars   == <<turn, msgs, todo, results>>
fileVars   == <<buf, file, torn, applied, disturbed>>
bridgeVars == <<open, authed, chats, seq, sessions, told>>
termVars   == <<typed, read, ran>>
vars       == <<pc, loopVars, fileVars, bridgeVars, termVars>>


TypeOK ==
  /\ pc \in [Runners -> {"idle", "ask", "tools", "edit", "fill", "confirm", "record", "reply", "closed"}]
  /\ turn \in [Runners -> 0..MaxTurns]
  /\ \A r \in Runners : pc[r] \in {"tools", "edit", "fill", "confirm"} <=> todo[r] # <<>>
  /\ \A c \in Conns : chats[c] > 0 => authed[c]
  /\ torn => file = {}

Init ==
  /\ pc      = [r \in Runners |-> "idle"]
  /\ turn    = [r \in Runners |-> 0]
  /\ msgs    = [r \in Runners |-> <<>>]
  /\ todo    = [r \in Runners |-> <<>>]
  /\ results = [r \in Runners |-> <<>>]
  /\ buf     = [r \in Runners |-> {}]
  /\ file    = {} /\ torn = FALSE /\ applied = {} /\ disturbed = FALSE
  /\ open    = [c \in Conns |-> TRUE]
  /\ authed  = [c \in Conns |-> FALSE]
  /\ chats   = [c \in Conns |-> 0]
  /\ seq     = 0 /\ sessions = <<>>
  /\ told    = [c \in Conns |-> {}]
  /\ typed   = [t \in Terms |-> <<>>]
  /\ read    = [t \in Terms |-> 0]
  /\ ran     = [r \in Runners |-> 0]

At(r, p) == pc' = [pc EXCEPT ![r] = p]

----------------------------------------------------------------------------
\* The agent loop.
Opening(r) == [role |-> "user", calls |-> <<>>]

RunsBegun == FoldFunction(+, Cardinality({t \in Terms : pc[t] # "idle"}), chats)

Begin(r) ==
  /\ At(r, "ask")
  /\ msgs' = [msgs EXCEPT ![r] = <<Opening(r)>>]
  /\ UNCHANGED <<turn, todo, results>>

\* runAgent returns.
Return(r) ==
  /\ turn'    = [turn EXCEPT ![r] = 0]
  /\ msgs'    = [msgs EXCEPT ![r] = <<>>]
  /\ todo'    = [todo EXCEPT ![r] = <<>>]
  /\ results' = [results EXCEPT ![r] = <<>>]

\* A run that failed answers with an error and leaves no session.
Fail(r) == Return(r) /\ At(r, IF r \in Conns THEN "idle" ELSE "closed")
Done(r) == Return(r) /\ At(r, IF r \in Conns THEN "record" ELSE "closed")

\* Mutant: one turn too many.
MoreOff(r) == turn[r] <= MaxTurns

\* The condition of the loop.
More(r) == turn[r] < MaxTurns

OutOfTurns(r) ==
  /\ pc[r] = "ask" /\ ~More(r)
  /\ Fail(r)
  /\ UNCHANGED <<fileVars, bridgeVars, termVars>>

\* The model answers with calls, or without (which is a failure too when it has
\* said nothing in the whole run), or fails: an API error, a timeout, a
\* configuration that no longer validates.
Ask(r) ==
  /\ pc[r] = "ask" /\ More(r)
  /\ \/ Fail(r)
     \/ Done(r)
     \/ \E calls \in Answers[r] :
          /\ msgs'   = [msgs EXCEPT ![r] = <<[role |-> "assistant", calls |-> calls]>>]
          /\ todo'   = [todo EXCEPT ![r] = calls]
          /\ At(r, "tools")
          /\ UNCHANGED <<turn, results>>
  /\ UNCHANGED <<fileVars, bridgeVars, termVars>>

\* Mutant: a call that fails gets no result.
ResultsIfOk(r, ok) == IF ok THEN Append(results[r], Head(todo[r])) ELSE results[r]

\* The results so far with that of the call at hand, failed or not.
Results(r, ok) == Append(results[r], Head(todo[r]))

\* Mutant: a turn whose last call failed does not count.
NextTurnIfOk(r, ok) == IF ok THEN turn[r] + 1 ELSE turn[r]

NextTurn(r, ok) == turn[r] + 1

\* The call at hand has its result; after the last one the results are sent.
Settle(r, ok) ==
     IF Len(todo[r]) > 1
       THEN /\ todo'    = [todo EXCEPT ![r] = Tail(@)]
            /\ results' = [results EXCEPT ![r] = Results(r, ok)]
            /\ At(r, "tools")
            /\ UNCHANGED <<turn, msgs>>
       ELSE /\ todo'    = [todo EXCEPT ![r] = <<>>]
            /\ results' = [results EXCEPT ![r] = <<>>]
            /\ msgs'    = [msgs EXCEPT ![r] = Append(@, [role |-> "user", calls |-> Results(r, ok)])]
            /\ turn'    = [turn EXCEPT ![r] = NextTurn(r, ok)]
            /\ At(r, "ask")

Call(r, k) == pc[r] = "tools" /\ Head(todo[r]) = k

Look(r) ==
  /\ Call(r, "look")
  /\ \E ok \in BOOLEAN : Settle(r, ok)
  /\ UNCHANGED <<fileVars, bridgeVars, termVars>>

----------------------------------------------------------------------------
\* Files.  A writer is a runner between reading or truncating the file and
\* filling it.
Writers  == {r \in Runners : pc[r] \in {"edit", "fill"}}
Enter(r) == disturbed' = (disturbed \/ Writers # {})

\* toolWrite: open and truncate.
Write(r) ==
  /\ Call(r, "write")
  /\ \/ /\ file' = {} /\ torn' = TRUE
        /\ buf' = [buf EXCEPT ![r] = {}]
        /\ Enter(r) /\ At(r, "fill")
        /\ UNCHANGED <<loopVars, applied>>
     \/ Settle(r, FALSE) /\ UNCHANGED fileVars
  /\ UNCHANGED <<bridgeVars, termVars>>

\* The edit at hand: its run, its turn and its place in the answer.
Edit(r) == <<r, IF r \in Conns THEN chats[r] ELSE 0, turn[r], Len(todo[r])>>

Updated(r) == file \cup {Edit(r)}

\* toolEdit: read the file and compute the new content.  In a truncated file
\* the search text occurs no times, which is an error, like any mismatch.
EditRead(r) ==
  /\ Call(r, "edit")
  /\ \/ /\ ~torn
        /\ buf' = [buf EXCEPT ![r] = Updated(r)]
        /\ Enter(r) /\ At(r, "edit")
        /\ UNCHANGED <<loopVars, file, torn, applied>>
     \/ Settle(r, FALSE) /\ UNCHANGED fileVars
  /\ UNCHANGED <<bridgeVars, termVars>>

\* toolEdit: open and truncate.
EditTruncate(r) ==
  /\ pc[r] = "edit"
  /\ file' = {} /\ torn' = TRUE
  /\ At(r, "fill")
  /\ UNCHANGED <<loopVars, buf, applied, disturbed, bridgeVars, termVars>>

\* The content is written from the start of the file.  When somebody else has
\* written since the truncation, some of both is left: from then on the content
\* is anything, and is not followed.  A write that fails leaves an empty file.
Fill(r) ==
  /\ pc[r] = "fill"
  /\ \/ /\ Settle(r, TRUE)
        /\ torn' = FALSE
        /\ UNCHANGED disturbed
     \/ /\ Settle(r, FALSE)
        /\ disturbed' = TRUE
        /\ UNCHANGED torn
  /\ file'    = IF disturbed' THEN {} ELSE buf[r]
  /\ applied' = IF disturbed' \/ Head(todo[r]) = "write" THEN {} ELSE applied \cup {Edit(r)}
  /\ buf' = [buf EXCEPT ![r] = {}]
  /\ UNCHANGED <<bridgeVars, termVars>>

----------------------------------------------------------------------------
\* Shell commands.
\* The bridge runs the agent headless: confirmShell refuses.
Refuse(c) ==
  /\ c \in Conns /\ Call(c, "shell")
  /\ Settle(c, FALSE)
  /\ UNCHANGED <<fileVars, bridgeVars, termVars>>

\* checkShellText may reject the command; otherwise it is shown.
Prompt(t) ==
  /\ t \in Terms /\ Call(t, "shell")
  /\ \/ At(t, "confirm") /\ UNCHANGED loopVars
     \/ Settle(t, FALSE)
  /\ UNCHANGED <<fileVars, bridgeVars, termVars>>

\* The lines one prompt reads.
Consumed(t) == 1

\* One line is read, typed before or after the prompt; any but "yes" refuses.
Confirm(t) ==
  /\ t \in Terms /\ pc[t] = "confirm" /\ read[t] < Len(typed[t])
  /\ read' = [read EXCEPT ![t] = @ + Consumed(t)]
  /\ IF typed[t][read[t] + 1] = "yes"
       THEN (\E ok \in BOOLEAN : Settle(t, ok)) /\ ran' = [ran EXCEPT ![t] = @ + 1]
       ELSE Settle(t, FALSE) /\ UNCHANGED ran
  /\ UNCHANGED <<fileVars, bridgeVars, typed>>

Type(t) ==
  /\ Len(typed[t]) < MaxLines /\ pc[t] \notin {"idle", "closed"}
  /\ \E line \in {"yes", "other"} : typed' = [typed EXCEPT ![t] = Append(@, line)]
  /\ UNCHANGED <<pc, loopVars, fileVars, bridgeVars, read, ran>>

\* A terminal run begins, or is interrupted anywhere.
CmdRun(t) ==
  /\ t \in Terms /\ pc[t] = "idle" /\ RunsBegun < MaxRuns
  /\ Begin(t)
  /\ UNCHANGED <<fileVars, bridgeVars, termVars>>

Interrupt(t) ==
  /\ pc[t] \notin {"idle", "closed"}
  /\ At(t, "closed")
  /\ Return(t)
  /\ disturbed' = (disturbed \/ pc[t] = "fill")
  /\ buf' = [buf EXCEPT ![t] = {}]
  /\ UNCHANGED <<file, torn, applied, bridgeVars, termVars>>

----------------------------------------------------------------------------
\* The bridge.  A connection handles its frames one by one; it reads the next
\* when the answer to the last has been written.
Reads(c) == pc[c] = "idle" /\ open[c]

\* A good connect authenticates; a bad one, or an old protocol, leaves the
\* connection as it was.
Connect(c) ==
  /\ Reads(c)
  /\ authed' = [authed EXCEPT ![c] = TRUE]
  /\ UNCHANGED <<pc, loopVars, fileVars, open, chats, seq, sessions, told, termVars>>

\* chat.send with a text; without one, or before connect, it is an error.
ChatSend(c) ==
  /\ Reads(c) /\ authed[c] /\ RunsBegun < MaxRuns
  /\ chats' = [chats EXCEPT ![c] = @ + 1]
  /\ Begin(c)
  /\ UNCHANGED <<fileVars, open, authed, seq, sessions, told, termVars>>

SessionsList(c) ==
  /\ Reads(c) /\ authed[c]
  /\ told' = [told EXCEPT ![c] = @ \cup {sessions[i] : i \in DOMAIN sessions}]
  /\ UNCHANGED <<pc, loopVars, fileVars, open, authed, chats, seq, sessions, termVars>>

\* The run has succeeded: under b.mu, a session is recorded.
Record(c) ==
  /\ c \in Conns /\ pc[c] = "record"
  /\ seq' = seq + 1
  /\ sessions' = Append(sessions, [id |-> seq + 1, by |-> c, chat |-> chats[c]])
  /\ At(c, "reply")
  /\ UNCHANGED <<loopVars, fileVars, open, authed, chats, told, termVars>>

\* Mutant: the reply names the newest session.
OwnNewest(c) == seq

\* Local variable sess: the session this request recorded.
Own(c) == (CHOOSE s \in {sessions[i] : i \in DOMAIN sessions} : s.by = c /\ s.chat = chats[c]).id

\* The response and the event, to a client that is still there.
Reply(c) ==
  /\ c \in Conns /\ pc[c] = "reply"
  /\ told' = IF open[c] THEN [told EXCEPT ![c] = @ \cup {[id |-> Own(c), by |-> c, chat |-> chats[c]]}]
                        ELSE told
  /\ At(c, "idle")
  /\ UNCHANGED <<loopVars, fileVars, open, authed, chats, seq, sessions, termVars>>

\* The client goes, whatever the connection is doing; the goroutine ends when
\* it reads again.
Disconnect(c) ==
  /\ open[c] /\ c \in Leavers
  /\ open' = [open EXCEPT ![c] = FALSE]
  /\ UNCHANGED <<pc, loopVars, fileVars, authed, chats, seq, sessions, told, termVars>>

Close(c) ==
  /\ c \in Conns /\ pc[c] = "idle" /\ ~open[c]
  /\ At(c, "closed")
  /\ UNCHANGED <<loopVars, fileVars, bridgeVars, termVars>>

----------------------------------------------------------------------------
Run(r) == \/ OutOfTurns(r) \/ Ask(r) \/ Look(r) \/ Write(r) \/ EditRead(r) \/ EditTruncate(r)
          \/ Fill(r) \/ Refuse(r) \/ Record(r) \/ Reply(r)

Next == \/ \E r \in Runners : Run(r)
        \/ \E t \in Terms : CmdRun(t) \/ Prompt(t) \/ Confirm(t) \/ Type(t) \/ Interrupt(t)
        \/ \E c \in Conns : Connect(c) \/ ChatSend(c) \/ SessionsList(c) \/ Disconnect(c) \/ Close(c)

Spec == Init /\ [][Next]_vars

\* A goroutine goes on, and the model answers or its HTTP client times out
\* (netguard.go:64).  Nothing makes clients or users do anything.
FairSpec == Spec /\ \A c \in Conns : WF_vars(Run(c))

----------------------------------------------------------------------------
\* What the model is asked with: every answer of its own is followed by
\* exactly one result for each of its calls, in their order, whether they
\* succeeded, failed or were refused (a provider rejects anything else).
Paired ==
  \A r \in Runners : pc[r] = "ask" =>
    \/ msgs[r] = <<Opening(r)>>
    \/ Len(msgs[r]) = 2 /\ msgs[r][2] = [role |-> "user", calls |-> msgs[r][1].calls]

\* Every command that ran used up a "yes" of its own, typed at its terminal;
\* none runs for the bridge.
YesEach ==
  /\ \A t \in Terms : ran[t] = Cardinality({i \in 1..read[t] : typed[t][i] = "yes"})
  /\ \A c \in Conns : ran[c] = 0

\* Each call of the model comes to one result, each command to one approval.
CallsSettled == Paired /\ YesEach

\* Unless two writers overlapped or a write failed halfway, the file holds
\* every edit reported since the last full write, in runs of every process.
EditsKept == ~disturbed /\ ~torn => file = applied

\* Whatever a client was told of a session, in a reply or a list, is what the
\* bridge has recorded under that number, and numbers are not used twice.
ToldTruly ==
  /\ \A i \in DOMAIN sessions : sessions[i].id = i
  /\ \A c \in Conns : \A s \in told[c] : s.id \in DOMAIN sessions /\ sessions[s.id] = s

\* What anybody is told has been done is what the file and the sessions hold.
Truthful == EditsKept /\ ToldTruly

\* Every request on a connection is answered, in at most MaxTurns turns.
ChatAnswered == \A c \in Conns : (pc[c] \notin {"idle", "closed"}) ~> (pc[c] \in {"idle", "closed"})
=============================================================================
