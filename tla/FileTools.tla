----------------------------- MODULE FileTools -----------------------------
(***************************************************************************)
(* The file-mutating tools on top of the mutation queue:                   *)
(*   edit         internal/tools/edit.go:49-166, one file under its lock;  *)
(*   apply_patch  internal/tools/patch.go:59-98, 160-237, several files,   *)
(*                each under its own lock, one after the other;            *)
(*   write        internal/tools/fs.go:168-200, no lock at all.            *)
(*                                                                         *)
(* A file is the set of fragments that occur in it exactly once, so that   *)
(* "old text occurs exactly once" is membership and replacing it is a set  *)
(* operation.  os.WriteFile truncates, then writes: two steps.             *)
(***************************************************************************)
EXTENDS MutationQueue, Sequences

CONSTANTS Jobs,        \* the tool calls; each is executed once, by any caller
          NoJob,
          NoFile,      \* content of a path with no file
          Fragments,   \* what files are made of
          Files0,      \* path |-> initial content
          CtxCancels,  \* may the callers' contexts be cancelled?
          DiskFails    \* may a write fail after the truncation?

\* The replacements of an update are <<old, new>> fragments, in order.
Subs    == Seq(Fragments \X Fragments)
FileOps == [kind : {"update", "add", "delete", "put"}, path : Paths, subs : Subs, text : SUBSET Fragments]
Texts   == {NoFile} \cup SUBSET Fragments

\* An edit is one update, a patch is any operations but at least one, and a
\* write puts one text (the parsers refuse anything else).
ASSUME JobsFormed ==
  /\ NoJob \notin Jobs
  /\ \A j \in Jobs :
       /\ j.tool \in {"edit", "patch", "write"}
       /\ j.ops \in Seq(FileOps) /\ j.ops # <<>>
       /\ j.tool = "edit"  => Len(j.ops) = 1 /\ j.ops[1].kind = "update"
       /\ j.tool = "write" => Len(j.ops) = 1
       /\ \A i \in DOMAIN j.ops : j.ops[i].kind = "put" <=> j.tool = "write"
ASSUME FilesFormed ==
  /\ \A text \in SUBSET Fragments : text # NoFile
  /\ Files0 \in [Paths -> Texts]

VARIABLES files,   \* path |-> content
          job,     \* caller |-> the call it executes, NoJob between calls
          at,      \* caller |-> index of the current op of job
          phase,   \* caller |-> next step of the tool
          body,    \* caller |-> content to write, computed from what it read
          status,  \* job |-> "new", "running", "ok" or "error"
          done     \* job |-> the ops that changed their file (history)

toolVars == <<files, job, at, phase, body, status, done>>
fvars    == <<vars, toolVars>>

FInit ==
  /\ Init
  /\ files  = Files0
  /\ job    = [c \in Callers |-> NoJob]
  /\ at     = [c \in Callers |-> 0]
  /\ phase  = [c \in Callers |-> "idle"]
  /\ body   = [c \in Callers |-> {}]
  /\ status = [j \in Jobs |-> "new"]
  /\ done   = [j \in Jobs |-> {}]

----------------------------------------------------------------------------
Op(c) == job[c].ops[at[c]]

\* The exact-match replacements in order, in memory: each old text must occur
\* in what the previous ones produced.
Substitute(text, subs) ==
  LET after[i \in 0..Len(subs)] ==
        IF i = 0 THEN [ok |-> TRUE, text |-> text]
        ELSE IF after[i - 1].ok /\ subs[i][1] \in after[i - 1].text
             THEN [ok |-> TRUE, text |-> (after[i - 1].text \ {subs[i][1]}) \cup {subs[i][2]}]
             ELSE [ok |-> FALSE, text |-> after[i - 1].text]
  IN  after[Len(subs)]

\* edit's two early receipts: nothing to change, nothing written.
NoOp(c, text) ==
  /\ job[c].tool = "edit"
  /\ \/ \A i \in DOMAIN Op(c).subs : Op(c).subs[i][1] = Op(c).subs[i][2]
     \/ LET r == Substitute(text, Op(c).subs) IN r.ok /\ r.text = text

\* The checks an op makes on the file it finds.
Applicable(op, text) ==
  \/ op.kind = "update" /\ text # NoFile /\ Substitute(text, op.subs).ok
  \/ op.kind = "add"    /\ text = NoFile
  \/ op.kind = "delete" /\ text # NoFile

NewText(op, text) == IF op.kind = "update" THEN Substitute(text, op.subs).text
                                           ELSE op.text

\* The tool returns: with an error, or after its last op.
Return(c, result) ==
  /\ status' = [status EXCEPT ![job[c]] = result]
  /\ job'    = [job EXCEPT ![c] = NoJob]
  /\ phase'  = [phase EXCEPT ![c] = "idle"]
  /\ at'     = [at EXCEPT ![c] = 0]
  /\ body'   = [body EXCEPT ![c] = {}]

To(c, ph) == phase' = [phase EXCEPT ![c] = ph]

\* A call begins: write goes straight to the file, the others to the queue.
Call(c, j) ==
  /\ phase[c] = "idle" /\ status[j] = "new"
  /\ job'    = [job EXCEPT ![c] = j]
  /\ at'     = [at EXCEPT ![c] = 1]
  /\ status' = [status EXCEPT ![j] = "running"]
  /\ To(c, IF j.tool = "write" THEN "open" ELSE "enqueue")
  /\ body'   = [body EXCEPT ![c] = IF j.tool = "write" THEN j.ops[1].text ELSE {}]
  /\ UNCHANGED <<vars, files, done>>

\* ctx.Err() is looked at before each op of a patch, before a write, and by
\* edit inside the lock (Look).
Cancelled(c) ==
  /\ CtxCancels
  /\ \/ phase[c] = "enqueue" /\ job[c].tool = "patch"
     \/ phase[c] = "open" /\ job[c].tool = "write"
  /\ Return(c, "error")
  /\ UNCHANGED <<vars, files, done>>

\* sharedMutations.Run(abs, ...)
Enqueue(c) ==
  /\ phase[c] = "enqueue"
  /\ Acquire(c, Op(c).path)
  /\ To(c, "lock")
  /\ UNCHANGED <<files, job, at, body, status, done>>

\* Mutant: the file is read without waiting for the lock.
TakeNoLock(c) ==
  /\ phase[c] = "lock"
  /\ pc' = [pc EXCEPT ![c] = "running"]
  /\ UNCHANGED <<locks, refs, holder, path, lock>>
  /\ To(c, "look")
  /\ UNCHANGED <<files, job, at, body, status, done>>

TakeLock(c) ==
  /\ phase[c] = "lock"
  /\ Lock(c)
  /\ To(c, "look")
  /\ UNCHANGED <<files, job, at, body, status, done>>

Fails(c) == /\ status' = [status EXCEPT ![job[c]] = "error"]
            /\ To(c, "leave")

\* os.ReadFile or os.Stat, the checks, and for delete the removal itself.
Look(c) ==
  /\ phase[c] = "look"
  /\ LET text == files[Op(c).path] IN
     \/ /\ CtxCancels /\ job[c].tool = "edit"
        /\ Fails(c) /\ UNCHANGED <<files, body, done>>
     \/ /\ text # NoFile /\ NoOp(c, text)
        /\ To(c, "leave") /\ UNCHANGED <<files, body, status, done>>
     \/ /\ ~(text # NoFile /\ NoOp(c, text)) /\ ~Applicable(Op(c), text)
        /\ Fails(c) /\ UNCHANGED <<files, body, done>>
     \/ /\ Op(c).kind = "delete" /\ Applicable(Op(c), text)
        /\ files' = [files EXCEPT ![Op(c).path] = NoFile]
        /\ done'  = [done EXCEPT ![job[c]] = @ \cup {at[c]}]
        /\ To(c, "leave") /\ UNCHANGED <<body, status>>
     \/ /\ Op(c).kind # "delete" /\ Applicable(Op(c), text)
        /\ ~(text # NoFile /\ NoOp(c, text))
        /\ body' = [body EXCEPT ![c] = NewText(Op(c), text)]
        /\ To(c, "open") /\ UNCHANGED <<files, status, done>>
  /\ UNCHANGED <<vars, job, at>>

\* os.WriteFile, first half: open with O_TRUNC (and O_CREATE).
Open(c) ==
  /\ phase[c] = "open"
  /\ files' = [files EXCEPT ![Op(c).path] = {}]
  /\ done'  = [done EXCEPT ![job[c]] = @ \cup {at[c]}]
  /\ To(c, "fill")
  /\ UNCHANGED <<vars, job, at, body, status>>

\* Second half: the bytes are written, or the device refuses them and the file
\* stays empty.
Fill(c) ==
  /\ phase[c] = "fill"
  /\ \/ /\ files' = [files EXCEPT ![Op(c).path] = body[c]]
        /\ IF job[c].tool = "write" THEN Return(c, "ok")
                                    ELSE To(c, "leave") /\ UNCHANGED <<job, at, body, status>>
     \/ /\ DiskFails /\ UNCHANGED files
        /\ IF job[c].tool = "write" THEN Return(c, "error")
                                    ELSE Fails(c) /\ UNCHANGED <<job, at, body>>
  /\ UNCHANGED <<vars, done>>

\* Mutant: the lock of every file of a patch but the last stays taken.
LeaveLocked(c) ==
  /\ phase[c] = "leave"
  /\ IF at[c] < Len(job[c].ops)
     THEN pc' = [pc EXCEPT ![c] = "unlocked"] /\ UNCHANGED <<locks, refs, holder, path, lock>>
     ELSE Unlock(c)
  /\ To(c, "drop")
  /\ UNCHANGED <<files, job, at, body, status, done>>

Leave(c) ==
  /\ phase[c] = "leave"
  /\ Unlock(c)
  /\ To(c, "drop")
  /\ UNCHANGED <<files, job, at, body, status, done>>

LastOp(c) == at[c] = Len(job[c].ops)

\* Run returns.  The first failing op ends a patch; what it did before stays.
Drop(c) ==
  /\ phase[c] = "drop"
  /\ Release(c)
  /\ IF status[job[c]] = "error" THEN Return(c, "error")
     ELSE IF LastOp(c) THEN Return(c, "ok")
     ELSE /\ at' = [at EXCEPT ![c] = @ + 1]
          /\ To(c, "enqueue")
          /\ body' = [body EXCEPT ![c] = {}]
          /\ UNCHANGED <<job, status>>
  /\ UNCHANGED <<files, done>>

FNext == \E c \in Callers :
  \/ \E j \in Jobs : Call(c, j)
  \/ Cancelled(c) \/ Enqueue(c) \/ TakeLock(c) \/ Look(c)
  \/ Open(c) \/ Fill(c) \/ Leave(c) \/ Drop(c)

FSpec == FInit /\ [][FNext]_fvars

----------------------------------------------------------------------------
MidWrite(p) == \E c \in Callers : phase[c] = "fill" /\ Op(c).path = p

\* Paths no write call has touched: only tools that use the queue did.
QueueOnly(p) == ~\E j \in Jobs : j.tool = "write" /\ status[j] # "new" /\ j.ops[1].path = p

\* Some op that changed p takes the fragment away again, or failed half way.
Consumed(f, p) ==
  \E j \in Jobs : \E i \in done[j] :
     /\ j.ops[i].path = p
     /\ \/ j.ops[i].kind = "delete"
        \/ status[j] = "error" /\ DiskFails
        \/ \E k \in DOMAIN j.ops[i].subs : j.ops[i].subs[k][1] = f

\* An edit or patch that was reported applied is in the file: no concurrent
\* edit or patch that read the file earlier overwrites it (edit.go:48
\* "serialized per path").
NoLostUpdate ==
  \A j \in Jobs : status[j] = "ok" =>
    \A i \in done[j] : LET op == j.ops[i] IN
      (op.kind = "update" /\ QueueOnly(op.path) /\ ~MidWrite(op.path)) =>
        \A k \in DOMAIN op.subs :
           op.subs[k][2] \in files[op.path] \/ Consumed(op.subs[k][2], op.path)

\* A tool that computes its new content from a file it read still finds that
\* file unchanged when it writes: the read and the write are one section.
WriteBasedOnCurrent ==
  \A c \in Callers :
    phase[c] = "open" /\ job[c].tool # "write" /\ QueueOnly(Op(c).path) =>
      /\ Applicable(Op(c), files[Op(c).path])
      /\ body[c] = NewText(Op(c), files[Op(c).path])

\* The tools use the queue as Run prescribes, so what is proved of the queue
\* holds under them.
UsesQueue == Spec

\* What an edit or a patch does to a file is one indivisible change of it.
EditsSerialized == UsesQueue /\ [](NoLostUpdate /\ WriteBasedOnCurrent)

\* A caller whose next step waits for nobody: a lock object can be had or made,
\* the lock is free, or the caller is past it.
CanGoOn(c) ==
  \/ phase[c] = "idle" /\ \E j \in Jobs : status[j] = "new"
  \/ phase[c] = "enqueue" /\ pc[c] = "idle" /\ (locks[Op(c).path] # NoLock \/ \E l \in Locks : Fresh(l))
  \/ phase[c] = "lock" /\ pc[c] = "queued" /\ holder[lock[c]] = NoCaller
  \/ phase[c] \in {"look", "open", "fill"}
  \/ phase[c] = "leave" /\ pc[c] = "running"
  \/ phase[c] = "drop" /\ pc[c] = "unlocked"

\* patch.go locks one file at a time: whoever waits for a lock waits for a caller
\* who waits for nobody, and whoever holds none can go on himself, so patches over
\* the same files in opposite orders do not wait for each other in a circle.
NoCircularWait ==
  \A c \in Callers : phase[c] # "idle" /\ ~CanGoOn(c) =>
    /\ phase[c] = "lock"
    /\ holder[lock[c]] \in Callers \ {c} /\ CanGoOn(holder[lock[c]])
=============================================================================
