---------------------------- MODULE SessionStore ----------------------------
(***************************************************************************)
(* internal/state/sessions.go: session records and their transcripts on    *)
(* disk.  sessions.jsonl is replaced as a whole by a rename; the           *)
(* transcript log is only appended to, one write per line.                 *)
(*                                                                         *)
(* Each method holds s.mu from end to end and is one step, except Fork,    *)
(* which writes several times: a crash can fall between its writes.  A     *)
(* write that is cut short, by a crash or by an error of the disk, leaves  *)
(* a line without its newline; the next line written continues it and both *)
(* are skipped by the reader as corrupt.  Any write may leave a line over  *)
(* 1 MiB, at which the scanner stops: every later read of the file fails,  *)
(* of all sessions, and with it every append and Fork.                     *)
(*                                                                         *)
(* The log is the sequence of the lines that can be decoded, which is what *)
(* a read returns unless the file is jammed.  The content of the n-th      *)
(* appended event is n.                                                    *)
(***************************************************************************)
EXTENDS Integers, FiniteSets, Sequences, SequencesExt

CONSTANTS Keys, NoKey,   \* session keys
          Writers,       \* goroutines that append under a revision they read
          MaxAppends,    \* bound: Append and AppendAtRev calls that write
          MaxTears,      \* bound: writes cut short
          MaxLines       \* bound: lines in the log when a Fork has written its copies

ASSUME KeysAreFew   == NoKey \notin Keys /\ IsFiniteSet(Keys)
ASSUME StoreBounds  == MaxAppends \in Nat /\ MaxTears \in Nat /\ MaxLines \in Nat

VARIABLES sess,     \* sessions.jsonl: key |-> record, or NoSession
          log,      \* the lines of transcript.jsonl that can be decoded
          tail,     \* how the file ends: "clean", "part" of a line, or a "whole" one without newline
          jammed,   \* an oversized line is in the file: no read succeeds
          fork,     \* the Fork under way: child, parent and the copies still to write
          held,     \* writer |-> the key and revision it has read
          count,    \* appends so far
          tears,    \* writes cut short so far (history)
          acked,    \* lines whose append returned no error (history)
          damaged   \* sessions that a cut write, or an abandoned Fork, has touched (history)

stVars == <<sess, log, tail, jammed, fork, held, count, tears, acked, damaged>>

NoSession == [rev |-> 0, archived |-> FALSE, depth |-> 0]
NoFork    == [child |-> NoKey, parent |-> NoKey, copies |-> <<>>]
Session   == [rev : 1..2, archived : BOOLEAN, depth : 0..Cardinality(Keys)]
Line      == [key : Keys, seq : Nat, msg : 1..MaxAppends]

StTypeOK ==
  /\ sess    \in [Keys -> Session \cup {NoSession}]
  /\ log     \in Seq(Line)
  /\ tail    \in {"clean", "part", "whole"}
  /\ jammed  \in BOOLEAN
  /\ fork    \in [child : Keys \cup {NoKey}, parent : Keys \cup {NoKey}, copies : Seq(Line)]
  /\ held    \in [Writers -> [key : Keys \cup {NoKey}, rev : 0..2]]
  /\ count   \in 0..MaxAppends
  /\ tears   \in 0..MaxTears
  /\ acked   \in SUBSET Line
  /\ damaged \in SUBSET Keys

NotHeld == [w \in Writers |-> [key |-> NoKey, rev |-> 0]]

StInit ==
  /\ sess    = [k \in Keys |-> NoSession]
  /\ log     = <<>>
  /\ tail    = "clean"
  /\ jammed  = FALSE
  /\ fork    = NoFork
  /\ held    = NotHeld
  /\ count   = 0
  /\ tears   = 0
  /\ acked   = {}
  /\ damaged = {}

----------------------------------------------------------------------------
Exists(k)     == sess[k] # NoSession
Unlocked      == fork = NoFork

\* The readers go through the lines one after the other and keep those of k.
LinesOf(s, k) ==
  LET seen[i \in 0..Len(s)] ==
        IF i = 0 THEN <<>>
        ELSE IF s[i].key = k THEN Append(seen[i - 1], s[i]) ELSE seen[i - 1]
  IN  seen[Len(s)]

Of(k) == LinesOf(log, k)

\* The log after one more complete line.
Put(e) ==
  /\ log'  = CASE tail = "clean" -> Append(log, e)
               [] tail = "part"  -> log
               [] tail = "whole" -> Front(log)
  /\ tail' = "clean"

\* The log after a line that was cut short: some of it, or all but its newline.
PutCut(e) ==
  /\ tears < MaxTears
  /\ tears' = tears + 1
  /\ \/ /\ log'  = IF tail = "whole" THEN Front(log) ELSE log
        /\ tail' = "part"
     \/ /\ tail = "clean"
        /\ log'  = Append(log, e)
        /\ tail' = "whole"

\* What was written, alone or behind what a cut write left, may be too long a line.
Jams == jammed' \in {jammed, TRUE}

\* What a line written onto the present end of the file spoils.
Spoilt == IF tail = "whole" THEN {Last(log).key} ELSE {}

Create(k, d) ==
  /\ Unlocked /\ ~Exists(k)
  /\ sess' = [sess EXCEPT ![k] = [rev |-> 1, archived |-> FALSE, depth |-> d]]
  /\ UNCHANGED <<log, tail, jammed, fork, held, count, tears, acked, damaged>>

\* Get, by a writer that will append under the revision it sees.
Get(w, k) ==
  /\ Unlocked /\ Exists(k)
  /\ held' = [held EXCEPT ![w] = [key |-> k, rev |-> sess[k].rev]]
  /\ UNCHANGED <<sess, log, tail, jammed, fork, count, tears, acked, damaged>>

NextSeq(k) == LET seqs == {Of(k)[i].seq : i \in DOMAIN Of(k)} IN
              IF seqs = {} THEN 1 ELSE 1 + CHOOSE n \in seqs : \A m \in seqs : m <= n

\* Mutant: appendLocked does not look at Archived.
WritableAlways(k) == Exists(k)

Writable(k) == Exists(k) /\ ~sess[k].archived

\* appendLocked.
AppendLocked(k) ==
  /\ Writable(k) /\ ~jammed
  /\ count < MaxAppends
  /\ count' = count + 1
  /\ LET e == [key |-> k, seq |-> NextSeq(k), msg |-> count + 1] IN
       \/ /\ Put(e)
          /\ acked' = acked \cup {e}
          /\ UNCHANGED <<tears, damaged>>
       \/ /\ PutCut(e)
          /\ UNCHANGED <<acked, damaged>>
  /\ Jams
  /\ UNCHANGED <<sess, fork>>

AppendEvent(k) ==
  /\ Unlocked
  /\ AppendLocked(k)
  /\ UNCHANGED held

AppendAtRev(w) ==
  /\ Unlocked
  /\ held[w].key # NoKey
  /\ sess[held[w].key].rev = held[w].rev
  /\ AppendLocked(held[w].key)
  /\ held' = [held EXCEPT ![w] = [key |-> NoKey, rev |-> 0]]

\* Mutant: archiving again is not a no-op.
ArchivableAgain(k) == Exists(k)

Archivable(k) == Exists(k) /\ ~sess[k].archived

Archive(k) ==
  /\ Unlocked /\ Archivable(k)
  /\ sess' = [sess EXCEPT ![k].archived = TRUE, ![k].rev = @ + 1]
  /\ UNCHANGED <<log, tail, jammed, fork, held, count, tears, acked, damaged>>

----------------------------------------------------------------------------
Copies(p, c) == [i \in DOMAIN Of(p) |-> [key |-> c, seq |-> i, msg |-> Of(p)[i].msg]]

\* Fork: the checks, and the copies to write.
Fork(p, c) ==
  /\ Unlocked /\ ~jammed
  /\ Exists(p) /\ ~Exists(c)
  /\ Len(log) + Len(Of(p)) <= MaxLines
  /\ fork' = [child |-> c, parent |-> p, copies |-> Copies(p, c)]
  /\ UNCHANGED <<sess, log, tail, jammed, held, count, tears, acked, damaged>>

ForkCopy ==
  /\ fork.copies # <<>>
  /\ Put(Head(fork.copies))
  /\ fork' = [fork EXCEPT !.copies = Tail(@)]
  /\ damaged' = damaged \cup (IF tail = "clean" THEN {} ELSE {fork.child})
  /\ Jams
  /\ UNCHANGED <<sess, held, count, tears, acked>>

\* The sessions file is written last.
ForkEnd ==
  /\ fork.child # NoKey /\ fork.copies = <<>>
  /\ sess' = [sess EXCEPT ![fork.child] =
                [rev |-> 1, archived |-> FALSE, depth |-> sess[fork.parent].depth + 1]]
  /\ fork' = NoFork
  /\ UNCHANGED <<log, tail, jammed, held, count, tears, acked, damaged>>

\* A write of Fork fails: Fork returns the error, and what it has written stays.
ForkFail ==
  /\ fork.child # NoKey
  /\ \/ fork.copies # <<>> /\ PutCut(Head(fork.copies)) /\ Jams
     \/ UNCHANGED <<log, tail, tears, jammed>>
  /\ fork' = NoFork
  /\ damaged' = damaged \cup {fork.child}
  /\ UNCHANGED <<sess, held, count, acked>>

\* The process is killed and started again; a write under way when it happens
\* is one cut short (AppendLocked, ForkFail) followed by this step.
Restart ==
  /\ held' = NotHeld
  /\ fork' = NoFork
  /\ damaged' = damaged \cup ({fork.child} \ {NoKey})
  /\ UNCHANGED <<sess, log, tail, jammed, count, tears, acked>>

StNext ==
  \/ \E k \in Keys : Create(k, 0) \/ AppendEvent(k) \/ Archive(k)
  \/ \E w \in Writers : AppendAtRev(w) \/ \E k \in Keys : Get(w, k)
  \/ \E p, c \in Keys : Fork(p, c)
  \/ ForkCopy \/ ForkEnd \/ ForkFail \/ Restart

StSpec == StInit /\ [][StNext]_stVars

----------------------------------------------------------------------------
Lost == {e \in acked : \A i \in DOMAIN log : log[i] # e}

\* Every event whose append succeeded is a line of the file, but for one event per
\* write that was cut short: the one that was then written onto its end.  It can
\* be read back as long as no line is too long; the append of such a line succeeds,
\* and none of the events, of any session, can be read from then on (JamHolds).
LossBounded == Cardinality(Lost) <= tears

\* Once a line is too long the store is stuck, through restarts too: no append is
\* acknowledged any more, no Fork begins, and without a Fork nothing is written.
JamHolds ==
  [][jammed => /\ jammed' /\ acked' = acked
               /\ Unlocked => Unlocked' /\ log' = log /\ tail' = tail]_stVars

\* The events of a session are numbered 1, 2, ... in the order of the file,
\* through restarts and cut writes.  A Fork that was abandoned, or that began on a
\* cut line, leaves a child without this: the numbers of copies begin at 1 again.
Numbered ==
  \A k \in Keys \ damaged : \A i \in DOMAIN Of(k) : Of(k)[i].seq = i

\* What an abandoned Fork leaves is below whatever the session is told later: an
\* acknowledged event has a higher number than all events of its session before it,
\* in every session.
AckedInOrder ==
  \A k \in Keys : \A i, j \in DOMAIN Of(k) :
     i < j /\ Of(k)[j] \in acked => Of(k)[i].seq < Of(k)[j].seq

\* An archived session is frozen: no writer, whatever revision it holds, and
\* no Fork adds to its transcript.
ArchivedFrozen ==
  [][\A k \in Keys : sess[k].archived => sess'[k].archived /\ IsPrefix(Of(k)', Of(k))]_stVars

\* A new child begins with its parent's transcript, in order, unless an abandoned
\* Fork had left events under its key or this one began on a cut line.
ForkFaithful ==
  [][ForkEnd /\ fork.child \notin damaged =>
       /\ Len(Of(fork.child)) = Len(Of(fork.parent))
       /\ \A i \in DOMAIN Of(fork.child) : Of(fork.child)[i].msg = Of(fork.parent)[i].msg]_stVars

\* A fork or an append never touches the readable events of another session,
\* except the last line of the file when that was cut short.
Isolated ==
  [][\A k \in Keys : Of(k)' = Of(k) \/ IsPrefix(Of(k), Of(k)') \/ k \in Spoilt]_stVars

TranscriptsKept ==
  [](LossBounded /\ Numbered /\ AckedInOrder) /\ JamHolds /\ ArchivedFrozen /\ ForkFaithful /\ Isolated
=============================================================================
