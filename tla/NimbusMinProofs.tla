--------------------------- MODULE NimbusMinProofs ---------------------------
(***************************************************************************)
(* Proofs about nimbus-min: each call comes to one result, each command to *)
(* one approval, the file holds what was reported of it, and clients are   *)
(* told of the sessions that are recorded, for every number of             *)
(* connections, terminals, turns and answers.                              *)
(***************************************************************************)
EXTENDS NimbusMin, FiniteSetTheorems, SequenceTheorems, TLAPS

PCs      == {"idle", "ask", "tools", "edit", "fill", "confirm", "record", "reply", "closed"}
Busy     == {"tools", "edit", "fill", "confirm"}
Message  == [role : {"user", "assistant"}, calls : Seq(Kinds)]
Edits    == Runners \X Nat \X Nat \X Nat
Recorded == [id : Nat, by : Conns, chat : Nat]

----------------------------------------------------------------------------
(* The inductive invariant, by the parts of the state.                      *)

LoopTyped ==
  /\ pc \in [Runners -> PCs]
  /\ turn \in [Runners -> 0..MaxTurns]
  /\ msgs \in [Runners -> Seq(Message)]
  /\ todo \in [Runners -> Seq(Kinds)]
  /\ results \in [Runners -> Seq(Kinds)]

\* In a turn the answer is what has a result and what has not yet; between two
\* there is neither.
Turn(r) ==
  IF pc[r] \in Busy
  THEN /\ todo[r] # <<>> /\ turn[r] < MaxTurns
       /\ Len(msgs[r]) = 1 /\ msgs[r][1].calls = results[r] \o todo[r]
  ELSE todo[r] = <<>> /\ results[r] = <<>>

Asked(r) ==
  pc[r] = "ask" =>
    \/ msgs[r] = <<Opening(r)>>
    \/ Len(msgs[r]) = 2 /\ msgs[r][2] = [role |-> "user", calls |-> msgs[r][1].calls]

LoopKept == LoopTyped /\ \A r \in Runners : Turn(r) /\ Asked(r)

FileTyped ==
  /\ buf \in [Runners -> SUBSET Edits]
  /\ file \in SUBSET Edits /\ applied \in SUBSET Edits
  /\ torn \in BOOLEAN /\ disturbed \in BOOLEAN
  /\ torn => file = {}

\* The one writer has what the file is to hold.
Alone ==
  /\ \A r, s \in Writers : r = s
  /\ torn => \E r \in Runners : pc[r] = "fill"
  /\ ~torn => file = applied
  /\ \A r \in Runners :
       /\ pc[r] = "edit" => /\ ~torn /\ Head(todo[r]) # "write"
                            /\ buf[r] = applied \cup {Edit(r)}
       /\ pc[r] = "fill" => buf[r] = IF Head(todo[r]) = "write" THEN {} ELSE applied \cup {Edit(r)}

FileKept == FileTyped /\ (~disturbed => Alone)

LinesTyped ==
  /\ typed \in [Terms -> Seq({"yes", "other"})]
  /\ read \in [Terms -> Nat]
  /\ ran \in [Runners -> Nat]

LinesKept == LinesTyped /\ YesEach /\ \A t \in Terms : read[t] <= Len(typed[t])

BridgeTyped ==
  /\ open \in [Conns -> BOOLEAN] /\ authed \in [Conns -> BOOLEAN]
  /\ chats \in [Conns -> Nat]
  /\ seq \in Nat /\ sessions \in Seq(Recorded)
  /\ told \in [Conns -> SUBSET Recorded]

\* A request has one session at most, and none before it is recorded.
OneSession ==
  /\ seq = Len(sessions)
  /\ \A i \in DOMAIN sessions :
       LET c == sessions[i].by IN
       /\ sessions[i].chat <= chats[c]
       /\ sessions[i].chat = chats[c] => pc[c] \in {"idle", "reply", "closed"}
  /\ \A i, j \in DOMAIN sessions :
       sessions[i].by = sessions[j].by /\ sessions[i].chat = sessions[j].chat => i = j
  /\ \A c \in Conns : pc[c] = "reply" =>
       \E i \in DOMAIN sessions : sessions[i].by = c /\ sessions[i].chat = chats[c]

BridgeKept ==
  /\ BridgeTyped /\ OneSession /\ ToldTruly
  /\ \A c \in Conns : chats[c] > 0 => authed[c]

MinInv == LoopKept /\ FileKept /\ LinesKept /\ BridgeKept

----------------------------------------------------------------------------
(* The agent loop: one runner moves, the others' turns stay.                *)

OthersStay(r) ==
  \A s \in Runners \ {r} : /\ pc'[s] = pc[s] /\ turn'[s] = turn[s] /\ msgs'[s] = msgs[s]
                           /\ todo'[s] = todo[s] /\ results'[s] = results[s]

LEMMA LoopStep ==
  ASSUME LoopKept, NEW r \in Runners, OthersStay(r), LoopTyped', Turn(r)', Asked(r)'
  PROVE  LoopKept'
<1>1. ASSUME NEW s \in Runners, s # r PROVE Turn(s)' /\ Asked(s)'
  <2>1. pc'[s] = pc[s] /\ turn'[s] = turn[s] /\ msgs'[s] = msgs[s] /\ todo'[s] = todo[s] /\ results'[s] = results[s]
    BY <1>1 DEF OthersStay
  <2> QED
    BY <2>1 DEF LoopKept, Turn, Asked
<1> QED
  BY <1>1 DEF LoopKept

\* A sequence that is not empty, by its head and its tail.
LEMMA HeadAndTail ==
  ASSUME NEW S, NEW a \in Seq(S), NEW b \in Seq(S), b # <<>>
  PROVE  /\ Head(b) \in S /\ Tail(b) \in Seq(S) /\ Append(a, Head(b)) \in Seq(S)
         /\ Len(b) > 1 => Tail(b) # <<>> /\ Append(a, Head(b)) \o Tail(b) = a \o b
         /\ ~(Len(b) > 1) => Append(a, Head(b)) = a \o b
<1>1. PICK n \in Nat, m \in Nat : n = Len(a) /\ m = Len(b)
  <2>1. Len(a) \in Nat /\ Len(b) \in Nat
    OBVIOUS
  <2> QED
    BY <2>1
<1>2. PICK h \in S, t \in Seq(S) : h = Head(b) /\ t = Tail(b)
  BY HeadTailProperties
<1>3. /\ m > 0 /\ Len(t) = m - 1 /\ b[1] = h /\ \A i \in 1..(m - 1) : t[i] = b[i + 1]
  <2>1. m > 0
    BY <1>1
  <2>2. Len(t) = m - 1 /\ \A i \in 1..(m - 1) : t[i] = b[i + 1]
    BY <1>1, <1>2, HeadTailProperties
  <2>3. b[1] = h
    BY <1>2
  <2> QED
    BY <2>1, <2>2, <2>3
<1>4. PICK c : c = Append(a, h)
  OBVIOUS
<1>5. /\ c \in Seq(S) /\ Len(c) = n + 1 /\ c[n + 1] = h /\ \A i \in 1..n : c[i] = a[i]
  BY <1>1, <1>4, AppendProperties
<1>6. PICK d : d = a \o b
  OBVIOUS
<1>7. /\ d \in Seq(S) /\ Len(d) = n + m /\ \A i \in 1..(n + m) : d[i] = IF i <= n THEN a[i] ELSE b[i - n]
  BY <1>1, <1>6, ConcatProperties
<1>8. PICK e : e = c \o t
  OBVIOUS
<1>9. /\ e \in Seq(S) /\ Len(e) = (n + 1) + (m - 1)
      /\ \A i \in 1..((n + 1) + (m - 1)) : e[i] = IF i <= n + 1 THEN c[i] ELSE t[i - (n + 1)]
  <2>1. t \in Seq(S) /\ c \in Seq(S)
    BY <1>2, <1>5
  <2>2. /\ e \in Seq(S) /\ Len(e) = Len(c) + Len(t)
        /\ \A i \in 1..(Len(c) + Len(t)) : e[i] = IF i <= Len(c) THEN c[i] ELSE t[i - Len(c)]
    BY <1>8, <2>1, ConcatProperties
  <2> QED
    BY <1>3, <1>5, <2>2, Zenon
<1>10. e = d
  <2>1. (n + 1) + (m - 1) = n + m
    OBVIOUS
  <2>2. ASSUME NEW i \in 1..(n + m) PROVE e[i] = d[i]
    <3>1. e[i] = (IF i <= n + 1 THEN c[i] ELSE t[i - (n + 1)]) /\ d[i] = IF i <= n THEN a[i] ELSE b[i - n]
      BY <1>7, <1>9, <2>1
    <3>2. CASE i <= n
      <4>1. i \in 1..n /\ i <= n + 1
        BY <3>2
      <4> QED
        BY <1>5, <3>1, <3>2, <4>1
    <3>3. CASE i = n + 1
      <4>1. ~(i <= n) /\ i <= n + 1 /\ i - n = 1
        BY <3>3
      <4> QED
        BY <1>3, <1>5, <3>1, <3>3, <4>1
    <3>4. CASE i > n + 1
      <4>1. PICK j : j = i - (n + 1)
        OBVIOUS
      <4>2. ~(i <= n) /\ ~(i <= n + 1) /\ j \in 1..(m - 1) /\ j + 1 = i - n
        BY <3>4, <4>1
      <4> QED
        BY <1>3, <3>1, <4>1, <4>2
    <3> QED
      BY <3>2, <3>3, <3>4
  <2>3. Len(e) = n + m
    BY <1>9, <2>1
  <2> QED
    BY <1>7, <1>9, <2>2, <2>3, SeqEqual
<1>11. m > 1 => t # <<>>
  BY <1>3
<1>12. ~(m > 1) => c = d
  <2> SUFFICES ASSUME ~(m > 1) PROVE c = d
    OBVIOUS
  <2>1. m = 1
    BY <1>3
  <2>2. ASSUME NEW i \in 1..(n + 1) PROVE c[i] = d[i]
    <3>1. d[i] = IF i <= n THEN a[i] ELSE b[i - n]
      BY <1>7, <2>1
    <3>2. CASE i <= n
      <4>1. i \in 1..n
        BY <3>2
      <4> QED
        BY <1>5, <3>1, <3>2, <4>1
    <3>3. CASE i = n + 1
      <4>1. ~(i <= n) /\ i - n = 1
        BY <3>3
      <4> QED
        BY <1>3, <1>5, <3>1, <3>3, <4>1
    <3> QED
      BY <3>2, <3>3
  <2> QED
    BY <1>5, <1>7, <2>1, <2>2, SeqEqual
<1> QED
  BY <1>1, <1>2, <1>4, <1>5, <1>6, <1>8, <1>10, <1>11, <1>12

LEMMA SettleLoop ==
  ASSUME LoopKept, NEW r \in Runners, pc[r] \in Busy, NEW ok, Settle(r, ok)
  PROVE  LoopKept' /\ OthersStay(r) /\ pc'[r] \in {"tools", "ask"}
<1> DEFINE all == Append(results[r], Head(todo[r]))
<1>1. /\ todo[r] # <<>> /\ turn[r] < MaxTurns /\ turn[r] \in Nat /\ todo[r] \in Seq(Kinds) /\ results[r] \in Seq(Kinds)
      /\ msgs[r] \in Seq(Message) /\ Len(msgs[r]) = 1 /\ msgs[r][1].calls = results[r] \o todo[r]
  BY MinParties DEF LoopKept, LoopTyped, Turn
<1>2. /\ Head(todo[r]) \in Kinds /\ Tail(todo[r]) \in Seq(Kinds) /\ all \in Seq(Kinds)
      /\ Len(todo[r]) > 1 => Tail(todo[r]) # <<>> /\ all \o Tail(todo[r]) = results[r] \o todo[r]
      /\ ~(Len(todo[r]) > 1) => all = results[r] \o todo[r]
  <2>1. PICK a \in Seq(Kinds), b \in Seq(Kinds) : a = results[r] /\ b = todo[r]
    BY <1>1
  <2>2. b # <<>>
    BY <1>1, <2>1
  <2>3. /\ Head(b) \in Kinds /\ Tail(b) \in Seq(Kinds) /\ Append(a, Head(b)) \in Seq(Kinds)
        /\ Len(b) > 1 => Tail(b) # <<>> /\ Append(a, Head(b)) \o Tail(b) = a \o b
        /\ ~(Len(b) > 1) => Append(a, Head(b)) = a \o b
    BY <2>2, HeadAndTail
  <2> QED
    BY <2>1, <2>3, Zenon DEF all
<1> HIDE DEF all
<1>3. CASE Len(todo[r]) > 1
  <2>1. /\ todo' = [todo EXCEPT ![r] = Tail(todo[r])] /\ results' = [results EXCEPT ![r] = all]
        /\ pc' = [pc EXCEPT ![r] = "tools"] /\ turn' = turn /\ msgs' = msgs
    BY <1>3 DEF Settle, Results, At, all
  <2>2. LoopTyped'
    BY <1>2, <2>1 DEF LoopKept, LoopTyped, PCs
  <2>3. OthersStay(r)
    BY <2>1 DEF LoopKept, LoopTyped, OthersStay
  <2>4. pc'[r] = "tools" /\ todo'[r] = Tail(todo[r]) /\ results'[r] = all /\ turn'[r] = turn[r] /\ msgs'[r] = msgs[r]
    BY <2>1 DEF LoopKept, LoopTyped
  <2>5. Turn(r)' /\ Asked(r)'
    BY <1>1, <1>2, <1>3, <2>4 DEF Turn, Asked, Busy
  <2> QED
    BY <2>2, <2>3, <2>4, <2>5, LoopStep
<1>4. CASE ~(Len(todo[r]) > 1)
  <2> DEFINE reply == [role |-> "user", calls |-> all]
  <2>1. /\ todo' = [todo EXCEPT ![r] = <<>>] /\ results' = [results EXCEPT ![r] = <<>>]
        /\ pc' = [pc EXCEPT ![r] = "ask"] /\ turn' = [turn EXCEPT ![r] = turn[r] + 1]
        /\ msgs' = [msgs EXCEPT ![r] = Append(msgs[r], reply)]
    BY <1>4 DEF Settle, Results, NextTurn, At, all
  <2>2. reply \in Message /\ reply.calls = all /\ reply = [role |-> "user", calls |-> all]
    BY <1>2 DEF Message
  <2> HIDE DEF reply
  <2>3. turn[r] + 1 \in 0..MaxTurns
    BY <1>1, MinParties
  <2>4. Append(msgs[r], reply) \in Seq(Message) /\ Len(Append(msgs[r], reply)) = 2
        /\ Append(msgs[r], reply)[1] = msgs[r][1] /\ Append(msgs[r], reply)[2] = reply
    <3>1. PICK m \in Seq(Message) : m = msgs[r]
      BY <1>1
    <3>2. Len(m) = 1 /\ 1 \in 1..Len(m)
      BY <1>1, <3>1
    <3>3. /\ Append(m, reply) \in Seq(Message) /\ Len(Append(m, reply)) = Len(m) + 1
          /\ \A i \in 1..Len(m) : Append(m, reply)[i] = m[i]
          /\ Append(m, reply)[Len(m) + 1] = reply
      BY <2>2, AppendProperties
    <3>4. Len(m) + 1 = 2
      BY <3>2
    <3> QED
      BY <3>1, <3>2, <3>3, <3>4, Zenon
  <2>5. LoopTyped'
    BY <2>1, <2>3, <2>4 DEF LoopKept, LoopTyped, PCs
  <2>6. OthersStay(r)
    BY <2>1 DEF LoopKept, LoopTyped, OthersStay
  <2>7. pc'[r] = "ask" /\ todo'[r] = <<>> /\ results'[r] = <<>> /\ msgs'[r] = Append(msgs[r], reply)
    BY <2>1 DEF LoopKept, LoopTyped
  <2>8. Turn(r)'
    BY <2>7 DEF Turn, Busy
  <2>9. Asked(r)'
    BY <1>1, <1>2, <1>4, <2>2, <2>4, <2>7 DEF Asked
  <2> QED
    BY <2>5, <2>6, <2>7, <2>8, <2>9, LoopStep
<1> QED
  BY <1>3, <1>4

\* runAgent returns.
LEMMA ReturnLoop ==
  ASSUME LoopKept, NEW r \in Runners, Return(r), NEW p \in {"idle", "record", "closed"}, At(r, p)
  PROVE  LoopKept' /\ OthersStay(r) /\ pc'[r] = p
<1>1. /\ turn' = [turn EXCEPT ![r] = 0] /\ msgs' = [msgs EXCEPT ![r] = <<>>] /\ todo' = [todo EXCEPT ![r] = <<>>]
      /\ results' = [results EXCEPT ![r] = <<>>] /\ pc' = [pc EXCEPT ![r] = p]
  BY DEF Return, At
<1>2. LoopTyped'
  <2>1. 0 \in 0..MaxTurns /\ <<>> \in Seq(Message) /\ <<>> \in Seq(Kinds)
    BY MinParties
  <2> QED
    BY <1>1, <2>1 DEF LoopKept, LoopTyped, PCs
<1>3. OthersStay(r)
  BY <1>1 DEF LoopKept, LoopTyped, OthersStay
<1>4. pc'[r] = p /\ todo'[r] = <<>> /\ results'[r] = <<>>
  BY <1>1 DEF LoopKept, LoopTyped
<1>5. Turn(r)' /\ Asked(r)'
  BY <1>4 DEF Turn, Asked, Busy
<1> QED
  BY <1>2, <1>3, <1>4, <1>5, LoopStep

LEMMA BeginLoop ==
  ASSUME LoopKept, NEW r \in Runners, pc[r] = "idle", Begin(r)
  PROVE  LoopKept' /\ OthersStay(r) /\ pc'[r] = "ask"
<1>1. /\ msgs' = [msgs EXCEPT ![r] = <<Opening(r)>>] /\ pc' = [pc EXCEPT ![r] = "ask"]
      /\ turn' = turn /\ todo' = todo /\ results' = results
  BY DEF Begin, At
<1>2. <<Opening(r)>> \in Seq(Message)
  <2>1. <<>> \in Seq(Kinds)
    OBVIOUS
  <2>2. Opening(r) \in Message
    BY <2>1 DEF Opening, Message
  <2> QED
    BY <2>2
<1>3. LoopTyped'
  BY <1>1, <1>2 DEF LoopKept, LoopTyped, PCs
<1>4. OthersStay(r)
  BY <1>1 DEF LoopKept, LoopTyped, OthersStay
<1>5. pc'[r] = "ask" /\ msgs'[r] = <<Opening(r)>> /\ todo'[r] = todo[r] /\ results'[r] = results[r]
  BY <1>1 DEF LoopKept, LoopTyped
<1>6. Turn(r)' /\ Asked(r)'
  BY <1>5 DEF LoopKept, Turn, Asked, Busy
<1> QED
  BY <1>3, <1>4, <1>5, <1>6, LoopStep

LEMMA AnswerLoop ==
  ASSUME LoopKept, NEW r \in Runners, pc[r] = "ask", More(r), NEW calls \in Answers[r],
         msgs' = [msgs EXCEPT ![r] = <<[role |-> "assistant", calls |-> calls]>>],
         todo' = [todo EXCEPT ![r] = calls], At(r, "tools"), UNCHANGED <<turn, results>>
  PROVE  LoopKept' /\ OthersStay(r) /\ pc'[r] = "tools"
<1>1. pc' = [pc EXCEPT ![r] = "tools"] /\ turn' = turn /\ results' = results /\ turn[r] < MaxTurns
  BY DEF At, More
<1>2. calls \in Seq(Kinds) /\ calls # <<>>
  BY AnswersCall
<1>3. PICK m \in Message : m = [role |-> "assistant", calls |-> calls] /\ m.calls = calls
  <2>1. [role |-> "assistant", calls |-> calls] \in Message
    BY <1>2, Zenon DEF Message
  <2>2. [role |-> "assistant", calls |-> calls].calls = calls
    OBVIOUS
  <2> QED
    BY <2>1, <2>2, Zenon
<1>4. msgs' = [msgs EXCEPT ![r] = <<m>>] /\ <<m>> \in Seq(Message) /\ Len(<<m>>) = 1 /\ <<m>>[1] = m
  BY <1>3
<1>5. LoopTyped'
  BY <1>1, <1>2, <1>4 DEF LoopKept, LoopTyped, PCs
<1>6. OthersStay(r)
  BY <1>1 DEF LoopKept, LoopTyped, OthersStay
<1>7. /\ pc'[r] = "tools" /\ msgs'[r] = <<m>> /\ todo'[r] = calls /\ results'[r] = results[r] /\ turn'[r] = turn[r]
  BY <1>1, <1>4 DEF LoopKept, LoopTyped
<1>8. results[r] = <<>> /\ <<>> \o calls = calls
  <2>1. results[r] = <<>>
    BY DEF LoopKept, Turn, Busy
  <2> QED
    BY <1>2, <2>1, ConcatEmptySeq
<1>9. Turn(r)' /\ Asked(r)'
  BY <1>1, <1>2, <1>3, <1>4, <1>7, <1>8 DEF Turn, Asked, Busy
<1> QED
  BY <1>5, <1>6, <1>7, <1>9, LoopStep

\* Where only the place of the runner moves, within a turn or outside of one.
LEMMA MoveLoop ==
  ASSUME LoopKept, NEW r \in Runners, NEW p \in PCs, p # "ask", pc[r] \in Busy <=> p \in Busy, At(r, p), UNCHANGED loopVars
  PROVE  LoopKept' /\ OthersStay(r) /\ pc'[r] = p
<1>1. pc' = [pc EXCEPT ![r] = p] /\ turn' = turn /\ msgs' = msgs /\ todo' = todo /\ results' = results
  BY DEF At, loopVars
<1>2. LoopTyped' /\ OthersStay(r) /\ pc'[r] = p
  BY <1>1 DEF LoopKept, LoopTyped, OthersStay
<1>3. Turn(r)' /\ Asked(r)'
  BY <1>1, <1>2 DEF LoopKept, Turn, Asked
<1> QED
  BY <1>2, <1>3, LoopStep

----------------------------------------------------------------------------
(* The file: who does not write leaves it to those who do.                  *)

Writing(r) == pc[r] \in {"edit", "fill"}

LEMMA EditsTyped ==
  ASSUME LoopTyped, BridgeTyped, NEW r \in Runners
  PROVE  Edit(r) \in Edits
<1>1. turn[r] \in Nat /\ Len(todo[r]) \in Nat
  BY MinParties DEF LoopTyped
<1>2. (IF r \in Conns THEN chats[r] ELSE 0) \in Nat
  BY DEF BridgeTyped
<1> QED
  BY <1>1, <1>2, Zenon DEF Edit, Edits

LEMMA FilesRest ==
  ASSUME FileKept, UNCHANGED fileVars,
         \A s \in Runners : \/ pc'[s] = pc[s] /\ todo'[s] = todo[s] /\ Edit(s)' = Edit(s)
                            \/ ~Writing(s) /\ ~Writing(s)'
  PROVE  FileKept'
<1>1. UNCHANGED <<buf, file, torn, applied, disturbed>>
  BY DEF fileVars
<1>2. FileTyped'
  BY <1>1 DEF FileKept, FileTyped
<1>3. ASSUME ~disturbed' PROVE Alone'
  <2>1. Alone
    BY <1>1, <1>3 DEF FileKept
  <2>2. \A r, s \in Writers' : r = s
    BY <2>1 DEF Alone, Writers, Writing
  <2>3. torn' => \E r \in Runners : pc'[r] = "fill"
    BY <1>1, <2>1 DEF Alone, Writing
  <2>4. ASSUME NEW s \in Runners
        PROVE  /\ pc'[s] = "edit" => /\ ~torn' /\ Head(todo'[s]) # "write"
                                     /\ buf'[s] = applied' \cup {Edit(s)'}
               /\ pc'[s] = "fill" => buf'[s] = IF Head(todo'[s]) = "write" THEN {} ELSE applied' \cup {Edit(s)'}
    BY <1>1, <2>1 DEF Alone, Writing
  <2> QED
    BY <1>1, <2>1, <2>2, <2>3, <2>4 DEF Alone
<1> QED
  BY <1>2, <1>3 DEF FileKept

\* The runner at hand is where it does not write, before and after.
LEMMA FilesAside ==
  ASSUME FileKept, UNCHANGED fileVars, NEW r \in Runners, OthersStay(r), ~Writing(r), ~Writing(r)',
         \A c \in Conns \ {r} : chats'[c] = chats[c]
  PROVE  FileKept'
<1>1. ASSUME NEW s \in Runners \ {r} PROVE pc'[s] = pc[s] /\ todo'[s] = todo[s] /\ Edit(s)' = Edit(s)
  BY DEF OthersStay, Edit
<1> QED
  BY <1>1, FilesRest

LEMMA WriteFile ==
  ASSUME LoopKept, FileKept, BridgeTyped, NEW r \in Runners, pc[r] = "tools", Head(todo[r]) = "write",
         OthersStay(r), pc'[r] = "fill", todo' = todo,
         file' = {}, torn', buf' = [buf EXCEPT ![r] = {}], Enter(r), UNCHANGED applied
  PROVE  FileKept'
<1>1. FileTyped'
  BY DEF FileKept, FileTyped, Enter
<1>2. ASSUME ~disturbed' PROVE Alone'
  <2>1. \A s \in Runners : ~Writing(s)
    BY <1>2 DEF Enter, Writers, Writing
  <2>2. \A s \in Runners \ {r} : ~Writing(s)'
    BY <2>1 DEF OthersStay, Writing
  <2>3. buf'[r] = {} /\ Head(todo'[r]) = "write"
    BY DEF FileKept, FileTyped
  <2>4. \A s, u \in Writers' : s = u
    BY <2>2 DEF Writers, Writing
  <2> QED
    BY <2>2, <2>3, <2>4 DEF Alone, Writing
<1> QED
  BY <1>1, <1>2 DEF FileKept

LEMMA EditReadFile ==
  ASSUME LoopKept, FileKept, BridgeTyped, NEW r \in Runners, pc[r] = "tools", Head(todo[r]) = "edit",
         OthersStay(r), pc'[r] = "edit", UNCHANGED <<turn, todo, chats>>,
         ~torn, buf' = [buf EXCEPT ![r] = Updated(r)], Enter(r), UNCHANGED <<file, torn, applied>>
  PROVE  FileKept'
<1>1. Edit(r) \in Edits
  BY EditsTyped DEF LoopKept
<1>2. FileTyped'
  BY <1>1 DEF FileKept, FileTyped, Enter, Updated
<1>3. ASSUME ~disturbed' PROVE Alone'
  <2>1. (\A s \in Runners : ~Writing(s)) /\ ~disturbed
    BY <1>3 DEF Enter, Writers, Writing, FileKept, FileTyped
  <2>2. \A s \in Runners \ {r} : ~Writing(s)'
    BY <2>1 DEF OthersStay, Writing
  <2>3. file = applied
    BY <2>1 DEF FileKept, Alone
  <2>4. Edit(r)' = Edit(r)
    BY DEF Edit
  <2>5. buf'[r] = applied' \cup {Edit(r)'} /\ Head(todo'[r]) # "write"
    BY <2>3, <2>4 DEF FileKept, FileTyped, Updated
  <2>6. \A s, u \in Writers' : s = u
    BY <2>2 DEF Writers, Writing
  <2> QED
    BY <2>2, <2>3, <2>5, <2>6 DEF Alone, Writing
<1> QED
  BY <1>2, <1>3 DEF FileKept

LEMMA EditTruncateFile ==
  ASSUME LoopKept, FileKept, NEW r \in Runners, pc[r] = "edit", OthersStay(r), pc'[r] = "fill",
         UNCHANGED <<turn, todo, chats, buf, applied, disturbed>>, file' = {}, torn'
  PROVE  FileKept'
<1>1. FileTyped'
  BY DEF FileKept, FileTyped
<1>2. ASSUME ~disturbed' PROVE Alone'
  <2>1. Alone
    BY <1>2 DEF FileKept
  <2>2. \A s \in Runners \ {r} : ~Writing(s)
    BY <2>1 DEF Alone, Writers, Writing
  <2>3. \A s \in Runners \ {r} : ~Writing(s)'
    BY <2>2 DEF OthersStay, Writing
  <2>4. Edit(r)' = Edit(r)
    BY DEF Edit
  <2>5. buf'[r] = applied' \cup {Edit(r)'} /\ Head(todo'[r]) # "write"
    BY <2>1, <2>4 DEF Alone
  <2>6. \A s, u \in Writers' : s = u
    BY <2>3 DEF Writers, Writing
  <2> QED
    BY <2>3, <2>5, <2>6 DEF Alone, Writing
<1> QED
  BY <1>1, <1>2 DEF FileKept

LEMMA FillFile ==
  ASSUME LoopKept, FileKept, BridgeTyped, NEW r \in Runners, pc[r] = "fill", OthersStay(r), pc'[r] \in {"tools", "ask"},
         (torn' = FALSE /\ disturbed' = disturbed) \/ (disturbed' = TRUE /\ torn' = torn),
         file' = (IF disturbed' THEN {} ELSE buf[r]),
         applied' = (IF disturbed' \/ Head(todo[r]) = "write" THEN {} ELSE applied \cup {Edit(r)}),
         buf' = [buf EXCEPT ![r] = {}]
  PROVE  FileKept'
<1>1. Edit(r) \in Edits
  BY EditsTyped DEF LoopKept
<1>2. FileTyped'
  <2>1. applied' \in SUBSET Edits /\ file' \in SUBSET Edits
    BY <1>1 DEF FileKept, FileTyped
  <2>2. torn' \in BOOLEAN /\ disturbed' \in BOOLEAN /\ (torn' => file' = {})
    BY DEF FileKept, FileTyped
  <2> QED
    BY <2>1, <2>2 DEF FileKept, FileTyped
<1>3. ASSUME ~disturbed' PROVE Alone'
  <2>1. Alone /\ torn' = FALSE
    BY <1>3 DEF FileKept, FileTyped
  <2>2. \A s \in Runners \ {r} : ~Writing(s)
    BY <2>1 DEF Alone, Writers, Writing
  <2>3. \A s \in Runners : ~Writing(s)'
    BY <2>2 DEF OthersStay, Writing
  <2>4. file' = applied'
    BY <1>3, <2>1 DEF Alone
  <2> QED
    BY <2>1, <2>3, <2>4 DEF Alone, Writers, Writing
<1> QED
  BY <1>2, <1>3 DEF FileKept

LEMMA InterruptFile ==
  ASSUME FileKept, NEW r \in Runners, OthersStay(r), pc'[r] = "closed", UNCHANGED <<file, torn, applied, chats>>,
         disturbed' = (disturbed \/ pc[r] = "fill"), buf' = [buf EXCEPT ![r] = {}]
  PROVE  FileKept'
<1>1. FileTyped'
  BY DEF FileKept, FileTyped
<1>2. ASSUME ~disturbed' PROVE Alone'
  <2>1. Alone /\ pc[r] # "fill"
    BY <1>2 DEF FileKept, FileTyped
  <2>2. ~Writing(r)'
    BY DEF Writing
  <2>3. ASSUME NEW s \in Runners \ {r}
        PROVE  pc'[s] = pc[s] /\ todo'[s] = todo[s] /\ Edit(s)' = Edit(s) /\ buf'[s] = buf[s]
    BY DEF OthersStay, Edit, FileKept, FileTyped
  <2>4. \A s, u \in Writers' : s = u
    BY <2>1, <2>2, <2>3 DEF Alone, Writers, Writing
  <2>5. torn' => \E s \in Runners : pc'[s] = "fill"
    BY <2>1, <2>3 DEF Alone
  <2>6. ASSUME NEW s \in Runners
        PROVE  /\ pc'[s] = "edit" => /\ ~torn' /\ Head(todo'[s]) # "write"
                                     /\ buf'[s] = applied' \cup {Edit(s)'}
               /\ pc'[s] = "fill" => buf'[s] = IF Head(todo'[s]) = "write" THEN {} ELSE applied' \cup {Edit(s)'}
    BY <2>1, <2>3 DEF Alone
  <2> QED
    BY <2>1, <2>4, <2>5, <2>6 DEF Alone
<1> QED
  BY <1>1, <1>2 DEF FileKept

----------------------------------------------------------------------------
(* The lines typed at the terminals.                                        *)

LEMMA OneMoreYes ==
  ASSUME NEW s, NEW n \in Nat
  PROVE  LET yes(k) == {i \in 1..k : s[i] = "yes"} IN
         /\ Cardinality(yes(n)) \in Nat
         /\ s[n + 1] = "yes" => Cardinality(yes(n + 1)) = Cardinality(yes(n)) + 1
         /\ s[n + 1] # "yes" => Cardinality(yes(n + 1)) = Cardinality(yes(n))
<1> DEFINE yes(k) == {i \in 1..k : s[i] = "yes"}
<1>1. IsFiniteSet(1..n)
  BY FS_Interval
<1>2. IsFiniteSet(yes(n))
  <2>1. yes(n) \subseteq 1..n
    OBVIOUS
  <2> QED
    BY <1>1, <2>1, FS_Subset
<1>3. Cardinality(yes(n)) \in Nat
  BY <1>2, FS_CardinalityType
<1>4. ASSUME s[n + 1] = "yes" PROVE Cardinality(yes(n + 1)) = Cardinality(yes(n)) + 1
  <2>1. yes(n + 1) = yes(n) \cup {n + 1} /\ n + 1 \notin yes(n)
    BY <1>4
  <2> HIDE DEF yes
  <2>2. Cardinality(yes(n) \cup {n + 1}) = Cardinality(yes(n)) + 1
    BY <1>2, <2>1, FS_AddElement
  <2> QED
    BY <2>1, <2>2
<1>5. ASSUME s[n + 1] # "yes" PROVE Cardinality(yes(n + 1)) = Cardinality(yes(n))
  <2>1. yes(n + 1) = yes(n)
    BY <1>5
  <2> QED
    BY <2>1
<1> QED
  BY <1>3, <1>4, <1>5

LEMMA ConfirmLines ==
  ASSUME LinesKept, NEW t \in Terms, read[t] < Len(typed[t]), typed' = typed,
         read' = [read EXCEPT ![t] = @ + Consumed(t)],
         IF typed[t][read[t] + 1] = "yes" THEN ran' = [ran EXCEPT ![t] = @ + 1] ELSE ran' = ran
  PROVE  LinesKept'
<1>1. /\ read[t] \in Nat /\ ran[t] \in Nat /\ t \in Runners /\ t \notin Conns
      /\ read' = [read EXCEPT ![t] = read[t] + 1] /\ typed[t] \in Seq({"yes", "other"})
  BY MinParties DEF LinesKept, LinesTyped, Consumed, Runners
<1>2. PICK s \in Seq({"yes", "other"}), n \in Nat, l \in Nat : s = typed[t] /\ n = read[t] /\ l = Len(typed[t])
  <2>1. Len(typed[t]) \in Nat
    BY <1>1
  <2> QED
    BY <1>1, <2>1
<1>3. read' = [read EXCEPT ![t] = n + 1] /\ n < l /\ n + 1 \in Nat
  <2>1. n < l
    BY <1>2, Zenon
  <2>2. \A k \in Nat : k + 1 \in Nat
    OBVIOUS
  <2> QED
    BY <1>1, <1>2, <2>1, <2>2, Zenon
<1>4. LinesTyped'
  <2>1. ran' \in [Runners -> Nat]
    <3>1. ran[t] + 1 \in Nat
      BY <1>1
    <3> QED
      BY ZenonT(60), <3>1, <1>1 DEF LinesKept, LinesTyped
  <2> QED
    BY <1>3, <2>1 DEF LinesKept, LinesTyped
<1>5. \A u \in Terms : read'[u] <= Len(typed'[u])
  <2>1. n + 1 <= l
    BY <1>3
  <2> QED
    BY <1>2, <1>3, <2>1 DEF LinesKept, LinesTyped
<1>6. \A c \in Conns : ran'[c] = 0
  BY <1>1 DEF LinesKept, LinesTyped, YesEach, Runners
<1>7. ASSUME NEW u \in Terms PROVE ran'[u] = Cardinality({i \in 1..read'[u] : typed'[u][i] = "yes"})
  <2>1. CASE u # t
    <3>1. read'[u] = read[u] /\ ran'[u] = ran[u]
      BY <1>1, <2>1 DEF LinesKept, LinesTyped, Runners
    <3> QED
      BY <3>1 DEF LinesKept, YesEach
  <2>2. CASE u = t
    <3>1. read'[t] = n + 1 /\ ran[t] = Cardinality({i \in 1..n : s[i] = "yes"}) /\ typed'[t] = s
      <4>1. ran[t] = Cardinality({i \in 1..read[t] : typed[t][i] = "yes"})
        BY Zenon DEF LinesKept, YesEach
      <4>2. read'[t] = n + 1
        BY <1>3 DEF LinesKept, LinesTyped
      <4> QED
        BY <1>2, <4>1, <4>2, Zenon
    <3>2. /\ s[n + 1] = "yes" => Cardinality({i \in 1..(n + 1) : s[i] = "yes"}) = Cardinality({i \in 1..n : s[i] = "yes"}) + 1
          /\ s[n + 1] # "yes" => Cardinality({i \in 1..(n + 1) : s[i] = "yes"}) = Cardinality({i \in 1..n : s[i] = "yes"})
      BY OneMoreYes
    <3>3. ran'[t] = IF s[n + 1] = "yes" THEN ran[t] + 1 ELSE ran[t]
      BY <1>1, <1>2 DEF LinesKept, LinesTyped
    <3>4. ran'[t] = Cardinality({i \in 1..(n + 1) : s[i] = "yes"})
      BY <3>1, <3>2, <3>3, Zenon
    <3> QED
      BY <2>2, <3>1, <3>4, Zenon
  <2> QED
    BY <2>1, <2>2
<1> QED
  BY <1>4, <1>5, <1>6, <1>7 DEF LinesKept, YesEach

LEMMA TypeLines ==
  ASSUME LinesKept, NEW t \in Terms, NEW line \in {"yes", "other"},
         typed' = [typed EXCEPT ![t] = Append(@, line)], UNCHANGED <<read, ran>>
  PROVE  LinesKept'
<1>1. PICK s, n, e : s \in Seq({"yes", "other"}) /\ n \in Nat /\ s = typed[t] /\ n = read[t] /\ e = Append(s, line)
  BY DEF LinesKept, LinesTyped
<1>2. /\ e \in Seq({"yes", "other"}) /\ Len(e) = Len(s) + 1 /\ \A i \in 1..Len(s) : e[i] = s[i]
  BY <1>1, AppendProperties
<1>3. n <= Len(s) /\ n <= Len(e) /\ \A i \in 1..n : e[i] = s[i]
  <2>1. n <= Len(s) /\ Len(s) \in Nat
    BY <1>1 DEF LinesKept
  <2>2. n \in Nat
    BY <1>1
  <2> QED
    BY <1>2, <2>1, <2>2
<1>4. typed' = [typed EXCEPT ![t] = e]
  BY <1>1
<1>5. LinesTyped'
  BY <1>2, <1>4 DEF LinesKept, LinesTyped
<1>6. ASSUME NEW u \in Terms
      PROVE  read'[u] <= Len(typed'[u]) /\ ran'[u] = Cardinality({i \in 1..read'[u] : typed'[u][i] = "yes"})
  <2>1. CASE u # t
    <3>1. typed'[u] = typed[u]
      BY <1>4, <2>1 DEF LinesKept, LinesTyped
    <3> QED
      BY <3>1 DEF LinesKept, YesEach
  <2>2. CASE u = t
    <3>1. typed'[t] = e /\ read'[t] = n
      BY <1>1, <1>4 DEF LinesKept, LinesTyped
    <3>2. {i \in 1..n : e[i] = "yes"} = {i \in 1..n : s[i] = "yes"}
      BY <1>3
    <3>3. ran[t] = Cardinality({i \in 1..n : s[i] = "yes"})
      BY <1>1 DEF LinesKept, YesEach
    <3> QED
      BY ZenonT(60), <1>3, <2>2, <3>1, <3>2, <3>3
  <2> QED
    BY <2>1, <2>2
<1>7. \A c \in Conns : ran'[c] = 0
  BY DEF LinesKept, YesEach
<1> QED
  BY <1>5, <1>6, <1>7 DEF LinesKept, YesEach

----------------------------------------------------------------------------
(* The bridge.                                                              *)

LEMMA SessionTyped ==
  ASSUME BridgeTyped, NEW i \in DOMAIN sessions
  PROVE  sessions[i] \in Recorded /\ sessions[i].by \in Conns /\ sessions[i].chat \in Nat
<1>1. sessions[i] \in Recorded
  BY DEF BridgeTyped
<1>2. \A x \in Recorded : x.by \in Conns /\ x.chat \in Nat
  BY DEF Recorded
<1> QED
  BY <1>1, <1>2

\* Where no session is recorded and nobody is told of one.
LEMMA SessionsRest ==
  ASSUME BridgeKept, UNCHANGED <<chats, seq, sessions, told>>,
         open' \in [Conns -> BOOLEAN], authed' \in [Conns -> BOOLEAN],
         \A c \in Conns : /\ authed[c] => authed'[c]
                          /\ pc[c] \in {"idle", "reply", "closed"} => pc'[c] \in {"idle", "reply", "closed"}
                          /\ pc'[c] = "reply" => pc[c] = "reply"
  PROVE  BridgeKept'
<1>1. BridgeTyped' /\ ToldTruly'
  BY DEF BridgeKept, BridgeTyped, ToldTruly
<1>2. OneSession'
  <2>1. ASSUME NEW i \in DOMAIN sessions
        PROVE  /\ sessions[i].chat <= chats[sessions[i].by]
               /\ sessions[i].chat = chats[sessions[i].by] => pc'[sessions[i].by] \in {"idle", "reply", "closed"}
    <3>1. sessions[i].by \in Conns
      BY SessionTyped DEF BridgeKept
    <3> QED
      BY <3>1 DEF BridgeKept, OneSession
  <2> QED
    BY <2>1 DEF BridgeKept, OneSession
<1>3. \A c \in Conns : chats'[c] > 0 => authed'[c]
  BY DEF BridgeKept
<1> QED
  BY <1>1, <1>2, <1>3 DEF BridgeKept

\* A step of one runner that is neither at rest before nor about to reply after.
LEMMA BridgeAside ==
  ASSUME BridgeKept, UNCHANGED bridgeVars, NEW r \in Runners, OthersStay(r),
         pc[r] \notin {"idle", "reply", "closed"} \/ pc'[r] \in {"idle", "closed"} \/ r \notin Conns,
         pc'[r] # "reply" \/ r \notin Conns
  PROVE  BridgeKept'
<1>1. UNCHANGED <<open, authed, chats, seq, sessions, told>>
  BY DEF bridgeVars
<1>2. ASSUME NEW c \in Conns
      PROVE  /\ authed[c] => authed'[c]
             /\ pc[c] \in {"idle", "reply", "closed"} => pc'[c] \in {"idle", "reply", "closed"}
             /\ pc'[c] = "reply" => pc[c] = "reply"
  <2>1. c # r => pc'[c] = pc[c]
    BY DEF OthersStay, Runners
  <2> QED
    BY <1>1, <2>1
<1>3. open' \in [Conns -> BOOLEAN] /\ authed' \in [Conns -> BOOLEAN]
  BY <1>1 DEF BridgeKept, BridgeTyped
<1> QED
  BY <1>1, <1>2, <1>3, SessionsRest

LEMMA ChatSendBridge ==
  ASSUME BridgeKept, NEW c \in Conns, authed[c], chats' = [chats EXCEPT ![c] = @ + 1],
         UNCHANGED <<open, authed, seq, sessions, told>>, OthersStay(c), pc'[c] = "ask"
  PROVE  BridgeKept'
<1>1. chats[c] \in Nat /\ chats' \in [Conns -> Nat] /\ chats'[c] = chats[c] + 1 /\ \A d \in Conns \ {c} : chats'[d] = chats[d]
  BY DEF BridgeKept, BridgeTyped
<1>2. BridgeTyped' /\ ToldTruly'
  BY <1>1 DEF BridgeKept, BridgeTyped, ToldTruly
<1>3. ASSUME NEW i \in DOMAIN sessions
      PROVE  /\ sessions[i].chat <= chats'[sessions[i].by]
             /\ sessions[i].chat = chats'[sessions[i].by] => pc'[sessions[i].by] \in {"idle", "reply", "closed"}
  <2>1. sessions[i].by \in Conns /\ sessions[i].chat \in Nat /\ sessions[i].chat <= chats[sessions[i].by]
    BY SessionTyped DEF BridgeKept, OneSession
  <2>2. CASE sessions[i].by = c
    <3>1. \A x, y \in Nat : x <= y => x <= y + 1 /\ x # y + 1
      OBVIOUS
    <3> QED
      BY <1>1, <2>1, <2>2, <3>1, Zenon
  <2>3. CASE sessions[i].by # c
    <3>1. pc'[sessions[i].by] = pc[sessions[i].by]
      BY <2>1, <2>3 DEF OthersStay, Runners
    <3> QED
      BY <1>1, <2>1, <2>3, <3>1 DEF BridgeKept, OneSession
  <2> QED
    BY <2>2, <2>3
<1>4. ASSUME NEW d \in Conns, pc'[d] = "reply"
      PROVE  \E i \in DOMAIN sessions : sessions[i].by = d /\ sessions[i].chat = chats'[d]
  <2>1. d # c
    BY <1>4
  <2>2. pc[d] = "reply" /\ chats'[d] = chats[d]
    BY <1>1, <1>4, <2>1 DEF OthersStay, Runners
  <2> QED
    BY <2>2 DEF BridgeKept, OneSession
<1>5. OneSession'
  BY <1>3, <1>4 DEF BridgeKept, OneSession
<1>6. \A d \in Conns : chats'[d] > 0 => authed'[d]
  BY <1>1 DEF BridgeKept
<1> QED
  BY <1>2, <1>5, <1>6 DEF BridgeKept

LEMMA RecordBridge ==
  ASSUME BridgeKept, NEW c \in Conns, pc[c] = "record", OthersStay(c), pc'[c] = "reply", seq' = seq + 1,
         sessions' = Append(sessions, [id |-> seq + 1, by |-> c, chat |-> chats[c]]),
         UNCHANGED <<open, authed, chats, told>>
  PROVE  BridgeKept'
<1>1. PICK n \in Nat, k \in Nat, s \in Seq(Recorded) : n = seq /\ k = chats[c] /\ s = sessions
  BY DEF BridgeKept, BridgeTyped
<1>2. PICK m \in Recorded : m = [id |-> n + 1, by |-> c, chat |-> k]
  <2>1. n + 1 \in Nat
    OBVIOUS
  <2>2. [id |-> n + 1, by |-> c, chat |-> k] \in Recorded
    BY <2>1, Zenon DEF Recorded
  <2> QED
    BY <2>2
<1>3. m.id = n + 1 /\ m.by = c /\ m.chat = k
  BY <1>2
<1>4. Len(s) = n
  BY <1>1 DEF BridgeKept, OneSession
<1>5. PICK e : e = Append(s, m)
  OBVIOUS
<1>6. e \in Seq(Recorded) /\ Len(e) = n + 1 /\ e[n + 1] = m /\ \A i \in 1..n : e[i] = s[i]
  BY <1>4, <1>5, AppendProperties
<1>7. DOMAIN s = 1..n /\ DOMAIN e = 1..(n + 1)
  BY <1>4, <1>6
<1>8. sessions' = e /\ seq' = n + 1
  BY <1>1, <1>2, <1>5
<1>9. BridgeTyped'
  BY <1>6, <1>8 DEF BridgeKept, BridgeTyped
<1>10. \A i \in 1..(n + 1) : (i \in 1..n /\ e[i] = s[i]) \/ (i = n + 1 /\ e[i] = m)
  BY <1>6
<1>11. ASSUME NEW i \in 1..n
       PROVE  /\ s[i] \in Recorded /\ s[i].by \in Conns /\ s[i].id = i /\ s[i].chat <= chats[s[i].by]
              /\ s[i].chat = chats[s[i].by] => pc[s[i].by] \in {"idle", "reply", "closed"}
              /\ ~(s[i].by = c /\ s[i].chat = k)
  <2>1. s[i] \in Recorded /\ s[i].by \in Conns
    BY <1>1, <1>7, SessionTyped DEF BridgeKept
  <2>2. /\ s[i].id = i /\ s[i].chat <= chats[s[i].by]
        /\ s[i].chat = chats[s[i].by] => pc[s[i].by] \in {"idle", "reply", "closed"}
    BY <1>1, <1>7 DEF BridgeKept, ToldTruly, OneSession
  <2>3. ~(s[i].by = c /\ s[i].chat = k)
    BY <1>1, <2>2
  <2> QED
    BY <2>1, <2>2, <2>3
<1>12. ToldTruly'
  <2>1. \A i \in 1..(n + 1) : e[i].id = i
    BY <1>3, <1>10, <1>11
  <2>2. ASSUME NEW d \in Conns, NEW x \in told[d] PROVE x.id \in 1..(n + 1) /\ e[x.id] = x
    <3>1. x.id \in 1..n /\ s[x.id] = x
      BY <1>1, <1>7 DEF BridgeKept, ToldTruly
    <3> QED
      BY <1>6, <3>1
  <2> QED
    BY <1>7, <1>8, <2>1, <2>2 DEF ToldTruly
<1>13. ASSUME NEW i \in 1..(n + 1)
       PROVE  /\ e[i].chat <= chats[e[i].by]
              /\ e[i].chat = chats[e[i].by] => pc'[e[i].by] \in {"idle", "reply", "closed"}
  <2>1. CASE i = n + 1 /\ e[i] = m
    <3>1. k <= k
      OBVIOUS
    <3> QED
      BY <1>1, <1>3, <2>1, <3>1
  <2>2. CASE i \in 1..n /\ e[i] = s[i]
    <3>1. s[i].by # c => pc'[s[i].by] = pc[s[i].by]
      BY <1>11, <2>2 DEF OthersStay, Runners
    <3> QED
      BY <1>11, <2>2, <3>1
  <2> QED
    BY <1>10, <2>1, <2>2
<1>14. ASSUME NEW i \in 1..(n + 1), NEW j \in 1..(n + 1), e[i].by = e[j].by, e[i].chat = e[j].chat PROVE i = j
  <2>1. CASE i \in 1..n /\ e[i] = s[i] /\ j \in 1..n /\ e[j] = s[j]
    BY <1>1, <1>7, <1>14, <2>1 DEF BridgeKept, OneSession
  <2>2. CASE i = n + 1 /\ e[i] = m /\ j = n + 1
    BY <2>2
  <2>3. CASE i = n + 1 /\ e[i] = m /\ j \in 1..n /\ e[j] = s[j]
    BY <1>3, <1>11, <1>14, <2>3
  <2>4. CASE j = n + 1 /\ e[j] = m /\ i \in 1..n /\ e[i] = s[i]
    BY <1>3, <1>11, <1>14, <2>4
  <2> QED
    BY <1>10, <2>1, <2>2, <2>3, <2>4
<1>15. ASSUME NEW d \in Conns, pc'[d] = "reply"
       PROVE  \E i \in 1..(n + 1) : e[i].by = d /\ e[i].chat = chats[d]
  <2>1. CASE d = c
    BY <1>1, <1>3, <1>6, <2>1
  <2>2. CASE d # c
    <3>1. pc[d] = "reply"
      BY <1>15, <2>2 DEF OthersStay, Runners
    <3>2. PICK i \in 1..n : s[i].by = d /\ s[i].chat = chats[d]
      BY <1>1, <1>7, <3>1 DEF BridgeKept, OneSession
    <3> QED
      BY <1>6, <3>2
  <2> QED
    BY <2>1, <2>2
<1>16. OneSession'
  <2>1. seq' = Len(sessions') /\ DOMAIN sessions' = 1..(n + 1) /\ chats' = chats /\ sessions' = e
    BY <1>6, <1>7, <1>8
  <2> QED
    <3>1. \A i \in 1..(n + 1) :
            LET d == e[i].by IN
            /\ e[i].chat <= chats[d]
            /\ e[i].chat = chats[d] => pc'[d] \in {"idle", "reply", "closed"}
      BY <1>13, Zenon
    <3>2. \A i, j \in 1..(n + 1) : e[i].by = e[j].by /\ e[i].chat = e[j].chat => i = j
      BY <1>14, Zenon
    <3>3. \A d \in Conns : pc'[d] = "reply" => \E i \in 1..(n + 1) : e[i].by = d /\ e[i].chat = chats[d]
      BY <1>15, Zenon
    <3> QED
      <4>1. /\ \A i \in DOMAIN sessions' :
                 LET d == sessions'[i].by IN
                 /\ sessions'[i].chat <= chats'[d]
                 /\ sessions'[i].chat = chats'[d] => pc'[d] \in {"idle", "reply", "closed"}
            /\ \A i, j \in DOMAIN sessions' :
                 sessions'[i].by = sessions'[j].by /\ sessions'[i].chat = sessions'[j].chat => i = j
        BY <2>1, <3>1, <3>2
      <4>2. \A d \in Conns : pc'[d] = "reply" =>
              \E i \in DOMAIN sessions' : sessions'[i].by = d /\ sessions'[i].chat = chats'[d]
        BY <2>1, <3>3
      <4> QED
        BY <2>1, <4>1, <4>2, Zenon DEF OneSession
<1>17. \A d \in Conns : chats'[d] > 0 => authed'[d]
  BY DEF BridgeKept
<1> QED
  BY <1>9, <1>12, <1>16, <1>17 DEF BridgeKept

\* Whatever more is told is among what is recorded.
LEMMA TellBridge ==
  ASSUME BridgeKept, NEW c \in Conns, NEW more \in SUBSET {sessions[i] : i \in DOMAIN sessions},
         told' = [told EXCEPT ![c] = @ \cup more], UNCHANGED <<open, authed, chats, seq, sessions>>,
         \A d \in Conns : pc'[d] = pc[d] \/ (pc[d] = "reply" /\ pc'[d] = "idle")
  PROVE  BridgeKept'
<1>1. \A x \in more : x \in Recorded /\ x.id \in DOMAIN sessions /\ sessions[x.id] = x
  BY DEF BridgeKept, BridgeTyped, ToldTruly
<1>2. BridgeTyped'
  BY <1>1 DEF BridgeKept, BridgeTyped
<1>3. ToldTruly'
  <2>1. ASSUME NEW d \in Conns, NEW x \in told'[d] PROVE x.id \in DOMAIN sessions /\ sessions[x.id] = x
    <3>1. x \in told[d] \/ x \in more
      BY DEF BridgeKept, BridgeTyped
    <3> QED
      BY <1>1, <3>1 DEF BridgeKept, ToldTruly
  <2> QED
    BY <2>1 DEF BridgeKept, ToldTruly
<1>4. OneSession'
  <2>1. ASSUME NEW i \in DOMAIN sessions
        PROVE  /\ sessions[i].chat <= chats[sessions[i].by]
               /\ sessions[i].chat = chats[sessions[i].by] => pc'[sessions[i].by] \in {"idle", "reply", "closed"}
    <3>1. sessions[i].by \in Conns
      BY SessionTyped DEF BridgeKept
    <3> QED
      BY <3>1 DEF BridgeKept, OneSession
  <2> QED
    BY <2>1 DEF BridgeKept, OneSession
<1> QED
  BY <1>2, <1>3, <1>4 DEF BridgeKept

\* The reply names the session the request recorded.
LEMMA OwnSession ==
  ASSUME BridgeKept, NEW c \in Conns, pc[c] = "reply"
  PROVE  [id |-> Own(c), by |-> c, chat |-> chats[c]] \in {sessions[i] : i \in DOMAIN sessions}
<1> DEFINE All == {sessions[i] : i \in DOMAIN sessions}
           Mine(s) == s.by = c /\ s.chat = chats[c]
<1>1. PICK i \in DOMAIN sessions : Mine(sessions[i])
  BY DEF BridgeKept, OneSession
<1>2. PICK s : s = CHOOSE x \in All : Mine(x)
  OBVIOUS
<1>3. \E x \in All : Mine(x)
  BY <1>1
<1>4. s \in All /\ Mine(s)
  BY <1>2, <1>3
<1>5. s \in Recorded
  BY <1>4 DEF BridgeKept, BridgeTyped
<1>6. Own(c) = s.id
  BY <1>2 DEF Own
<1>7. s = [id |-> s.id, by |-> s.by, chat |-> s.chat]
  BY <1>5 DEF Recorded
<1> QED
  BY <1>4, <1>6, <1>7

----------------------------------------------------------------------------
(* Every step, over all the parts.                                          *)

\* Where the runner's loop and its place are all that moves.
LEMMA AsideStep ==
  ASSUME MinInv, LoopKept', NEW r \in Runners, OthersStay(r), UNCHANGED <<fileVars, bridgeVars, termVars>>,
         ~Writing(r), ~Writing(r)',
         pc[r] \notin {"idle", "reply", "closed"} \/ pc'[r] \in {"idle", "closed"} \/ r \notin Conns,
         pc'[r] # "reply" \/ r \notin Conns
  PROVE  MinInv'
<1>1. UNCHANGED fileVars /\ UNCHANGED bridgeVars /\ UNCHANGED termVars /\ chats' = chats
  BY DEF bridgeVars
<1>2. FileKept'
  BY <1>1, FilesAside DEF MinInv
<1>3. BridgeKept'
  BY <1>1, BridgeAside DEF MinInv
<1>4. LinesKept'
  BY <1>1 DEF MinInv, LinesKept, LinesTyped, YesEach, termVars
<1> QED
  BY <1>2, <1>3, <1>4 DEF MinInv

\* Where the call at hand is settled and no file is touched.
LEMMA SettleStep ==
  ASSUME MinInv, NEW r \in Runners, pc[r] \in {"tools", "confirm"}, NEW ok, Settle(r, ok),
         UNCHANGED <<fileVars, bridgeVars>>, LinesKept'
  PROVE  MinInv'
<1>1. LoopKept' /\ OthersStay(r) /\ pc'[r] \in {"tools", "ask"}
  BY SettleLoop DEF MinInv, Busy
<1>2. UNCHANGED fileVars /\ UNCHANGED bridgeVars /\ chats' = chats
  BY DEF bridgeVars
<1>3. ~Writing(r) /\ ~Writing(r)'
  BY <1>1 DEF Writing
<1>4. FileKept'
  BY <1>1, <1>2, <1>3, FilesAside DEF MinInv
<1>5. BridgeKept'
  BY <1>1, <1>2, BridgeAside DEF MinInv
<1> QED
  BY <1>1, <1>4, <1>5 DEF MinInv

LEMMA LinesRest ==
  ASSUME LinesKept, UNCHANGED termVars
  PROVE  LinesKept'
BY DEF LinesKept, LinesTyped, YesEach, termVars

LEMMA OutOfTurnsStep ==
  ASSUME MinInv, NEW r \in Runners, OutOfTurns(r)
  PROVE  MinInv'
<1>1. pc[r] = "ask" /\ Fail(r) /\ UNCHANGED <<fileVars, bridgeVars, termVars>>
  BY DEF OutOfTurns
<1>2. PICK p \in {"idle", "record", "closed"} : Return(r) /\ At(r, p) /\ p # "record"
  BY <1>1 DEF Fail
<1>3. LoopKept' /\ OthersStay(r) /\ pc'[r] = p
  BY <1>2, ReturnLoop DEF MinInv
<1>4. ~Writing(r) /\ ~Writing(r)' /\ pc'[r] # "reply"
  BY <1>1, <1>2, <1>3 DEF Writing
<1> QED
  BY <1>1, <1>3, <1>4, AsideStep

LEMMA AskStep ==
  ASSUME MinInv, NEW r \in Runners, Ask(r)
  PROVE  MinInv'
<1>1. pc[r] = "ask" /\ More(r) /\ UNCHANGED <<fileVars, bridgeVars, termVars>>
  BY DEF Ask
<1>2. CASE Fail(r) \/ Done(r)
  <2>1. PICK p \in {"idle", "record", "closed"} : Return(r) /\ At(r, p)
    BY <1>2 DEF Fail, Done
  <2>2. LoopKept' /\ OthersStay(r) /\ pc'[r] = p
    BY <2>1, ReturnLoop DEF MinInv
  <2>3. ~Writing(r) /\ ~Writing(r)' /\ pc'[r] # "reply"
    BY <1>1, <2>2 DEF Writing
  <2> QED
    BY <1>1, <2>2, <2>3, AsideStep
<1>3. ASSUME NEW calls \in Answers[r],
             msgs' = [msgs EXCEPT ![r] = <<[role |-> "assistant", calls |-> calls]>>],
             todo' = [todo EXCEPT ![r] = calls], At(r, "tools"), UNCHANGED <<turn, results>>
      PROVE  MinInv'
  <2>1. LoopKept' /\ OthersStay(r) /\ pc'[r] = "tools"
    BY <1>1, <1>3, AnswerLoop DEF MinInv
  <2>2. ~Writing(r) /\ ~Writing(r)' /\ pc'[r] # "reply"
    BY <1>1, <2>1 DEF Writing
  <2> QED
    BY <1>1, <2>1, <2>2, AsideStep
<1> QED
  BY <1>2, <1>3 DEF Ask

LEMMA LookStep ==
  ASSUME MinInv, NEW r \in Runners, Look(r)
  PROVE  MinInv'
<1>1. PICK ok \in BOOLEAN : Settle(r, ok)
  BY DEF Look
<1>2. pc[r] \in {"tools", "confirm"} /\ UNCHANGED <<fileVars, bridgeVars>> /\ LinesKept'
  BY LinesRest DEF Look, Call, MinInv
<1> QED
  BY <1>1, <1>2, SettleStep

LEMMA WriteStep ==
  ASSUME MinInv, NEW r \in Runners, Write(r)
  PROVE  MinInv'
<1>1. pc[r] = "tools" /\ Head(todo[r]) = "write" /\ UNCHANGED <<bridgeVars, termVars>> /\ LinesKept'
  BY LinesRest DEF Write, Call, MinInv
<1>2. CASE Settle(r, FALSE) /\ UNCHANGED fileVars
  <2>1. pc[r] \in {"tools", "confirm"} /\ UNCHANGED <<fileVars, bridgeVars>>
    BY <1>1, <1>2
  <2> QED
    BY <1>1, <1>2, <2>1, SettleStep
<1>3. CASE /\ file' = {} /\ torn' = TRUE /\ buf' = [buf EXCEPT ![r] = {}]
           /\ Enter(r) /\ At(r, "fill") /\ UNCHANGED <<loopVars, applied>>
  <2>1. LoopKept' /\ OthersStay(r) /\ pc'[r] = "fill"
    BY <1>1, <1>3, MoveLoop DEF MinInv, PCs, Busy
  <2>2. FileKept'
    <3>1. todo' = todo /\ UNCHANGED applied /\ torn'
      BY <1>3 DEF loopVars
    <3> QED
      BY <1>1, <1>3, <2>1, <3>1, WriteFile DEF MinInv, BridgeKept
  <2>3. BridgeKept'
    BY <1>1, <2>1, BridgeAside DEF MinInv
  <2> QED
    BY <1>1, <2>1, <2>2, <2>3 DEF MinInv
<1> QED
  BY <1>2, <1>3 DEF Write

LEMMA EditReadStep ==
  ASSUME MinInv, NEW r \in Runners, EditRead(r)
  PROVE  MinInv'
<1>1. pc[r] = "tools" /\ Head(todo[r]) = "edit" /\ UNCHANGED <<bridgeVars, termVars>> /\ LinesKept'
  BY LinesRest DEF EditRead, Call, MinInv
<1>2. CASE Settle(r, FALSE) /\ UNCHANGED fileVars
  <2>1. pc[r] \in {"tools", "confirm"} /\ UNCHANGED <<fileVars, bridgeVars>>
    BY <1>1, <1>2
  <2> QED
    BY <1>1, <1>2, <2>1, SettleStep
<1>3. CASE /\ ~torn /\ buf' = [buf EXCEPT ![r] = Updated(r)]
           /\ Enter(r) /\ At(r, "edit") /\ UNCHANGED <<loopVars, file, torn, applied>>
  <2>1. LoopKept' /\ OthersStay(r) /\ pc'[r] = "edit"
    BY <1>1, <1>3, MoveLoop DEF MinInv, PCs, Busy
  <2>2. FileKept'
    <3>1. UNCHANGED <<turn, todo, chats>> /\ UNCHANGED <<file, torn, applied>>
      BY <1>1, <1>3 DEF loopVars, bridgeVars
    <3> QED
      BY <1>1, <1>3, <2>1, <3>1, EditReadFile DEF MinInv, BridgeKept
  <2>3. BridgeKept'
    BY <1>1, <2>1, BridgeAside DEF MinInv
  <2> QED
    BY <1>1, <2>1, <2>2, <2>3 DEF MinInv
<1> QED
  BY <1>2, <1>3 DEF EditRead

LEMMA EditTruncateStep ==
  ASSUME MinInv, NEW r \in Runners, EditTruncate(r)
  PROVE  MinInv'
<1>1. /\ pc[r] = "edit" /\ file' = {} /\ torn' /\ At(r, "fill") /\ UNCHANGED loopVars
      /\ UNCHANGED <<turn, todo, chats, buf, applied, disturbed>> /\ UNCHANGED bridgeVars /\ LinesKept'
  BY LinesRest DEF EditTruncate, MinInv, loopVars, bridgeVars
<1>2. LoopKept' /\ OthersStay(r) /\ pc'[r] = "fill"
  BY <1>1, MoveLoop DEF MinInv, PCs, Busy
<1>3. FileKept'
  BY <1>1, <1>2, EditTruncateFile DEF MinInv
<1>4. BridgeKept'
  BY <1>1, <1>2, BridgeAside DEF MinInv
<1> QED
  BY <1>1, <1>2, <1>3, <1>4 DEF MinInv

LEMMA FillStep ==
  ASSUME MinInv, NEW r \in Runners, Fill(r)
  PROVE  MinInv'
<1>1. pc[r] = "fill" /\ UNCHANGED bridgeVars /\ LinesKept'
  BY LinesRest DEF Fill, MinInv
<1>2. \E ok \in BOOLEAN : Settle(r, ok)
  BY DEF Fill
<1>3. LoopKept' /\ OthersStay(r) /\ pc'[r] \in {"tools", "ask"}
  BY <1>1, <1>2, SettleLoop DEF MinInv, Busy
<1>4. /\ (torn' = FALSE /\ disturbed' = disturbed) \/ (disturbed' = TRUE /\ torn' = torn)
      /\ file' = (IF disturbed' THEN {} ELSE buf[r])
      /\ applied' = (IF disturbed' \/ Head(todo[r]) = "write" THEN {} ELSE applied \cup {Edit(r)})
      /\ buf' = [buf EXCEPT ![r] = {}]
  BY DEF Fill
<1>5. FileKept'
  BY <1>1, <1>3, <1>4, FillFile DEF MinInv, BridgeKept
<1>6. BridgeKept'
  BY <1>1, <1>3, BridgeAside DEF MinInv
<1> QED
  BY <1>1, <1>3, <1>5, <1>6 DEF MinInv

LEMMA RefuseStep ==
  ASSUME MinInv, NEW r \in Runners, Refuse(r)
  PROVE  MinInv'
<1>1. pc[r] \in {"tools", "confirm"} /\ UNCHANGED <<fileVars, bridgeVars>> /\ LinesKept' /\ Settle(r, FALSE)
  BY LinesRest DEF Refuse, Call, MinInv
<1> QED
  BY <1>1, SettleStep

LEMMA PromptStep ==
  ASSUME MinInv, NEW t \in Terms, Prompt(t)
  PROVE  MinInv'
<1>1. pc[t] = "tools" /\ UNCHANGED <<fileVars, bridgeVars, termVars>> /\ LinesKept' /\ t \in Runners
  BY LinesRest DEF Prompt, Call, MinInv, Runners
<1>2. CASE Settle(t, FALSE)
  BY <1>1, <1>2, SettleStep
<1>3. CASE At(t, "confirm") /\ UNCHANGED loopVars
  <2>1. LoopKept' /\ OthersStay(t) /\ pc'[t] = "confirm"
    BY <1>1, <1>3, MoveLoop DEF MinInv, PCs, Busy
  <2>2. ~Writing(t) /\ ~Writing(t)' /\ pc'[t] # "reply"
    BY <1>1, <2>1 DEF Writing
  <2> QED
    BY <1>1, <2>1, <2>2, AsideStep
<1> QED
  BY <1>2, <1>3 DEF Prompt

LEMMA ConfirmStep ==
  ASSUME MinInv, NEW t \in Terms, Confirm(t)
  PROVE  MinInv'
<1>1. /\ pc[t] \in {"tools", "confirm"} /\ UNCHANGED <<fileVars, bridgeVars>> /\ t \in Runners
      /\ \E ok \in BOOLEAN : Settle(t, ok)
  BY DEF Confirm, Runners
<1>2. LinesKept'
  <2>1. /\ read[t] < Len(typed[t]) /\ typed' = typed /\ read' = [read EXCEPT ![t] = @ + Consumed(t)]
        /\ IF typed[t][read[t] + 1] = "yes" THEN ran' = [ran EXCEPT ![t] = @ + 1] ELSE ran' = ran
    BY DEF Confirm
  <2> QED
    BY <2>1, ConfirmLines DEF MinInv
<1> QED
  BY <1>1, <1>2, SettleStep

LEMMA TypeStep ==
  ASSUME MinInv, NEW t \in Terms, Type(t)
  PROVE  MinInv'
<1>1. /\ UNCHANGED <<pc, loopVars, fileVars, bridgeVars>> /\ UNCHANGED <<read, ran>> 
      /\ \E line \in {"yes", "other"} : typed' = [typed EXCEPT ![t] = Append(@, line)]
  BY DEF Type
<1>2. LinesKept'
  BY <1>1, TypeLines DEF MinInv
<1>3. LoopKept'
  BY <1>1 DEF MinInv, LoopKept, LoopTyped, Turn, Asked, loopVars
<1>4. FileKept'
  <2>1. \A s \in Runners : pc'[s] = pc[s] /\ todo'[s] = todo[s] /\ Edit(s)' = Edit(s)
    BY <1>1 DEF loopVars, bridgeVars, Edit
  <2> QED
    BY <1>1, <2>1, FilesRest DEF MinInv
<1>5. BridgeKept'
  BY <1>1, SessionsRest DEF MinInv, BridgeKept, BridgeTyped, bridgeVars
<1> QED
  BY <1>2, <1>3, <1>4, <1>5 DEF MinInv

LEMMA CmdRunStep ==
  ASSUME MinInv, NEW t \in Terms, CmdRun(t)
  PROVE  MinInv'
<1>1. pc[t] = "idle" /\ Begin(t) /\ UNCHANGED <<fileVars, bridgeVars, termVars>> /\ t \in Runners /\ t \notin Conns
  BY MinParties DEF CmdRun, Runners
<1>2. LoopKept' /\ OthersStay(t) /\ pc'[t] = "ask"
  BY <1>1, BeginLoop DEF MinInv
<1>3. ~Writing(t) /\ ~Writing(t)'
  BY <1>1, <1>2 DEF Writing
<1> QED
  BY <1>1, <1>2, <1>3, AsideStep

LEMMA InterruptStep ==
  ASSUME MinInv, NEW t \in Terms, Interrupt(t)
  PROVE  MinInv'
<1>1. /\ At(t, "closed") /\ Return(t) /\ disturbed' = (disturbed \/ pc[t] = "fill") /\ buf' = [buf EXCEPT ![t] = {}]
      /\ UNCHANGED <<file, torn, applied, chats>> /\ UNCHANGED bridgeVars /\ LinesKept' /\ t \in Runners
  BY LinesRest DEF Interrupt, MinInv, Runners, bridgeVars
<1>2. LoopKept' /\ OthersStay(t) /\ pc'[t] = "closed"
  BY <1>1, ReturnLoop DEF MinInv
<1>3. FileKept'
  BY <1>1, <1>2, InterruptFile DEF MinInv
<1>4. BridgeKept'
  BY <1>1, <1>2, BridgeAside DEF MinInv
<1> QED
  BY <1>1, <1>2, <1>3, <1>4 DEF MinInv

\* The bridge's own steps leave every loop and the file alone.
LEMMA BridgeOnlyStep ==
  ASSUME MinInv, BridgeKept', UNCHANGED <<pc, loopVars, fileVars, chats, termVars>>
  PROVE  MinInv'
<1>1. UNCHANGED pc /\ UNCHANGED loopVars /\ UNCHANGED fileVars /\ UNCHANGED termVars /\ UNCHANGED chats
  OBVIOUS
<1>2. LoopKept'
  BY <1>1 DEF MinInv, LoopKept, LoopTyped, Turn, Asked, loopVars
<1>3. FileKept'
  <2>1. \A s \in Runners : pc'[s] = pc[s] /\ todo'[s] = todo[s] /\ Edit(s)' = Edit(s)
    BY <1>1 DEF loopVars, Edit
  <2> QED
    BY <1>1, <2>1, FilesRest DEF MinInv
<1>4. LinesKept'
  BY <1>1, LinesRest DEF MinInv
<1> QED
  BY <1>2, <1>3, <1>4 DEF MinInv

LEMMA ConnectStep ==
  ASSUME MinInv, NEW c \in Conns, Connect(c)
  PROVE  MinInv'
<1>1. /\ authed' = [authed EXCEPT ![c] = TRUE] /\ UNCHANGED <<pc, loopVars, fileVars, chats, termVars>>
      /\ UNCHANGED <<chats, seq, sessions, told>> /\ open' = open
  BY DEF Connect
<1>2. /\ open' \in [Conns -> BOOLEAN] /\ authed' \in [Conns -> BOOLEAN] /\ \A d \in Conns : authed[d] => authed'[d]
  BY <1>1 DEF MinInv, BridgeKept, BridgeTyped
<1>3. BridgeKept'
  BY <1>1, <1>2, SessionsRest DEF MinInv
<1> QED
  BY <1>1, <1>3, BridgeOnlyStep

LEMMA DisconnectStep ==
  ASSUME MinInv, NEW c \in Conns, Disconnect(c)
  PROVE  MinInv'
<1>1. /\ open' = [open EXCEPT ![c] = FALSE] /\ UNCHANGED <<pc, loopVars, fileVars, chats, termVars>>
      /\ UNCHANGED <<chats, seq, sessions, told>> /\ authed' = authed
  BY DEF Disconnect
<1>2. /\ open' \in [Conns -> BOOLEAN] /\ authed' \in [Conns -> BOOLEAN] /\ \A d \in Conns : authed[d] => authed'[d]
  BY <1>1 DEF MinInv, BridgeKept, BridgeTyped
<1>3. BridgeKept'
  BY <1>1, <1>2, SessionsRest DEF MinInv
<1> QED
  BY <1>1, <1>3, BridgeOnlyStep

LEMMA ChatSendStep ==
  ASSUME MinInv, NEW c \in Conns, ChatSend(c)
  PROVE  MinInv'
<1>1. /\ pc[c] = "idle" /\ Begin(c) /\ authed[c] /\ chats' = [chats EXCEPT ![c] = @ + 1]
      /\ UNCHANGED fileVars /\ UNCHANGED <<open, authed, seq, sessions, told>> /\ LinesKept' /\ c \in Runners
  BY LinesRest DEF ChatSend, Reads, MinInv, Runners
<1>2. LoopKept' /\ OthersStay(c) /\ pc'[c] = "ask"
  BY <1>1, BeginLoop DEF MinInv
<1>3. ~Writing(c) /\ ~Writing(c)' /\ \A d \in Conns \ {c} : chats'[d] = chats[d]
  BY <1>1, <1>2 DEF Writing, MinInv, BridgeKept, BridgeTyped
<1>4. FileKept'
  BY <1>1, <1>2, <1>3, FilesAside DEF MinInv
<1>5. BridgeKept'
  BY <1>1, <1>2, ChatSendBridge DEF MinInv
<1> QED
  BY <1>1, <1>2, <1>4, <1>5 DEF MinInv

LEMMA SessionsListStep ==
  ASSUME MinInv, NEW c \in Conns, SessionsList(c)
  PROVE  MinInv'
<1>1. /\ UNCHANGED <<pc, loopVars, fileVars, chats, termVars>> /\ UNCHANGED <<open, authed, chats, seq, sessions>>
      /\ told' = [told EXCEPT ![c] = @ \cup {sessions[i] : i \in DOMAIN sessions}]
  BY DEF SessionsList
<1>2. BridgeKept'
  BY <1>1, TellBridge DEF MinInv
<1> QED
  BY <1>1, <1>2, BridgeOnlyStep

LEMMA RecordStep ==
  ASSUME MinInv, NEW c \in Runners, Record(c)
  PROVE  MinInv'
<1>1. /\ c \in Conns /\ pc[c] = "record" /\ At(c, "reply") /\ seq' = seq + 1
      /\ sessions' = Append(sessions, [id |-> seq + 1, by |-> c, chat |-> chats[c]])
      /\ UNCHANGED loopVars /\ UNCHANGED fileVars /\ UNCHANGED <<open, authed, chats, told>> /\ LinesKept'
  BY LinesRest DEF Record, MinInv
<1>2. LoopKept' /\ OthersStay(c) /\ pc'[c] = "reply"
  BY <1>1, MoveLoop DEF MinInv, PCs, Busy
<1>3. FileKept'
  <2>1. ~Writing(c) /\ ~Writing(c)' /\ chats' = chats
    BY <1>1, <1>2 DEF Writing
  <2> QED
    BY <1>1, <1>2, <2>1, FilesAside DEF MinInv
<1>4. BridgeKept'
  BY <1>1, <1>2, RecordBridge DEF MinInv
<1> QED
  BY <1>1, <1>2, <1>3, <1>4 DEF MinInv

LEMMA ReplyStep ==
  ASSUME MinInv, NEW c \in Runners, Reply(c)
  PROVE  MinInv'
<1>1. /\ c \in Conns /\ pc[c] = "reply" /\ At(c, "idle")
      /\ told' = IF open[c] THEN [told EXCEPT ![c] = @ \cup {[id |-> Own(c), by |-> c, chat |-> chats[c]]}] ELSE told
      /\ UNCHANGED loopVars /\ UNCHANGED fileVars /\ UNCHANGED <<open, authed, chats, seq, sessions>> /\ LinesKept'
  BY LinesRest DEF Reply, MinInv
<1>2. LoopKept' /\ OthersStay(c) /\ pc'[c] = "idle"
  BY <1>1, MoveLoop DEF MinInv, PCs, Busy
<1>3. FileKept'
  <2>1. ~Writing(c) /\ ~Writing(c)' /\ chats' = chats
    BY <1>1, <1>2 DEF Writing
  <2> QED
    BY <1>1, <1>2, <2>1, FilesAside DEF MinInv
<1>4. BridgeKept'
  <2>1. \A d \in Conns : pc'[d] = pc[d] \/ (pc[d] = "reply" /\ pc'[d] = "idle")
    BY <1>1, <1>2 DEF OthersStay, Runners
  <2>2. [id |-> Own(c), by |-> c, chat |-> chats[c]] \in {sessions[i] : i \in DOMAIN sessions}
    BY <1>1, OwnSession DEF MinInv
  <2>3. PICK own : own = [id |-> Own(c), by |-> c, chat |-> chats[c]]
    OBVIOUS
  <2>4. CASE open[c]
    <3>1. told' = [told EXCEPT ![c] = @ \cup {own}] /\ {own} \in SUBSET {sessions[i] : i \in DOMAIN sessions}
      BY <1>1, <2>2, <2>3, <2>4
    <3> QED
      BY <1>1, <2>1, <3>1, TellBridge DEF MinInv
  <2>5. CASE ~open[c]
    <3>1. told' = [told EXCEPT ![c] = @ \cup {}] /\ {} \in SUBSET {sessions[i] : i \in DOMAIN sessions}
      BY <1>1, <2>5 DEF MinInv, BridgeKept, BridgeTyped
    <3> QED
      BY <1>1, <2>1, <3>1, TellBridge DEF MinInv
  <2> QED
    BY <2>4, <2>5
<1> QED
  BY <1>1, <1>2, <1>3, <1>4 DEF MinInv

LEMMA CloseStep ==
  ASSUME MinInv, NEW c \in Conns, Close(c)
  PROVE  MinInv'
<1>1. pc[c] = "idle" /\ At(c, "closed") /\ UNCHANGED loopVars /\ UNCHANGED <<fileVars, bridgeVars, termVars>> /\ c \in Runners
  BY DEF Close, Runners
<1>2. LoopKept' /\ OthersStay(c) /\ pc'[c] = "closed"
  BY <1>1, MoveLoop DEF MinInv, PCs, Busy
<1>3. ~Writing(c) /\ ~Writing(c)' /\ pc'[c] # "reply"
  BY <1>1, <1>2 DEF Writing
<1> QED
  BY <1>1, <1>2, <1>3, AsideStep

LEMMA MinNext ==
  ASSUME MinInv, [Next]_vars
  PROVE  MinInv'
<1>1. CASE UNCHANGED vars
  <2>1. UNCHANGED <<pc, loopVars, fileVars, bridgeVars, termVars>>
    BY <1>1 DEF vars
  <2>2. BridgeKept'
    BY <2>1, SessionsRest DEF MinInv, BridgeKept, BridgeTyped, bridgeVars
  <2>3. UNCHANGED <<pc, loopVars, fileVars, chats, termVars>>
    BY <2>1 DEF bridgeVars
  <2> QED
    BY <2>2, <2>3, BridgeOnlyStep
<1>2. ASSUME NEW r \in Runners, Run(r) PROVE MinInv'
  BY <1>2, OutOfTurnsStep, AskStep, LookStep, WriteStep, EditReadStep, EditTruncateStep, FillStep, RefuseStep,
     RecordStep, ReplyStep DEF Run
<1>3. ASSUME NEW t \in Terms, CmdRun(t) \/ Prompt(t) \/ Confirm(t) \/ Type(t) \/ Interrupt(t) PROVE MinInv'
  BY <1>3, CmdRunStep, PromptStep, ConfirmStep, TypeStep, InterruptStep
<1>4. ASSUME NEW c \in Conns, Connect(c) \/ ChatSend(c) \/ SessionsList(c) \/ Disconnect(c) \/ Close(c) PROVE MinInv'
  BY <1>4, ConnectStep, ChatSendStep, SessionsListStep, DisconnectStep, CloseStep
<1> QED
  BY <1>1, <1>2, <1>3, <1>4 DEF Next

LEMMA MinStart == Init => MinInv
<1> SUFFICES ASSUME Init PROVE MinInv
  OBVIOUS
<1>1. LoopKept
  <2>1. 0 \in 0..MaxTurns /\ <<>> \in Seq(Message) /\ <<>> \in Seq(Kinds)
    BY MinParties
  <2>2. LoopTyped
    BY <2>1 DEF Init, LoopTyped, PCs
  <2> QED
    BY <2>2 DEF Init, LoopKept, Turn, Asked, Busy
<1>2. FileKept
  BY DEF Init, FileKept, FileTyped, Alone, Writers
<1>3. LinesKept
  <2>1. LinesTyped
    BY DEF Init, LinesTyped
  <2>2. \A t \in Terms : read[t] = 0 /\ Len(typed[t]) = 0 /\ ran[t] = 0
    BY DEF Init, Runners
  <2>3. {i \in 1..0 : FALSE} = {} /\ \A s : {i \in 1..0 : s[i] = "yes"} = {}
    OBVIOUS
  <2>4. Cardinality({}) = 0
    BY FS_EmptySet
  <2>5. \A t \in Terms : ran[t] = Cardinality({i \in 1..read[t] : typed[t][i] = "yes"})
    BY <2>2, <2>3, <2>4
  <2>6. \A c \in Conns : ran[c] = 0
    BY DEF Init, Runners
  <2> QED
    BY <2>1, <2>2, <2>5, <2>6 DEF LinesKept, YesEach
<1>4. BridgeKept
  <2>1. /\ sessions = <<>> /\ DOMAIN sessions = {} /\ seq = 0 /\ Len(sessions) = 0 /\ sessions \in Seq(Recorded)
        /\ \A c \in Conns : pc[c] = "idle" /\ told[c] = {} /\ chats[c] = 0
    BY DEF Init, Runners
  <2>2. BridgeTyped
    BY <2>1 DEF Init, BridgeTyped
  <2>3. OneSession /\ ToldTruly
    BY <2>1 DEF OneSession, ToldTruly
  <2> QED
    BY <2>1, <2>2, <2>3 DEF BridgeKept
<1> QED
  BY <1>1, <1>2, <1>3, <1>4 DEF MinInv

----------------------------------------------------------------------------
\* The invariant holds of loop.go, confirm.go, tools.go and compat.go together,
\* for every number of connections, terminals, turns and answers.
THEOREM MinInductive == Spec => []MinInv
BY MinStart, MinNext, PTL DEF Spec

\* The state of a run, of the file, of the lines typed and of the bridge is well
\* typed; a run never goes past its turns.
THEOREM TypesKept == Spec => []TypeOK
<1>1. MinInv => TypeOK
  BY DEF MinInv, LoopKept, LoopTyped, PCs, Turn, Busy, FileKept, FileTyped, BridgeKept, TypeOK
<1> QED
  BY <1>1, MinInductive, PTL

\* loop.go and confirm.go: a provider is only asked with one result for each
\* call, and a command that ran used up a "yes" of its own; none ran for the
\* bridge.
THEOREM CallsSettledAlways == Spec => []CallsSettled
<1>1. MinInv => CallsSettled
  BY DEF MinInv, LoopKept, Asked, LinesKept, CallsSettled, Paired
<1> QED
  BY <1>1, MinInductive, PTL

\* tools.go and compat.go: what was reported of the file is in it unless two
\* writers overlapped or a write failed halfway, and a client is told of
\* sessions as they are recorded.
THEOREM TruthfulAlways == Spec => []Truthful
<1>1. MinInv => Truthful
  BY DEF MinInv, FileKept, Alone, BridgeKept, Truthful, EditsKept
<1> QED
  BY <1>1, MinInductive, PTL

=============================================================================
