---------------------------- MODULE ServicesProofs ----------------------------
(***************************************************************************)
(* What serve runs beside the front ends: the promises that the run of     *)
(* MCServe checks, for every number of calls, sessions, questions,         *)
(* users, jobs and files.  One inductive invariant per component; that a   *)
(* scenario lets only one of them step is the last part.                   *)
(***************************************************************************)
EXTENDS MCServe, FiniteSetTheorems, SequenceTheorems, WellFoundedInduction, TLAPS

----------------------------------------------------------------------------
(* The MCP clients.  What a call finds in its channel was put there for its *)
(* own request, and ids are handed out once per call.                      *)

McSpec == McInit /\ [][McNextStep]_mcVars

McNumbered == {c \in McCalls : mcId[c] # 0}

McBoxesOwn == \A c \in McCalls : mcBox[c] \in {0, McError, mcId[c]}

McUntouched ==
  /\ \A c \in McCalls : mcPc[c] = "new" => mcId[c] = 0 /\ mcGot[c] = 0 /\ mcBox[c] = 0
  /\ \A c \in McCalls : mcPc[c] = "scan" => mcKind = "stdio"

McInv == McTypeOK /\ McOwnAnswer /\ McBoxesOwn /\ McUntouched /\ mcNext = Cardinality(McNumbered) + 1

\* A call that has no number takes the next one.
LEMMA McNumberNext ==
  ASSUME McInv, NEW c \in McCalls, mcPc[c] = "new", mcId' = [mcId EXCEPT ![c] = mcNext], mcNext' = mcNext + 1
  PROVE  /\ mcNext \in 1..Cardinality(McCalls) /\ mcNext' \in 1..McError
         /\ mcId' \in [McCalls -> 0..Cardinality(McCalls)]
         /\ mcNext' = Cardinality(McNumbered)' + 1
<1>1. IsFiniteSet(McCalls) /\ McNumbered \subseteq McCalls /\ c \notin McNumbered /\ mcNext = Cardinality(McNumbered) + 1
  BY McAssumption DEF McInv, McUntouched, McNumbered
<1>2. IsFiniteSet(McNumbered) /\ IsFiniteSet(McNumbered \cup {c})
  BY <1>1, FS_Subset, FS_AddElement
<1>3. Cardinality(McNumbered \cup {c}) = Cardinality(McNumbered) + 1
  BY <1>1, <1>2, FS_AddElement
<1>4. Cardinality(McNumbered \cup {c}) <= Cardinality(McCalls)
  BY <1>1, FS_Subset
<1>5. Cardinality(McNumbered) \in Nat /\ Cardinality(McCalls) \in Nat
  BY <1>1, <1>2, FS_CardinalityType
<1>6. mcNext \in 1..Cardinality(McCalls) /\ mcNext' \in 1..McError
  BY <1>1, <1>3, <1>4, <1>5 DEF McError
<1>7. mcId' \in [McCalls -> 0..Cardinality(McCalls)]
  BY <1>5, <1>6 DEF McInv, McTypeOK
<1>8. McNumbered' = McNumbered \cup {c}
  <2>1. mcId \in [McCalls -> 0..Cardinality(McCalls)] /\ mcNext # 0
    BY <1>5, <1>6 DEF McInv, McTypeOK
  <2>2. \A d \in McCalls : mcId'[d] # 0 <=> mcId[d] # 0 \/ d = c
    BY <2>1
  <2> QED
    BY <2>2 DEF McNumbered
<1> QED
  BY <1>1, <1>3, <1>6, <1>7, <1>8

\* The parts of the invariant an action leaves alone that touches no id.
LEMMA McSameIds == ASSUME mcId' = mcId PROVE McNumbered' = McNumbered
  BY DEF McNumbered

LEMMA McNextInv == McInv /\ [McNextStep]_mcVars => McInv'
<1> SUFFICES ASSUME McInv, [McNextStep]_mcVars PROVE McInv'
  OBVIOUS
<1> USE McAssumption DEF McInv
<1>0. /\ Cardinality(McCalls) \in Nat /\ McError \in Nat /\ McError = Cardinality(McCalls) + 1
      /\ McIds = 1..Cardinality(McCalls) /\ 0 \in 0..McError /\ McError \in 0..McError /\ McError # 0
      /\ \A i \in 0..Cardinality(McCalls) : i \in 0..McError /\ i # McError
  BY FS_CardinalityType DEF McError, McIds
<1>1. CASE McAnswer
  <2> PICK i \in mcOpen : mcOpen' = mcOpen \ {i} /\ mcWire' = Append(mcWire, i)
    BY <1>1 DEF McAnswer
  <2>1. mcWire' \in Seq(0..Cardinality(McCalls))
    <3>1. i \in 0..Cardinality(McCalls) /\ mcWire \in Seq(0..Cardinality(McCalls))
      BY <1>0 DEF McTypeOK
    <3> QED
      BY <3>1
  <2>2. McTypeOK'
    BY <1>0, <1>1, <2>1 DEF McAnswer, McTypeOK
  <2> QED
    BY <1>1, <2>2, McSameIds DEF McAnswer, McOwnAnswer, McBoxesOwn, McUntouched
<1>2. CASE McStrayLine
  <2> PICK i \in {0} \union ((1..(mcNext - 1)) \ mcOpen) : mcWire' = Append(mcWire, i)
    BY <1>2 DEF McStrayLine
  <2>1. mcWire' \in Seq(0..Cardinality(McCalls))
    <3>1. i \in 0..Cardinality(McCalls) /\ mcWire \in Seq(0..Cardinality(McCalls))
      BY <1>0 DEF McTypeOK
    <3> QED
      BY <3>1
  <2>2. mcStray' \in 0..McNoise
    BY <1>2 DEF McStrayLine, McTypeOK
  <2>3. McTypeOK'
    BY <1>0, <1>2, <2>1, <2>2 DEF McStrayLine, McTypeOK
  <2> QED
    BY <1>2, <2>3, McSameIds DEF McStrayLine, McOwnAnswer, McBoxesOwn, McUntouched
<1>3. CASE McServerFails \/ McAskClose \/ McCloseStdio \/ McCloseSse
  <2>1. UNCHANGED <<mcKind, mcPc, mcId, mcGot, mcExpired, mcNext, mcLock, mcOpen, mcWire, mcBox, mcPump, mcStray>>
        /\ mcServer' \in {"up", "silent", "down"} /\ mcClose' \in {"no", "asked", "done"}
    BY <1>3 DEF McServerFails, McAskClose, McCloseStdio, McCloseSse, McTypeOK
  <2> QED
    BY <2>1, McSameIds DEF McTypeOK, McOwnAnswer, McBoxesOwn, McUntouched
<1>4. ASSUME NEW c \in McCalls, McExpire(c) PROVE McInv'
  BY <1>4, McSameIds DEF McExpire, McTypeOK, McOwnAnswer, McBoxesOwn, McUntouched
<1>5. CASE McPump
  <2>0. mcWire \in Seq(0..Cardinality(McCalls)) /\ mcWire # <<>> /\ mcWire' = Tail(mcWire)
    BY <1>5 DEF McPump, McTypeOK
  <2> DEFINE S == 0..Cardinality(McCalls)
  <2>1. mcWire' \in Seq(S) /\ Head(mcWire) \in S
    <3> HIDE DEF S
    <3>1. mcWire \in Seq(S) /\ mcWire # <<>> /\ mcWire' = Tail(mcWire)
      BY <2>0 DEF S
    <3> QED
      BY <3>1
  <2>2. mcBox' \in [McCalls -> 0..McError] /\ McBoxesOwn'
    BY <1>0, <1>5, <2>1 DEF McPump, McWaits, McTypeOK, McBoxesOwn
  <2>3. McUntouched' /\ McOwnAnswer'
    BY <1>5 DEF McPump, McWaits, McTypeOK, McUntouched, McOwnAnswer
  <2>4. McTypeOK'
    BY <1>5, <2>1, <2>2 DEF McPump, McTypeOK
  <2> QED
    BY <1>5, <2>2, <2>3, <2>4, McSameIds DEF McPump
<1>6. CASE McPumpEnds
  <2>1. mcBox' \in [McCalls -> 0..McError] /\ McBoxesOwn'
    BY <1>0, <1>6 DEF McPumpEnds, McTypeOK, McBoxesOwn
  <2>2. McUntouched' /\ McOwnAnswer'
    BY <1>6 DEF McPumpEnds, McTypeOK, McUntouched, McOwnAnswer
  <2>3. McTypeOK'
    BY <1>6, <2>1 DEF McPumpEnds, McTypeOK
  <2> QED
    BY <1>6, <2>1, <2>2, <2>3, McSameIds DEF McPumpEnds
<1>7. ASSUME NEW c \in McCalls, McSendStdio(c) \/ McSendSse(c) PROVE McInv'
  <2>1. /\ mcPc[c] = "new" /\ mcGot[c] = 0 /\ mcBox[c] = 0 /\ mcId[c] = 0 /\ mcBox' = mcBox
        /\ UNCHANGED <<mcKind, mcExpired, mcWire, mcServer, mcPump, mcClose, mcStray>>
        /\ mcKind = "stdio" => mcLock = "free"
    BY <1>7 DEF McSendStdio, McSendSse, McUntouched
  <2>2. CASE McReturn(c, McError) /\ UNCHANGED <<mcId, mcNext, mcOpen, mcLock>>
    <3>1. McTypeOK'
      BY <1>0, <2>1, <2>2 DEF McReturn, McTypeOK
    <3>2. McOwnAnswer'
      BY <2>1, <2>2 DEF McReturn, McTypeOK, McOwnAnswer
    <3>3. McBoxesOwn' /\ McUntouched'
      BY <2>1, <2>2 DEF McReturn, McTypeOK, McBoxesOwn, McUntouched
    <3> QED
      BY <2>2, <3>1, <3>2, <3>3, McSameIds
  <2>3. CASE McRequest(c) /\ mcLock' = IF mcServer = "down" \/ mcKind = "sse" THEN mcLock ELSE c
    <3>1. /\ mcNext \in 1..Cardinality(McCalls) /\ mcNext' \in 1..McError
          /\ mcId' \in [McCalls -> 0..Cardinality(McCalls)]
          /\ mcNext' = Cardinality(McNumbered)' + 1
      BY <2>1, <2>3, McNumberNext DEF McRequest
    <3>2. mcId' = [mcId EXCEPT ![c] = mcNext] /\ mcLock \in McCalls \cup {"free"} /\ mcKind \in {"stdio", "sse"}
      BY <2>3 DEF McRequest, McTypeOK
    <3>3. CASE mcServer = "down"
      <4>1. McReturn(c, McError) /\ mcOpen' = mcOpen /\ mcLock' = mcLock
        BY <2>3, <3>3 DEF McRequest
      <4>2. McTypeOK'
        BY <1>0, <2>1, <3>1, <4>1 DEF McReturn, McTypeOK
      <4>3. McOwnAnswer'
        BY <2>1, <3>2, <4>1 DEF McReturn, McTypeOK, McOwnAnswer
      <4>4. McBoxesOwn' /\ McUntouched'
        BY <2>1, <3>2, <4>1 DEF McReturn, McTypeOK, McBoxesOwn, McUntouched
      <4> QED
        BY <3>1, <4>2, <4>3, <4>4
    <3>4. CASE mcServer # "down"
      <4>1. /\ mcPc' = [mcPc EXCEPT ![c] = "sent"] /\ mcGot' = mcGot /\ mcOpen' = mcOpen \cup {mcNext}
            /\ mcLock' = IF mcKind = "sse" THEN mcLock ELSE c
        BY <2>3, <3>4 DEF McRequest
      <4>2. McTypeOK'
        BY <1>0, <2>1, <3>1, <4>1 DEF McTypeOK
      <4>3. McOwnAnswer'
        BY <2>1, <3>2, <4>1 DEF McTypeOK, McOwnAnswer
      <4>4. McBoxesOwn' /\ McUntouched'
        BY <2>1, <3>2, <4>1 DEF McTypeOK, McBoxesOwn, McUntouched
      <4> QED
        BY <3>1, <4>2, <4>3, <4>4
    <3> QED
      BY <3>3, <3>4
  <2> QED
    BY <1>7, <2>1, <2>2, <2>3 DEF McSendStdio, McSendSse
<1>8. ASSUME NEW c \in McCalls, McLook(c) \/ McLine(c) \/ McEOF(c) PROVE McInv'
  <2>1. /\ mcKind = "stdio" /\ mcPc[c] \in {"sent", "scan"} /\ mcLock = c
        /\ UNCHANGED <<mcKind, mcId, mcExpired, mcNext, mcOpen, mcBox, mcServer, mcPump, mcClose, mcStray>>
    BY <1>8 DEF McLook, McLine, McEOF, McUntouched, McOwnAnswer
  <2>2. mcWire' \in Seq(0..Cardinality(McCalls))
    <3>1. mcWire \in Seq(0..Cardinality(McCalls)) /\ (mcWire' = mcWire \/ (mcWire # <<>> /\ mcWire' = Tail(mcWire)))
      BY <1>8 DEF McLook, McLine, McEOF, McTypeOK
    <3> QED
      BY <3>1
  <2>3. \/ mcPc' \in {[mcPc EXCEPT ![c] = "sent"], [mcPc EXCEPT ![c] = "scan"]} /\ UNCHANGED <<mcGot, mcLock>>
        \/ \E got \in {McError, mcId[c]} : McReturn(c, got) /\ mcLock' = "free"
    BY <1>8 DEF McLook, McLine, McEOF
  <2>4. CASE mcPc' \in {[mcPc EXCEPT ![c] = "sent"], [mcPc EXCEPT ![c] = "scan"]} /\ UNCHANGED <<mcGot, mcLock>>
    <3>1. McTypeOK'
      BY <2>1, <2>2, <2>4 DEF McTypeOK
    <3>2. McOwnAnswer'
      BY <2>1, <2>4 DEF McTypeOK, McOwnAnswer
    <3>3. McBoxesOwn' /\ McUntouched'
      BY <2>1, <2>4 DEF McTypeOK, McBoxesOwn, McUntouched
    <3> QED
      BY <2>1, <3>1, <3>2, <3>3, McSameIds
  <2>5. ASSUME NEW got \in {McError, mcId[c]}, McReturn(c, got), mcLock' = "free" PROVE McInv'
    <3>0. got \in 0..McError
      BY <1>0 DEF McTypeOK
    <3>1. McTypeOK'
      BY <2>1, <2>2, <2>5, <3>0 DEF McReturn, McTypeOK
    <3>2. McOwnAnswer'
      BY <2>1, <2>5 DEF McReturn, McTypeOK, McOwnAnswer
    <3>3. McBoxesOwn' /\ McUntouched'
      BY <2>1, <2>5 DEF McReturn, McTypeOK, McBoxesOwn, McUntouched
    <3> QED
      BY <2>1, <3>1, <3>2, <3>3, McSameIds
  <2> QED
    BY <2>3, <2>4, <2>5
<1>9. ASSUME NEW c \in McCalls, McInline(c) \/ McTake(c) \/ McTimeout(c) PROVE McInv'
  <2>1. /\ mcKind = "sse" /\ mcPc[c] = "sent" /\ mcOpen' \subseteq mcOpen
        /\ UNCHANGED <<mcKind, mcId, mcExpired, mcNext, mcLock, mcWire, mcBox, mcServer, mcPump, mcClose, mcStray>>
    BY <1>9 DEF McInline, McTake, McTimeout
  <2>2. PICK got \in {0, McError, mcId[c]} : McReturn(c, got)
    BY <1>9 DEF McInline, McTake, McTimeout, McBoxesOwn
  <2>3. got \in 0..McError
    BY <1>0 DEF McTypeOK
  <2>4. McTypeOK'
    BY <2>1, <2>2, <2>3 DEF McReturn, McTypeOK
  <2>5. McOwnAnswer'
    BY <2>1, <2>2 DEF McReturn, McTypeOK, McOwnAnswer
  <2>6. McBoxesOwn' /\ McUntouched'
    BY <2>1, <2>2 DEF McReturn, McTypeOK, McBoxesOwn, McUntouched
  <2> QED
    BY <2>1, <2>4, <2>5, <2>6, McSameIds
<1>10. CASE UNCHANGED mcVars
  BY <1>10, McSameIds DEF mcVars, McTypeOK, McOwnAnswer, McBoxesOwn, McUntouched
<1> QED
  BY <1>1, <1>2, <1>3, <1>4, <1>5, <1>6, <1>7, <1>8, <1>9, <1>10 DEF McNextStep, McCallStep

LEMMA McInitInv == McInit => McInv
<1> SUFFICES ASSUME McInit PROVE McInv
  OBVIOUS
<1>1. Cardinality(McCalls) \in Nat /\ McError = Cardinality(McCalls) + 1
  BY McAssumption, FS_CardinalityType DEF McError
<1>2. McTypeOK
  BY <1>1, McAssumption DEF McInit, McTypeOK
<1>3. McNumbered = {}
  BY DEF McInit, McNumbered
<1>4. McOwnAnswer
  BY McAssumption DEF McInit, McOwnAnswer
<1> QED
  BY <1>2, <1>3, <1>4, FS_EmptySet DEF McInit, McInv, McBoxesOwn, McUntouched

\* However many calls there are, late, doubled and strange answers, deadlines and
\* the end of the server: a call returns the answer to its own request or an
\* error, and the stdio client's lock is held exactly by a call that waits.
THEOREM McOwnAnswerAlways == McSpec => [](McTypeOK /\ McOwnAnswer)
<1>1. McInv => McTypeOK /\ McOwnAnswer
  BY DEF McInv
<1> QED
  BY <1>1, McInitInv, McNextInv, PTL DEF McSpec

----------------------------------------------------------------------------
(* Background processes.  A poll reads the flags and the log one after the  *)
(* other: what it has read of the flags stays true, because a shell that   *)
(* has ended stays ended and a log nobody holds open stays as long.        *)

PrSpec == PrInit /\ [][PrNext]_prVars

\* A flag, and what a caller has read of one, is how the shell ended.
PrFlagsTrue ==
  /\ \A p \in PrProcs : prDone[p] # "no" => prShell[p] = prDone[p]
  /\ \A c \in PrClients : prCall[c].pc = "tail" /\ prCall[c].done # "no" => prShell[prCall[c].p] = prCall[c].done

\* A session that was looked up had been started; one that is being killed has ended.
PrLookedUp ==
  /\ \A p \in prKnown : prShell[p] # "none"
  /\ \A c \in PrClients : prCall[c].pc \in {"flags", "tail", "pipe", "wait"}
                           => prCall[c].p \in PrProcs /\ prShell[prCall[c].p] # "none"
  /\ \A c \in PrClients : prCall[c].pc = "wait" => prShell[prCall[c].p] # "running"
  /\ \A c \in PrClients : prCall[c].pc = "get" => prCall[c].rest # {}

PrAsTold == prTold.as \in {"ok", "failed", "finished", "killed", "sent", "broken"} => prTold.p \in PrProcs

PrInv == PrTypeOK /\ PrToldTruly /\ PrFlagsTrue /\ PrLookedUp /\ PrAsTold

PrCalls == [op : {"idle", "poll", "log", "write", "kill"}, p : PrProcs \union {0},
            pc : {"-", "get", "flags", "tail", "pipe", "wait"}, rest : SUBSET PrProcs, done : {"no", "ok", "failed"}]

PrCuts == [p : PrProcs \union {0}, cursor : 0..PrMaxLog]

LEMMA PrLogBounds == 0 \in 0..PrMaxLog /\ 0..PrMaxLog \subseteq Nat
BY PrAssumption

\* A set of ids that is not empty has a smallest.
LEMMA PrLeast ==
  ASSUME NEW S \in SUBSET Nat, S # {}
  PROVE  \E q \in S : \A r \in S : q <= r
<1>1. PICK q \in S : \A r \in S : ~(<<r, q>> \in OpToRel(<, Nat))
  BY NatLessThanWellFounded, WFMin
<1>2. \A r \in S : ~(r < q)
  BY <1>1 DEF OpToRel
<1> QED
  BY <1>2

\* A step of the machine or of Start: the calls and what they told stay as they are.
LEMMA PrMachineInv ==
  ASSUME PrInv, UNCHANGED <<prCall, prTold, prPages>>, prKnown \subseteq prKnown', prHeirs \subseteq prHeirs',
         PrTypeOK',
         \A p \in PrProcs :
           /\ prShell[p] \in {"ok", "failed"} => prShell'[p] = prShell[p] /\ (p \in prKnown' <=> p \in prKnown)
           /\ prShell'[p] = "running" => p \in prKnown'
           /\ prShell'[p] = "none" => prShell[p] = "none" /\ p \notin prKnown'
           /\ prDone'[p] # "no" => prShell'[p] = prDone'[p]
           /\ prLog'[p] >= prLog[p]
           /\ prShell[p] \in {"ok", "failed"} /\ p \notin prHeirs => prLog'[p] = prLog[p]
  PROVE  PrInv'
<1> USE PrAssumption DEF PrInv
<1>1. PrAsTold' /\ \A p \in PrProcs : prShell'[p] = "running" => p \in prKnown'
  BY DEF PrToldTruly, PrAsTold
<1>2. PrFlagsTrue'
  <2> SUFFICES ASSUME NEW c \in PrClients, prCall[c].pc = "tail", prCall[c].done # "no"
               PROVE  prShell'[prCall[c].p] = prCall[c].done
    BY DEF PrFlagsTrue
  <2>1. prCall[c] \in PrCalls /\ prCall[c].p \in PrProcs /\ prShell[prCall[c].p] = prCall[c].done
    BY DEF PrFlagsTrue, PrLookedUp, PrTypeOK, PrCalls
  <2>2. prCall[c].done \in {"ok", "failed"}
    BY <2>1 DEF PrCalls
  <2> QED
    BY <2>1, <2>2
<1>3. PrLookedUp'
  <2>1. prKnown' \subseteq PrProcs
    BY DEF PrTypeOK
  <2>2. \A p \in prKnown' : prShell'[p] # "none"
    BY <2>1
  <2>3. ASSUME NEW c \in PrClients, prCall[c].pc \in {"flags", "tail", "pipe", "wait"}
        PROVE  prCall[c].p \in PrProcs /\ prShell'[prCall[c].p] # "none"
    BY <2>3 DEF PrLookedUp
  <2>4. ASSUME NEW c \in PrClients, prCall[c].pc = "wait"
        PROVE  prShell'[prCall[c].p] # "running"
    <3>1. prCall[c].p \in PrProcs /\ prShell[prCall[c].p] # "none" /\ prShell[prCall[c].p] # "running"
      BY <2>4 DEF PrLookedUp
    <3>2. prShell[prCall[c].p] \in {"none", "running", "ok", "failed"}
      BY <3>1 DEF PrTypeOK
    <3> QED
      BY <3>1, <3>2
  <2> QED
    BY <2>2, <2>3, <2>4 DEF PrLookedUp
<1>4. ASSUME NEW c \in PrClients, prPages[c].p # 0
      PROVE  prPages[c].cursor <= prLog'[prPages[c].p]
  <2>0. prPages[c] \in PrCuts
    BY DEF PrTypeOK, PrCuts
  <2>1. prPages[c].cursor \in Nat /\ prPages[c].p \in PrProcs
    BY <1>4, <2>0, PrLogBounds DEF PrCuts
  <2>2. prLog[prPages[c].p] \in Nat /\ prLog'[prPages[c].p] \in Nat
    <3>1. prLog[prPages[c].p] \in 0..PrMaxLog /\ prLog'[prPages[c].p] \in 0..PrMaxLog
      BY <2>1 DEF PrTypeOK
    <3> QED
      BY <3>1, PrLogBounds
  <2>3. prPages[c].cursor <= prLog[prPages[c].p] /\ prLog[prPages[c].p] <= prLog'[prPages[c].p]
    BY <1>4, <2>1 DEF PrToldTruly
  <2> QED
    BY <2>1, <2>2, <2>3
<1>5. ASSUME prTold.as \in {"ok", "failed"}
      PROVE  prShell'[prTold.p] = prTold.as /\ (prTold.p \in prKnown' \ prHeirs' => prTold.total = prLog'[prTold.p])
  BY <1>5 DEF PrToldTruly, PrAsTold
<1>6. prTold.as \in {"finished", "killed"} => prShell'[prTold.p] \in {"ok", "failed"}
  BY DEF PrToldTruly, PrAsTold
<1>7. prTold.as \in {"sent", "broken"} => prShell'[prTold.p] # "none"
  BY DEF PrToldTruly, PrAsTold
<1>8. PrToldTruly'
  BY <1>1, <1>4, <1>5, <1>6, <1>7 DEF PrToldTruly
<1> QED
  BY <1>1, <1>2, <1>3, <1>8

\* A step of a call that changes neither the sessions nor the pages.
LEMMA PrCallInv ==
  ASSUME PrInv, UNCHANGED <<prKnown, prShell, prHeirs, prDone, prLog, prPages>>,
         NEW c \in PrClients, NEW call \in PrCalls, prCall' = [prCall EXCEPT ![c] = call],
         call.pc \in {"flags", "tail", "pipe"} => call.p \in PrProcs /\ prShell[call.p] # "none",
         call.pc # "wait", call.pc = "get" => call.rest # {},
         call.pc = "tail" => call.done = prDone[call.p],
         prTold' \in PrSaid,
         prTold'.as \in {"ok", "failed"} =>
           /\ prTold'.p \in PrProcs /\ prShell[prTold'.p] = prTold'.as
           /\ prTold'.p \in prKnown \ prHeirs => prTold'.total = prLog[prTold'.p],
         prTold'.as \in {"finished", "killed"} => prTold'.p \in PrProcs /\ prShell[prTold'.p] \in {"ok", "failed"},
         prTold'.as \in {"sent", "broken"} => prTold'.p \in PrProcs /\ prShell[prTold'.p] # "none"
  PROVE  PrInv'
<1> USE DEF PrInv
<1>1. PrTypeOK'
  BY DEF PrTypeOK, PrCalls
<1>2. PrToldTruly' /\ PrAsTold'
  BY DEF PrToldTruly, PrAsTold
<1>3. \A d \in PrClients : prCall'[d] = IF d = c THEN call ELSE prCall[d]
  BY DEF PrTypeOK
<1>4. PrFlagsTrue'
  BY <1>3 DEF PrFlagsTrue
<1>5. PrLookedUp'
  BY <1>3 DEF PrLookedUp
<1> QED
  BY <1>1, <1>2, <1>4, <1>5

LEMMA PrNextInv == PrInv /\ [PrNext]_prVars => PrInv'
<1> SUFFICES ASSUME PrInv, [PrNext]_prVars PROVE PrInv'
  OBVIOUS
<1> USE PrAssumption DEF PrInv
<1>0. PrIdle \in PrCalls /\ prTold \in PrSaid /\ \A c \in PrClients : prCall[c] \in PrCalls
  BY DEF PrIdle, PrCalls, PrTypeOK
<1>1. ASSUME NEW p \in PrProcs, PrOutput(p) PROVE PrInv'
  <2>1. prLog' = [prLog EXCEPT ![p] = prLog[p] + 1] /\ prLog'[p] = prLog[p] + 1 /\ prLog' \in [PrProcs -> 0..PrMaxLog]
    BY <1>1 DEF PrOutput, PrTypeOK
  <2>2. PrTypeOK'
    BY <1>1, <2>1 DEF PrOutput, PrTypeOK
  <2>3. \A q \in PrProcs : /\ prLog'[q] >= prLog[q] /\ prLog[q] \in Nat
                           /\ prShell[q] \in {"ok", "failed"} /\ q \notin prHeirs => prLog'[q] = prLog[q]
    BY <1>1, <2>1 DEF PrOutput, PrTypeOK
  <2> QED
    BY <1>1, <2>2, <2>3, PrMachineInv DEF PrOutput, PrFlagsTrue, PrToldTruly, PrLookedUp
<1>2. ASSUME NEW p \in PrProcs, PrExit(p) \/ PrDeadline(p) \/ PrWaited(p) PROVE PrInv'
  <2>1. PrTypeOK'
    <3>1. CASE PrExit(p)
      BY <3>1 DEF PrExit, PrTypeOK
    <3>2. CASE PrDeadline(p)
      BY <3>2 DEF PrDeadline, PrTypeOK
    <3>3. CASE PrWaited(p)
      <4>1. prDone' = [prDone EXCEPT ![p] = prShell[p]] /\ prShell[p] \in {"no", "ok", "failed"}
        BY <3>3 DEF PrWaited
      <4>2. prDone' \in [PrProcs -> {"no", "ok", "failed"}]
        BY <4>1 DEF PrTypeOK
      <4> QED
        BY <3>3, <4>2 DEF PrWaited, PrTypeOK
    <3> QED
      BY <1>2, <3>1, <3>2, <3>3
  <2>2. /\ UNCHANGED <<prKnown, prLog, prCall, prTold, prPages>> /\ prHeirs \subseteq prHeirs'
        /\ \A q \in PrProcs : /\ prShell[q] \in {"ok", "failed"} => prShell'[q] = prShell[q]
                              /\ prShell'[q] = "none" => prShell[q] = "none"
                              /\ prShell'[q] = "running" => prShell[q] = "running"
                              /\ prDone'[q] # "no" => prShell'[q] = prDone'[q]
                              /\ prLog[q] \in Nat
    BY <1>2 DEF PrExit, PrDeadline, PrWaited, PrTypeOK, PrFlagsTrue
  <2> QED
    BY <2>1, <2>2, PrMachineInv DEF PrToldTruly, PrLookedUp
<1>3. ASSUME NEW c \in PrClients, PrStart(c) PROVE PrInv'
  <2> PICK p \in PrProcs : prShell[p] = "none" /\ prShell' = [prShell EXCEPT ![p] = "running"] /\ prKnown' = prKnown \cup {p}
    BY <1>3 DEF PrStart
  <2>1. UNCHANGED <<prHeirs, prDone, prLog, prCall, prTold, prPages>>
    BY <1>3 DEF PrStart
  <2>2. PrTypeOK'
    BY <2>1 DEF PrTypeOK
  <2>3. \A q \in PrProcs : /\ prShell[q] \in {"ok", "failed"} => q # p /\ prShell'[q] = prShell[q]
                           /\ prShell'[q] = "running" => q \in prKnown'
                           /\ prShell'[q] = "none" => prShell[q] = "none" /\ q \notin prKnown'
                           /\ prDone[q] # "no" => prShell'[q] = prDone[q]
                           /\ prLog[q] \in Nat
    BY DEF PrTypeOK, PrFlagsTrue, PrToldTruly, PrLookedUp
  <2> QED
    BY <2>1, <2>2, <2>3, PrMachineInv
<1>4. ASSUME NEW c \in PrClients, NEW op \in {"poll", "log", "write", "kill"}, NEW ids \in SUBSET PrProcs, PrBegin(c, op, ids)
      PROVE  PrInv'
  <2> DEFINE call == [PrIdle EXCEPT !.op = op, !.pc = "get", !.rest = ids]
  <2>1. call \in PrCalls /\ call.pc = "get" /\ call.rest # {}
    BY <1>4 DEF PrBegin, PrIdle, PrCalls
  <2>2. prCall' = [prCall EXCEPT ![c] = call] /\ UNCHANGED <<prKnown, prShell, prHeirs, prDone, prLog, prTold, prPages>>
    BY <1>4 DEF PrBegin
  <2> HIDE DEF call
  <2> QED
    BY <1>0, <2>1, <2>2, PrCallInv DEF PrToldTruly, PrAsTold
<1>5. ASSUME NEW c \in PrClients, PrGet(c) PROVE PrInv'
  <2> DEFINE call == prCall[c]
             p == CHOOSE q \in call.rest : \A r \in call.rest : q <= r
             left == call.rest \ {p}
             then == IF p \in prKnown THEN [call EXCEPT !.p = p, !.rest = left, !.pc = "flags"]
                     ELSE IF left # {} THEN [call EXCEPT !.rest = left] ELSE PrIdle
  <2>1. call.pc = "get" /\ call \in PrCalls /\ call.rest \in SUBSET PrProcs /\ call.rest # {}
    BY <1>0, <1>5 DEF PrGet, PrLookedUp, PrCalls
  <2>2. p \in PrProcs
    <3>1. \E q \in call.rest : \A r \in call.rest : q <= r
      BY <2>1, PrLeast
    <3> QED
      BY <2>1, <3>1
  <2>3. prCall' = [prCall EXCEPT ![c] = then] /\ UNCHANGED <<prKnown, prShell, prHeirs, prDone, prLog, prPages>>
        /\ IF p \in prKnown THEN UNCHANGED prTold ELSE PrSay(p, "unknown", 0)
    BY <1>5 DEF PrGet
  <2> HIDE DEF p
  <2>4. /\ then \in PrCalls /\ then.pc \in {"get", "flags", "-"} /\ (then.pc = "flags" => then.p \in PrProcs)
        /\ (then.pc = "get" => then.rest # {})
    BY <1>0, <2>1, <2>2 DEF PrCalls, PrIdle
  <2>6. then.pc = "flags" => prShell[then.p] # "none"
    BY <2>1, <2>4 DEF PrCalls, PrIdle, PrLookedUp
  <2>5. /\ prTold' \in PrSaid
        /\ prTold'.as # "unknown" => prTold' = prTold
    BY <1>0, <2>2, <2>3 DEF PrSay, PrSaid
  <2> HIDE DEF then
  <2> QED
    BY <2>3, <2>4, <2>5, <2>6, PrCallInv DEF PrToldTruly, PrAsTold
<1>6. ASSUME NEW c \in PrClients, PrFlags(c) PROVE PrInv'
  <2> DEFINE call == [prCall[c] EXCEPT !.done = prDone[prCall[c].p], !.pc = "tail"]
  <2>1. prCall[c] \in PrCalls /\ prCall[c].p \in PrProcs /\ prShell[prCall[c].p] # "none"
    BY <1>0, <1>6 DEF PrFlags, PrLookedUp
  <2>2. call \in PrCalls /\ call.pc = "tail" /\ call.p \in PrProcs /\ prShell[call.p] # "none" /\ call.done = prDone[call.p]
    BY <2>1 DEF PrCalls, PrTypeOK
  <2>3. prCall' = [prCall EXCEPT ![c] = call] /\ UNCHANGED <<prKnown, prShell, prHeirs, prDone, prLog, prTold, prPages>>
    BY <1>6 DEF PrFlags
  <2> HIDE DEF call
  <2> QED
    BY <1>0, <2>2, <2>3, PrCallInv DEF PrToldTruly, PrAsTold
<1>7. ASSUME NEW c \in PrClients, PrTail(c) PROVE PrInv'
  <2> DEFINE call == prCall[c]
             said == [p |-> call.p, as |-> IF call.done = "no" THEN "running" ELSE call.done,
                      total |-> IF call.p \in prKnown THEN prLog[call.p] ELSE 0]
  <2>1. call.pc = "tail" /\ call \in PrCalls /\ call.p \in PrProcs
    BY <1>0, <1>7 DEF PrTail, PrLookedUp
  <2>2. said \in PrSaid
    <3>0. prLog \in [PrProcs -> 0..PrMaxLog]
      BY DEF PrTypeOK
    <3>1. prLog[call.p] \in 0..PrMaxLog /\ 0 \in 0..PrMaxLog
      BY <2>1, <3>0, PrLogBounds
    <3>2. call.done \in {"no", "ok", "failed"}
      BY <2>1 DEF PrCalls
    <3> QED
      BY <2>1, <3>1, <3>2 DEF PrSaid
  <2>3. /\ prTold' = said /\ prCall' = [prCall EXCEPT ![c] = PrAfter(call)]
        /\ UNCHANGED <<prKnown, prShell, prHeirs, prDone, prLog, prPages>>
    BY <1>7 DEF PrTail, PrSay
  <2>4. said.as \in {"ok", "failed"} => /\ said.p \in PrProcs /\ prShell[said.p] = said.as
                                        /\ said.p \in prKnown \ prHeirs => said.total = prLog[said.p]
    BY <2>1 DEF PrFlagsTrue
  <2>6. said.as \in {"ok", "failed", "running"}
    <3>1. call.done \in {"no", "ok", "failed"}
      BY <2>1 DEF PrCalls
    <3> QED
      BY <3>1
  <2>5. PrAfter(call) \in PrCalls /\ PrAfter(call).pc \in {"-", "get"} /\ (PrAfter(call).pc = "get" => PrAfter(call).rest # {})
    BY <1>0, <2>1 DEF PrAfter, PrCalls, PrIdle
  <2> HIDE DEF said, call
  <2> QED
    BY <2>2, <2>3, <2>4, <2>5, <2>6, PrCallInv
<1>8. ASSUME NEW c \in PrClients, PrWrite(c) PROVE PrInv'
  <2> DEFINE on == [prCall[c] EXCEPT !.pc = "pipe"]
             Told(as) == /\ PrSay(prCall[c].p, as, 0) /\ prCall' = [prCall EXCEPT ![c] = PrIdle]
                         /\ as = "finished" => prDone[prCall[c].p] # "no"
  <2>1. prCall[c] \in PrCalls /\ prCall[c].p \in PrProcs /\ prShell[prCall[c].p] # "none"
    BY <1>0, <1>8 DEF PrWrite, PrLookedUp
  <2>2. UNCHANGED <<prKnown, prShell, prHeirs, prDone, prLog, prPages>>
    BY <1>8 DEF PrWrite
  <2>3. CASE prCall' = [prCall EXCEPT ![c] = on] /\ UNCHANGED prTold
    <3>1. on \in PrCalls /\ on.pc = "pipe" /\ on.p \in PrProcs /\ prShell[on.p] # "none"
      BY <2>1 DEF PrCalls
    <3> HIDE DEF on
    <3> QED
      BY <1>0, <2>2, <2>3, <3>1, PrCallInv DEF PrToldTruly, PrAsTold
  <2>4. ASSUME NEW as \in {"sent", "broken", "finished"}, Told(as)
        PROVE  PrInv'
    <3>1. prTold' \in PrSaid
      BY <2>1, <2>4, PrLogBounds DEF PrSay, PrSaid
    <3>4. as = "finished" => prShell[prCall[c].p] \in {"ok", "failed"}
      <4>1. prDone[prCall[c].p] \in {"no", "ok", "failed"}
        BY <2>1 DEF PrTypeOK
      <4> QED
        BY <2>1, <2>4, <4>1 DEF PrFlagsTrue
    <3>3. prTold'.as = as /\ prTold'.p = prCall[c].p
      BY <2>4 DEF PrSay
    <3>2. PrIdle.pc = "-"
      BY DEF PrIdle
    <3> QED
      BY <1>0, <2>1, <2>2, <2>4, <3>1, <3>2, <3>3, <3>4, PrCallInv
  <2>5. \/ prCall' = [prCall EXCEPT ![c] = on] /\ UNCHANGED prTold
        \/ \E as \in {"sent", "broken", "finished"} : Told(as)
    <3>1. CASE prCall[c].pc = "flags" /\ prDone[prCall[c].p] = "no"
      BY <1>8, <3>1 DEF PrWrite
    <3>2. CASE ~(prCall[c].pc = "flags" /\ prDone[prCall[c].p] = "no")
      <4>1. PICK as \in IF prCall[c].pc = "flags" THEN {"finished"}
                        ELSE {"broken"} \union (IF PrReads(prCall[c].p) THEN {"sent"} ELSE {}) :
               PrSay(prCall[c].p, as, 0)
        BY <1>8, <3>2 DEF PrWrite
      <4>2. prCall' = [prCall EXCEPT ![c] = PrIdle]
        BY <1>8, <3>2 DEF PrWrite
      <4>3. as \in {"sent", "broken", "finished"} /\ (as = "finished" => prDone[prCall[c].p] # "no")
        BY <3>2, <4>1
      <4> QED
        BY <4>1, <4>2, <4>3
    <3> QED
      BY <3>1, <3>2
  <2> HIDE DEF on, Told
  <2> QED
    BY <2>3, <2>4, <2>5
<1>9. ASSUME NEW c \in PrClients, PrKilled(c) PROVE PrInv'
  <2>1. /\ PrSay(prCall[c].p, "killed", 0) /\ prCall' = [prCall EXCEPT ![c] = PrIdle] /\ prCall[c].p \in PrProcs
        /\ UNCHANGED <<prKnown, prShell, prHeirs, prDone, prLog, prPages>>
        /\ prShell[prCall[c].p] # "none" /\ prShell[prCall[c].p] # "running"
    BY <1>9 DEF PrKilled, PrLookedUp
  <2>2. /\ prTold' \in PrSaid /\ prTold'.as = "killed" /\ prTold'.p = prCall[c].p /\ PrIdle.pc = "-"
        /\ prShell[prCall[c].p] \in {"ok", "failed"}
    BY <2>1, PrLogBounds DEF PrSay, PrSaid, PrIdle, PrTypeOK
  <2> QED
    BY <1>0, <2>1, <2>2, PrCallInv
<1>10. ASSUME NEW c \in PrClients, PrKill(c) PROVE PrInv'
  <2> DEFINE p == prCall[c].p
             call == [prCall[c] EXCEPT !.pc = "wait"]
  <2>1. prCall[c] \in PrCalls /\ p \in PrProcs /\ call \in PrCalls /\ call.pc = "wait" /\ call.p = p /\ prShell[p] # "none"
    BY <1>0, <1>10 DEF PrKill, PrLookedUp, PrCalls
  <2>2. /\ prShell' = [prShell EXCEPT ![p] = IF prShell[p] = "running" THEN "failed" ELSE prShell[p]]
        /\ prCall' = [prCall EXCEPT ![c] = call]
        /\ UNCHANGED <<prKnown, prHeirs, prDone, prLog, prTold, prPages>>
    BY <1>10 DEF PrKill
  <2> HIDE DEF call
  <2>3. PrTypeOK'
    BY <2>1, <2>2 DEF PrTypeOK, PrCalls
  <2>4. /\ \A q \in PrProcs : /\ prShell[q] \in {"ok", "failed"} => prShell'[q] = prShell[q]
                              /\ prShell'[q] = "running" => prShell[q] = "running"
                              /\ prShell'[q] = "none" => prShell[q] = "none"
        /\ prShell'[p] # "running"
        /\ \A d \in PrClients : prCall'[d] = IF d = c THEN call ELSE prCall[d]
    BY <2>1, <2>2 DEF PrTypeOK
  <2>5. PrToldTruly' /\ PrAsTold'
    BY <2>2, <2>4 DEF PrToldTruly, PrAsTold
  <2>6. PrFlagsTrue'
    <3>1. \A q \in PrProcs : prDone[q] # "no" => prDone[q] \in {"ok", "failed"}
      BY DEF PrTypeOK
    <3>2. \A d \in PrClients : prCall[d].pc = "tail" => prCall[d].p \in PrProcs /\ prCall[d].done \in {"no", "ok", "failed"}
      BY <1>0 DEF PrLookedUp, PrCalls
    <3> QED
      BY <2>1, <2>2, <2>4, <3>1, <3>2 DEF PrFlagsTrue
  <2>7. PrLookedUp'
    <3>1. prKnown \subseteq PrProcs
      BY DEF PrTypeOK
    <3> QED
      BY <2>1, <2>2, <2>4, <3>1 DEF PrLookedUp
  <2> QED
    BY <2>3, <2>5, <2>6, <2>7
<1>11. ASSUME NEW c \in PrClients, PrLogPage(c) PROVE PrInv'
  <2> DEFINE call == prCall[c]
             from == IF prPages[c].p = call.p THEN prPages[c].cursor ELSE 0
             n == PrCut(from, prLog[call.p])
             page == IF call.p \in prKnown THEN [p |-> call.p, cursor |-> from + n] ELSE prPages[c]
  <2>1. call \in PrCalls /\ call.p \in PrProcs
    BY <1>0, <1>11 DEF PrLogPage, PrLookedUp
  <2>2. /\ prPages' = [prPages EXCEPT ![c] = page] /\ prCall' = [prCall EXCEPT ![c] = PrIdle]
        /\ UNCHANGED <<prKnown, prShell, prHeirs, prDone, prLog, prTold>>
    BY <1>11 DEF PrLogPage
  <2>3. /\ from \in Nat /\ prLog[call.p] \in Nat /\ prLog[call.p] <= PrMaxLog /\ from <= prLog[call.p]
    <3>1. prPages[c] \in PrCuts /\ prLog \in [PrProcs -> 0..PrMaxLog]
      BY DEF PrTypeOK, PrCuts
    <3>2. /\ prPages[c].p \in PrProcs \union {0} /\ prPages[c].cursor \in Nat
          /\ prLog[call.p] \in 0..PrMaxLog
      BY <2>1, <3>1, PrLogBounds DEF PrCuts
    <3>3. prPages[c].p = call.p /\ prPages[c].p # 0 => prPages[c].cursor <= prLog[call.p]
      BY <2>1 DEF PrToldTruly
    <3>4. call.p # 0
      BY <2>1
    <3> HIDE DEF call
    <3> QED
      BY <3>2, <3>3, <3>4
  <2> HIDE DEF from
  <2>4. n \in Nat /\ from + n <= prLog[call.p]
    BY <2>3 DEF PrCut
  <2> HIDE DEF n
  <2>5. /\ page \in [p : PrProcs \union {0}, cursor : 0..PrMaxLog]
        /\ page.p # 0 => page.cursor <= prLog[page.p]
    <3>1. CASE call.p \in prKnown
      <4>1. from + n \in 0..PrMaxLog
        BY <2>3, <2>4
      <4> QED
        BY <2>1, <2>4, <3>1, <4>1
    <3>2. CASE call.p \notin prKnown
      BY <3>2 DEF PrTypeOK, PrToldTruly
    <3> QED
      BY <3>1, <3>2
  <2> HIDE DEF page, call
  <2>6. \A d \in PrClients : prPages'[d] = (IF d = c THEN page ELSE prPages[d]) /\ prCall'[d] = (IF d = c THEN PrIdle ELSE prCall[d])
    BY <2>2 DEF PrTypeOK
  <2>7. PrTypeOK'
    BY <1>0, <2>2, <2>5 DEF PrTypeOK, PrCalls
  <2>8. PrIdle.pc = "-"
    BY DEF PrIdle
  <2>9. PrFlagsTrue' /\ PrLookedUp'
    BY <2>2, <2>6, <2>8 DEF PrFlagsTrue, PrLookedUp
  <2> QED
    BY <2>2, <2>5, <2>6, <2>7, <2>9 DEF PrToldTruly, PrAsTold
<1>12. ASSUME NEW c \in PrClients, PrPrune(c) PROVE PrInv'
  <2>1. prKnown' = prKnown \ PrPrunable /\ UNCHANGED <<prShell, prHeirs, prDone, prLog, prCall, prTold, prPages>>
    BY <1>12 DEF PrPrune
  <2>2. PrTypeOK'
    BY <2>1 DEF PrTypeOK
  <2>3. PrToldTruly'
    <3>1. \A p \in PrProcs : prShell[p] = "running" => p \notin PrPrunable
      BY DEF PrPrunable, PrFlagsTrue, PrTypeOK
    <3> QED
      BY <2>1, <3>1 DEF PrToldTruly
  <2> QED
    BY <2>1, <2>2, <2>3 DEF PrFlagsTrue, PrLookedUp, PrAsTold
<1>13. CASE UNCHANGED prVars
  BY <1>13 DEF prVars, PrTypeOK, PrToldTruly, PrFlagsTrue, PrLookedUp, PrAsTold
<1>14. ASSUME NEW c \in PrClients, PrExecute(c) PROVE PrInv'
  <2>1. prKnown \in SUBSET PrProcs /\ \A p \in PrProcs : {p} \in SUBSET PrProcs
    BY DEF PrTypeOK
  <2> QED
    BY <1>4, <1>14, <2>1 DEF PrExecute, PrList
<1> QED
  BY <1>1, <1>2, <1>3, <1>5, <1>6, <1>7, <1>8, <1>9, <1>10, <1>11, <1>12, <1>13, <1>14 DEF PrNext, PrCallStep, PrMachine

LEMMA PrInitInv == PrInit => PrInv
<1> USE PrAssumption
<1>1. PrInit => PrTypeOK
  BY DEF PrInit, PrTypeOK, PrIdle, PrSaid
<1>2. PrInit => PrToldTruly /\ PrFlagsTrue /\ PrLookedUp /\ PrAsTold
  BY DEF PrInit, PrIdle, PrToldTruly, PrFlagsTrue, PrLookedUp, PrAsTold
<1> QED
  BY <1>1, <1>2 DEF PrInv

\* For every number of sessions and callers and every size of log and page: what a
\* poll told of a session that ended is true and complete, one that was called
\* finished or killed has ended, one that took or refused a write had been started,
\* no cursor is past the end of its log, and a session that runs is not pruned.
THEOREM PrToldTrulyAlways == PrSpec => [](PrTypeOK /\ PrToldTruly)
<1>1. PrInv => PrTypeOK /\ PrToldTruly
  BY DEF PrInv
<1> QED
  BY <1>1, PrInitInv, PrNextInv, PTL DEF PrSpec

----------------------------------------------------------------------------
(* Questions to the user.  A question leaves the map with the first who     *)
(* claims it, so that nobody is told before, and only he is told after.     *)

AkSpec == AkInit /\ [][AkNext]_akVars

AkOneTold ==
  \A q \in AkQuestions :
    /\ \A u, v \in AkTold(q) : u = v
    /\ q \in akPending => akAsk[q] \in {"blocked", "leaving"}
    /\ q \in akPending \/ akAsk[q] = "new" => AkTold(q) = {}
    /\ akGot[q] \in {"text", "cancelled"} => \E u \in AkTold(q) : akUser[u].as = akGot[q]
    /\ \A out \in akChan[q] : \E u \in AkTold(q) : akUser[u].as = out
    /\ akAsk[q] = "blocked" /\ q \notin akPending => AkTold(q) # {}

AkClaims == \A u \in AkUsers : akUser[u].pc # "idle" => akUser[u].q \in AkQuestions /\ akUser[u].as \in {"text", "cancelled"}

AkInv == AkTypeOK /\ AkOneTold /\ AkClaims

LEMMA AkNextInv == AkInv /\ [AkNext]_akVars => AkInv'
<1> SUFFICES ASSUME AkInv, [AkNext]_akVars PROVE AkInv'
  OBVIOUS
<1> USE AkAssumption DEF AkInv
<1>1. ASSUME akUser' = akUser PROVE AkClaims' /\ \A q \in AkQuestions : AkTold(q)' = AkTold(q)
  BY <1>1 DEF AkClaims, AkTold
<1>2. ASSUME NEW q \in AkQuestions, AkRefuse(q) \/ AkAsk(q) \/ AkSelect(q) \/ AkRemove(q) PROVE AkInv'
  <2>1. akUser' = akUser
    BY <1>2 DEF AkRefuse, AkAsk, AkSelect, AkRemove
  <2>2. AkTypeOK'
    <3>1. CASE AkRefuse(q) \/ AkAsk(q) \/ AkRemove(q)
      BY ZenonT(60), <3>1 DEF AkRefuse, AkAsk, AkRemove, AkTypeOK
    <3>2. CASE AkSelect(q)
      BY <3>2 DEF AkSelect, AkTypeOK
    <3> QED
      BY <1>2, <3>1, <3>2
  <2>3. AkOneTold'
    <3>1. CASE AkRefuse(q) \/ AkAsk(q)
      BY <1>1, <2>1, <3>1 DEF AkRefuse, AkAsk, AkOneTold, AkTypeOK
    <3>2. CASE AkRemove(q)
      BY <1>1, <2>1, <3>2 DEF AkRemove, AkOneTold, AkTypeOK
    <3>3. CASE AkSelect(q)
      BY <1>1, <2>1, <3>3 DEF AkSelect, AkOneTold, AkTypeOK
    <3> QED
      BY <1>2, <3>1, <3>2, <3>3
  <2> QED
    BY <1>1, <2>1, <2>2, <2>3
<1>3. ASSUME NEW u \in AkUsers, NEW q \in AkQuestions, NEW as \in {"text", "cancelled"}, AkClaim(u, q, as) PROVE AkInv'
  <2> DEFINE r == [pc |-> IF q \in akPending THEN "send" ELSE "late", q |-> q, as |-> as]
  <2>1. /\ akUser[u].pc = "idle" /\ akUser' = [akUser EXCEPT ![u] = r] /\ akPending' = akPending \ {q}
        /\ UNCHANGED <<akAsk, akChan, akGot>>
    BY <1>3 DEF AkClaim, AkTaken
  <2>2. r \in [pc : {"idle", "send", "late", "sent"}, q : AkQuestions \union {0}, as : {"none", "text", "cancelled"}]
        /\ r.q = q /\ r.as = as /\ r.pc = (IF q \in akPending THEN "send" ELSE "late")
    OBVIOUS
  <2> HIDE DEF r
  <2>3. AkTypeOK'
    BY <2>1, <2>2 DEF AkTypeOK
  <2>4. \A v \in AkUsers : akUser'[v] = IF v = u THEN r ELSE akUser[v]
    BY <2>1 DEF AkTypeOK
  <2>5. AkClaims'
    BY <2>2, <2>4 DEF AkClaims
  <2>6. \A x \in AkQuestions : AkTold(x)' = IF x = q /\ q \in akPending THEN AkTold(x) \cup {u} ELSE AkTold(x)
    BY <2>1, <2>2, <2>4 DEF AkTold
  <2>7. \A x \in AkQuestions : u \notin AkTold(x) /\ AkTold(x) \subseteq AkUsers
    BY <2>1 DEF AkTold
  <2>8. AkOneTold'
    <3> SUFFICES ASSUME NEW x \in AkQuestions
                 PROVE  /\ \A v, w \in AkTold(x)' : v = w
                        /\ x \in akPending' => akAsk[x] \in {"blocked", "leaving"}
                        /\ x \in akPending' \/ akAsk[x] = "new" => AkTold(x)' = {}
                        /\ akGot[x] \in {"text", "cancelled"} => \E v \in AkTold(x)' : akUser'[v].as = akGot[x]
                        /\ \A out \in akChan[x] : \E v \in AkTold(x)' : akUser'[v].as = out
                        /\ akAsk[x] = "blocked" /\ x \notin akPending' => AkTold(x)' # {}
      BY <2>1 DEF AkOneTold
    <3>1. CASE x = q /\ q \in akPending
      BY ZenonT(60), <2>1, <2>4, <2>6, <2>7, <3>1 DEF AkOneTold
    <3>2. CASE ~(x = q /\ q \in akPending)
      <4>1. AkTold(x)' = AkTold(x)
        BY <2>6, <3>2
      <4>2. \A v \in AkTold(x) : akUser'[v] = akUser[v]
        BY <2>4, <2>7
      <4>3. x \in akPending' <=> x \in akPending
        BY <2>1, <3>2
      <4>4. /\ \A v, w \in AkTold(x) : v = w
            /\ x \in akPending => akAsk[x] \in {"blocked", "leaving"}
            /\ x \in akPending \/ akAsk[x] = "new" => AkTold(x) = {}
            /\ akGot[x] \in {"text", "cancelled"} => \E v \in AkTold(x) : akUser[v].as = akGot[x]
            /\ \A out \in akChan[x] : \E v \in AkTold(x) : akUser[v].as = out
            /\ akAsk[x] = "blocked" /\ x \notin akPending => AkTold(x) # {}
        BY DEF AkOneTold
      <4> QED
        BY <4>1, <4>2, <4>3, <4>4
    <3> QED
      BY <3>1, <3>2
  <2> QED
    BY <2>3, <2>5, <2>8
<1>4. ASSUME NEW u \in AkUsers, AkSend(u) PROVE AkInv'
  <2> DEFINE q == akUser[u].q
  <2>1. /\ akUser[u].pc = "send" /\ q \in AkQuestions /\ akUser[u].as \in {"text", "cancelled"}
        /\ akChan' = [akChan EXCEPT ![q] = akChan[q] \cup {akUser[u].as}]
        /\ akUser' = [akUser EXCEPT ![u] = [akUser[u] EXCEPT !.pc = "sent"]]
        /\ UNCHANGED <<akPending, akAsk, akGot>>
    BY <1>4 DEF AkSend, AkClaims
  <2>2. AkTypeOK'
    BY <2>1 DEF AkTypeOK
  <2>3. \A v \in AkUsers : /\ akUser'[v].q = akUser[v].q /\ akUser'[v].as = akUser[v].as
                           /\ akUser'[v].pc = IF v = u THEN "sent" ELSE akUser[v].pc
    BY <2>1 DEF AkTypeOK
  <2>4. \A x \in AkQuestions : AkTold(x)' = AkTold(x)
    BY <2>1, <2>3 DEF AkTold
  <2>5. AkClaims'
    BY <2>1, <2>3 DEF AkClaims
  <2>6. u \in AkTold(q) /\ \A x \in AkQuestions : AkTold(x) \subseteq AkUsers
    BY <2>1 DEF AkTold
  <2>7. \A x \in AkQuestions : \A out \in akChan'[x] : out \in akChan[x] \/ (x = q /\ out = akUser[u].as)
    BY <2>1 DEF AkTypeOK
  <2>8. AkOneTold'
    BY <2>1, <2>3, <2>4, <2>6, <2>7 DEF AkOneTold
  <2> QED
    BY <2>2, <2>5, <2>8
<1>5. CASE UNCHANGED akVars
  BY <1>1, <1>5 DEF akVars, AkTypeOK, AkOneTold
<1> QED
  BY <1>2, <1>3, <1>4, <1>5 DEF AkNext, AkAnswer, AkCancel

LEMMA AkInitInv == AkInit => AkInv
<1> SUFFICES ASSUME AkInit PROVE AkInv
  OBVIOUS
<1>1. \A u \in AkUsers : akUser[u].pc = "idle" /\ akUser[u].q = 0
  BY DEF AkInit, AkNobody
<1>2. \A q \in AkQuestions : AkTold(q) = {}
  BY <1>1 DEF AkTold
<1>3. AkTypeOK
  BY DEF AkInit, AkNobody, AkTypeOK
<1> QED
  BY <1>1, <1>2, <1>3 DEF AkInit, AkInv, AkOneTold, AkClaims

\* For every number of questions and of users who answer and cancel: at most one
\* of them is told that it counted, and a run that got an outcome got his.
THEOREM AkFirstWinsAlways == AkSpec => [](AkTypeOK /\ AkFirstWins)
<1>1. AkInv => AkTypeOK /\ AkFirstWins
  <2> SUFFICES ASSUME AkInv, NEW q \in AkQuestions PROVE Cardinality(AkTold(q)) <= 1
    BY DEF AkInv, AkOneTold, AkFirstWins
  <2>1. CASE AkTold(q) = {}
    BY <2>1, FS_EmptySet
  <2>2. CASE AkTold(q) # {}
    <3> PICK u \in AkTold(q) : TRUE
      BY <2>2
    <3>1. AkTold(q) = {u}
      BY DEF AkInv, AkOneTold
    <3> QED
      BY <3>1, FS_Singleton
  <2> QED
    BY <2>1, <2>2
<1> QED
  BY <1>1, AkInitInv, AkNextInv, PTL DEF AkSpec

\* A run is told when it leaves its wait, not before.
AkToldOnLeaving ==
  \A q \in AkQuestions :
    /\ akAsk[q] \in {"new", "blocked"} => akGot[q] = "none"
    /\ akAsk[q] = "leaving" => akGot[q] # "none"

\* The answer accepted is that of any user who was told so.
LEMMA AkAcceptedIs ==
  ASSUME AkInv, NEW q \in AkQuestions
  PROVE  /\ AkTold(q) = {} => AkAccepted[q] = "no"
         /\ \A u \in AkTold(q) : AkAccepted[q] = akUser[u].as /\ akUser[u].as \in {"text", "cancelled"}
<1>1. \A u \in AkTold(q) : u \in AkUsers /\ akUser[u].as \in {"text", "cancelled"} /\ \A v \in AkTold(q) : v = u
  BY DEF AkInv, AkOneTold, AkClaims, AkTold
<1>2. AkAccepted[q] = IF AkTold(q) = {} THEN "no" ELSE akUser[CHOOSE u \in AkTold(q) : TRUE].as
  BY DEF AkAccepted
<1> QED
  BY <1>1, <1>2

\* What a step of the tool does to the abstract questions.
LEMMA AkStepAnswers ==
  ASSUME AkInv, AkToldOnLeaving, [AkNext]_akVars
  PROVE  AkToldOnLeaving' /\ [AkPromise!Next]_(AkPromise!vars)
<1> USE DEF AkPromise!vars
<1>1. ASSUME \A q \in AkQuestions : AkTold(q)' = AkTold(q), \A u \in AkUsers : akUser'[u].as = akUser[u].as
      PROVE  AkAccepted' = AkAccepted
  <2> SUFFICES ASSUME NEW q \in AkQuestions
               PROVE  (IF AkTold(q)' = {} THEN "no" ELSE akUser'[CHOOSE u \in AkTold(q)' : TRUE].as)
                      = (IF AkTold(q) = {} THEN "no" ELSE akUser[CHOOSE u \in AkTold(q) : TRUE].as)
    BY DEF AkAccepted
  <2>1. AkTold(q)' = AkTold(q) /\ AkTold(q) \subseteq AkUsers
    BY <1>1 DEF AkTold
  <2> QED
    BY <1>1, <2>1
<1>2. ASSUME akUser' = akUser PROVE AkAccepted' = AkAccepted
  BY <1>1, <1>2 DEF AkTold
<1>3. ASSUME NEW q \in AkQuestions, AkRefuse(q) PROVE AkToldOnLeaving' /\ AkPromise!Next
  <2>1. akAsk[q] = "new" /\ akAsk' = [akAsk EXCEPT ![q] = "returned"] /\ akGot' = [akGot EXCEPT ![q] = "refused"] /\ akUser' = akUser
    BY <1>3 DEF AkRefuse
  <2>2. AkStage[q] = "new" /\ AkStage' = [AkStage EXCEPT ![q] = "closed"]
    BY <2>1 DEF AkStage, AkInv, AkTypeOK
  <2>3. AkPromise!Refuse(q)
    BY <1>2, <2>1, <2>2 DEF AkPromise!Refuse
  <2>4. AkToldOnLeaving'
    BY <2>1 DEF AkToldOnLeaving, AkInv, AkTypeOK
  <2> QED
    BY <2>3, <2>4 DEF AkPromise!Next
<1>4. ASSUME NEW q \in AkQuestions, AkAsk(q) PROVE AkToldOnLeaving' /\ AkPromise!Next
  <2>1. akAsk[q] = "new" /\ akAsk' = [akAsk EXCEPT ![q] = "blocked"] /\ akGot' = akGot /\ akUser' = akUser
    BY <1>4 DEF AkAsk
  <2>2. AkStage[q] = "new" /\ AkStage' = [AkStage EXCEPT ![q] = "open"]
    BY <2>1 DEF AkStage, AkInv, AkTypeOK
  <2>3. AkPromise!Open(q)
    BY <1>2, <2>1, <2>2 DEF AkPromise!Open
  <2>4. AkToldOnLeaving'
    BY <2>1 DEF AkToldOnLeaving, AkInv, AkTypeOK
  <2> QED
    BY <2>3, <2>4 DEF AkPromise!Next
<1>5. ASSUME NEW q \in AkQuestions, AkSelect(q) PROVE AkToldOnLeaving' /\ AkPromise!Next
  <2>1. PICK out \in {"timeout", "ended"} \cup akChan[q] : akGot' = [akGot EXCEPT ![q] = out]
    BY <1>5 DEF AkSelect
  <2>2. akAsk[q] = "blocked" /\ akAsk' = [akAsk EXCEPT ![q] = "leaving"] /\ akUser' = akUser /\ akGot[q] = "none"
    BY <1>5 DEF AkSelect, AkToldOnLeaving
  <2>3. AkStage[q] = "open" /\ AkStage' = AkStage
    BY <2>2 DEF AkStage, AkInv, AkTypeOK
  <2>4. out \in {"timeout", "ended", "text", "cancelled"}
    BY DEF AkInv, AkTypeOK
  <2>5. AkToldOnLeaving'
    BY <2>1, <2>2, <2>4 DEF AkToldOnLeaving, AkInv, AkTypeOK
  <2>6. CASE out \in {"timeout", "ended"}
    <3>1. AkPromise!GiveUp(q)
      BY <1>2, <2>1, <2>2, <2>3, <2>6 DEF AkPromise!GiveUp
    <3> QED
      BY <2>5, <3>1 DEF AkPromise!Next
  <2>7. CASE out \in akChan[q]
    <3>1. AkAccepted[q] = out /\ out # "no"
      BY <2>4, <2>7, AkAcceptedIs DEF AkInv, AkOneTold
    <3>2. AkPromise!Learn(q)
      BY <1>2, <2>1, <2>2, <2>3, <3>1 DEF AkPromise!Learn
    <3> QED
      BY <2>5, <3>2 DEF AkPromise!Next
  <2> QED
    BY <2>6, <2>7
<1>6. ASSUME NEW q \in AkQuestions, AkRemove(q) PROVE AkToldOnLeaving' /\ AkPromise!Next
  <2>1. akAsk[q] = "leaving" /\ akAsk' = [akAsk EXCEPT ![q] = "returned"] /\ akGot' = akGot /\ akUser' = akUser
    BY <1>6 DEF AkRemove
  <2>2. AkStage[q] = "open" /\ AkStage' = [AkStage EXCEPT ![q] = "closed"]
    BY <2>1 DEF AkStage, AkInv, AkTypeOK
  <2>3. AkPromise!Close(q)
    BY <1>2, <2>1, <2>2 DEF AkPromise!Close, AkToldOnLeaving
  <2>4. AkToldOnLeaving'
    BY <2>1 DEF AkToldOnLeaving, AkInv, AkTypeOK
  <2> QED
    BY <2>3, <2>4 DEF AkPromise!Next
<1>7. ASSUME NEW u \in AkUsers, NEW q \in AkQuestions, NEW as \in {"text", "cancelled"}, AkClaim(u, q, as)
      PROVE  AkToldOnLeaving' /\ [AkPromise!Next]_(AkPromise!vars)
  <2> DEFINE r == [pc |-> IF q \in akPending THEN "send" ELSE "late", q |-> q, as |-> as]
  <2>1. akUser[u].pc = "idle" /\ akUser' = [akUser EXCEPT ![u] = r] /\ UNCHANGED <<akAsk, akGot>>
    BY <1>7 DEF AkClaim
  <2>2. r.q = q /\ r.as = as /\ r.pc = (IF q \in akPending THEN "send" ELSE "late")
    OBVIOUS
  <2> HIDE DEF r
  <2>3. \A v \in AkUsers : akUser'[v] = IF v = u THEN r ELSE akUser[v]
    BY <2>1 DEF AkInv, AkTypeOK
  <2>4. \A x \in AkQuestions : AkTold(x)' = IF x = q /\ q \in akPending THEN AkTold(x) \cup {u} ELSE AkTold(x)
    BY <2>1, <2>2, <2>3 DEF AkTold
  <2>5. \A x \in AkQuestions : u \notin AkTold(x) /\ AkTold(x) \subseteq AkUsers
    BY <2>1 DEF AkTold
  <2>6. AkStage' = AkStage /\ AkToldOnLeaving'
    BY <2>1 DEF AkStage, AkToldOnLeaving
  <2>7. ASSUME NEW x \in AkQuestions, ~(x = q /\ q \in akPending) PROVE AkAccepted'[x] = AkAccepted[x]
    <3>1. AkTold(x)' = AkTold(x) /\ \A v \in AkTold(x) : akUser'[v] = akUser[v]
      BY <2>3, <2>4, <2>5, <2>7
    <3>2. AkAccepted[x] = IF AkTold(x) = {} THEN "no" ELSE akUser[CHOOSE v \in AkTold(x) : TRUE].as
      BY DEF AkAccepted
    <3>3. AkAccepted'[x] = IF AkTold(x)' = {} THEN "no" ELSE akUser'[CHOOSE v \in AkTold(x)' : TRUE].as
      BY DEF AkAccepted
    <3> QED
      BY <3>1, <3>2, <3>3
  <2>8. CASE q \in akPending
    <3>1. AkTold(q) = {} /\ AkTold(q)' = {u} /\ akAsk[q] \in {"blocked", "leaving"}
      BY <2>4, <2>8 DEF AkInv, AkOneTold
    <3>2. AkAccepted[q] = "no"
      BY <3>1, AkAcceptedIs
    <3>3. AkAccepted'[q] = akUser'[CHOOSE v \in AkTold(q)' : TRUE].as
      BY <3>1 DEF AkAccepted
    <3>4. AkAccepted'[q] = as
      BY <2>2, <2>3, <3>1, <3>3
    <3>5. AkAccepted' = [AkAccepted EXCEPT ![q] = as]
      <4>1. AkAccepted' = [x \in AkQuestions |-> AkAccepted'[x]] /\ AkAccepted = [x \in AkQuestions |-> AkAccepted[x]]
        BY DEF AkAccepted
      <4> HIDE DEF AkAccepted
      <4> QED
        BY <2>7, <3>4, <4>1
    <3>6. AkStage[q] = "open"
      BY <3>1 DEF AkStage
    <3>7. AkPromise!Accept(q)
      BY <2>1, <2>6, <3>2, <3>5, <3>6 DEF AkPromise!Accept
    <3> QED
      BY <2>6, <3>7 DEF AkPromise!Next
  <2>9. CASE q \notin akPending
    <3>1. AkAccepted' = AkAccepted
      BY <2>7, <2>9 DEF AkAccepted
    <3> QED
      BY <2>1, <2>6, <3>1
  <2> QED
    BY <2>8, <2>9
<1>8. ASSUME NEW u \in AkUsers, AkSend(u) PROVE AkToldOnLeaving' /\ UNCHANGED AkPromise!vars
  <2>1. akUser[u].pc = "send" /\ akUser' = [akUser EXCEPT ![u] = [akUser[u] EXCEPT !.pc = "sent"]] /\ UNCHANGED <<akAsk, akGot>>
    BY <1>8 DEF AkSend
  <2>2. \A v \in AkUsers : /\ akUser'[v].q = akUser[v].q /\ akUser'[v].as = akUser[v].as
                           /\ akUser'[v].pc = IF v = u THEN "sent" ELSE akUser[v].pc
    BY <2>1 DEF AkInv, AkTypeOK
  <2>3. \A x \in AkQuestions : AkTold(x)' = AkTold(x)
    BY <2>1, <2>2 DEF AkTold
  <2> QED
    BY <1>1, <2>1, <2>2, <2>3 DEF AkStage, AkToldOnLeaving
<1>9. CASE UNCHANGED akVars
  BY <1>2, <1>9 DEF akVars, AkStage, AkToldOnLeaving
<1> QED
  BY <1>3, <1>4, <1>5, <1>6, <1>7, <1>8, <1>9 DEF AkNext, AkAnswer, AkCancel

\* ask.go implements a question that accepts one answer while it is open: for every
\* number of questions and users, what the maps, channels and goroutines do is a step
\* of such a question, or nothing.
THEOREM AkOneAnswerAlways == AkSpec => AkOneAnswer
<1>1. AkInit => AkToldOnLeaving /\ AkPromise!Init
  <2> SUFFICES ASSUME AkInit PROVE AkToldOnLeaving /\ AkPromise!Init
    OBVIOUS
  <2>1. \A q \in AkQuestions : AkTold(q) = {}
    BY DEF AkInit, AkNobody, AkTold
  <2>2. AkAccepted = [q \in AkQuestions |-> "no"] /\ AkStage = [q \in AkQuestions |-> "new"]
    BY <2>1 DEF AkAccepted, AkStage, AkInit
  <2> QED
    BY <2>2 DEF AkInit, AkToldOnLeaving, AkPromise!Init
<1>2. AkInv /\ AkToldOnLeaving /\ [AkNext]_akVars => AkToldOnLeaving' /\ [AkPromise!Next]_(AkPromise!vars)
  BY AkStepAnswers
<1> QED
  BY <1>1, <1>2, AkInitInv, AkNextInv, PTL DEF AkSpec, AkOneAnswer, AkPromise!Spec

----------------------------------------------------------------------------
(* Heartbeat and cron. *)

DmSpec == DmInit /\ [][DmNext]_dmVars

\* The answers handed over are of items run, in their order, and while an item
\* runs or its answer is handed over, of items before it.
DmToldUpTo(n) ==
  \E at \in [DOMAIN dmTold -> 1..n] :
    \A i, j \in DOMAIN dmTold : dmTold[i] = dmRan[at[i]] /\ (i < j => at[i] < at[j])

DmInOrder ==
  /\ dmLoop \in {"items", "run", "tell"} => dmRan \o dmLeft \in DmFiles
  /\ dmLoop \in {"run", "tell"} => dmRan # <<>>
  /\ DmToldUpTo(IF dmLoop \in {"run", "tell"} THEN Len(dmRan) - 1 ELSE Len(dmRan))

DmCounted ==
  /\ dmSeq = Len(dmIds) /\ \A i \in DOMAIN dmIds : dmIds[i] = i
  /\ \A j \in dmJobs : j.id = j.brief /\ j.brief \in DOMAIN dmIds
  /\ Len(dmIds) <= DmJobs
  /\ "http" \in dmUp /\ "lan" \in dmWant => "token" \in dmWant

DmInv == DmTypeOK /\ DmInOrder /\ DmCounted

\* The next item goes from what is left to what was run.
LEMMA DmHandsOver ==
  ASSUME NEW S, NEW ran \in Seq(S), NEW left \in Seq(S), left # <<>>
  PROVE  /\ Head(left) \in S /\ Tail(left) \in Seq(S)
         /\ Append(ran, Head(left)) \o Tail(left) = ran \o left
<1>1. Head(left) \in S /\ Tail(left) \in Seq(S) /\ Len(Tail(left)) = Len(left) - 1 /\ Len(left) \in Nat /\ Len(left) > 0
  OBVIOUS
<1> DEFINE l == Append(ran, Head(left)) \o Tail(left)
           r == ran \o left
<1>2. l \in Seq(S) /\ r \in Seq(S) /\ Len(l) = Len(r)
  BY <1>1
<1>3. ASSUME NEW i \in 1..Len(l) PROVE l[i] = r[i]
  <2>1. CASE i <= Len(ran)
    BY <1>1, <2>1
  <2>2. CASE i = Len(ran) + 1
    BY <1>1, <2>2
  <2>3. CASE i > Len(ran) + 1
    BY <1>1, <2>3
  <2> QED
    BY <2>1, <2>2, <2>3
<1>4. l = r
  <2> HIDE DEF l, r
  <2> QED
    BY <1>2, <1>3, SeqEqual
<1> QED
  BY <1>1, <1>4

\* What was handed over stays placed among what was run when more is run.
LEMMA DmRunsMore ==
  ASSUME NEW n \in Nat, NEW item, dmRan \in Seq(DmItems), item \in DmItems, n <= Len(dmRan),
         DmToldUpTo(n), dmRan' = Append(dmRan, item), dmTold' = dmTold
  PROVE  DmToldUpTo(n)'
<1>1. PICK at \in [DOMAIN dmTold -> 1..n] :
        \A i, j \in DOMAIN dmTold : dmTold[i] = dmRan[at[i]] /\ (i < j => at[i] < at[j])
  BY DEF DmToldUpTo
<1>2. \A i \in DOMAIN dmTold : at[i] \in 1..Len(dmRan) /\ dmRan'[at[i]] = dmRan[at[i]]
  <2> TAKE i \in DOMAIN dmTold
  <2>1. at[i] \in 1..n
    BY <1>1
  <2> QED
    BY <2>1
<1>3. \A i, j \in DOMAIN dmTold : dmTold'[i] = dmRan'[at[i]] /\ (i < j => at[i] < at[j])
  BY <1>1, <1>2
<1>4. at \in [DOMAIN dmTold' -> 1..n]
  BY <1>1
<1> QED
  BY <1>3, <1>4 DEF DmToldUpTo

LEMMA DmNextInv == DmInv /\ [DmNext]_dmVars => DmInv'
<1> SUFFICES ASSUME DmInv, [DmNext]_dmVars PROVE DmInv'
  OBVIOUS
<1> USE DEF DmInv
<1>0. /\ DmTicks \in Nat /\ DmJobs \in Nat /\ \A s \in DmFiles : s \in Seq(DmItems)
      /\ dmLeft \in Seq(DmItems) /\ dmRan \in Seq(DmItems) /\ dmTold \in Seq(DmItems)
      /\ Len(dmRan) \in Nat /\ (dmRan # <<>> => Len(dmRan) - 1 \in Nat)
  BY DmAssumption DEF DmTypeOK
<1>1. ASSUME UNCHANGED <<dmRan, dmTold>> PROVE \A n \in Nat : DmToldUpTo(n)' <=> DmToldUpTo(n)
  BY <1>1 DEF DmToldUpTo
<1>2. ASSUME UNCHANGED dmTickVars PROVE DmInOrder'
  BY <1>2 DEF dmTickVars, DmInOrder, DmToldUpTo
<1>3. ASSUME UNCHANGED <<dmCronVars, dmWant, dmUp>> PROVE DmCounted'
  BY <1>3 DEF dmCronVars, DmCounted
<1>4. CASE DmStart
  <2>1. DmTypeOK'
    BY <1>4 DEF DmStart, DmTypeOK, dmCronVars
  <2>2. DmInOrder'
    BY <1>4 DEF DmStart, DmInOrder, DmToldUpTo
  <2>3. DmCounted'
    BY <1>4 DEF DmStart, DmCounted, dmCronVars
  <2> QED
    BY <2>1, <2>2, <2>3
<1>5. CASE DmServeHTTP
  <2>1. /\ UNCHANGED <<dmWant, dmStop, dmFile, dmTicker, dmCount, dmTickVars, dmCronVars>>
        /\ dmServe' \in {"serving", "refused"} /\ dmUp' \subseteq dmUp \cup {"http", "telegram", "discord"}
        /\ "http" \in dmUp' => DmMayServe
    BY <1>5 DEF DmServeHTTP
  <2>2. DmTypeOK'
    BY <2>1 DEF DmTypeOK, dmTickVars, dmCronVars
  <2>3. DmCounted'
    BY <2>1 DEF DmCounted, dmCronVars, DmMayServe
  <2> QED
    BY <1>2, <2>1, <2>2, <2>3
<1>6. CASE DmInterrupt \/ DmTickerFires \/ DmEditList
  <2>1. UNCHANGED <<dmServeVars, dmTickVars, dmCronVars>>
    BY <1>6 DEF DmInterrupt, DmTickerFires, DmEditList
  <2>2. DmTypeOK'
    <3>1. CASE DmInterrupt
      BY <2>1, <3>1 DEF DmInterrupt, DmTypeOK, dmServeVars, dmTickVars, dmCronVars
    <3>2. CASE DmTickerFires
      BY <1>0, <2>1, <3>2 DEF DmTickerFires, DmTypeOK, dmServeVars, dmTickVars, dmCronVars
    <3>3. CASE DmEditList
      BY <2>1, <3>3 DEF DmEditList, DmTypeOK, dmServeVars, dmTickVars, dmCronVars
    <3> QED
      BY <1>6, <3>1, <3>2, <3>3
  <2> QED
    BY <1>2, <1>3, <2>1, <2>2 DEF dmServeVars
<1>7. CASE DmSelect
  <2>1. /\ dmLoop = "wait" /\ UNCHANGED <<dmServeVars, dmStop, dmFile, dmCount, dmCronVars>>
        /\ \/ dmLoop' = "over" /\ UNCHANGED <<dmTicker, dmLeft, dmRan, dmTold>>
           \/ dmTicker' = FALSE /\ dmLoop' = "items" /\ dmLeft' = dmFile /\ dmRan' = <<>> /\ dmTold' = <<>>
    BY <1>7 DEF DmSelect
  <2>2. DmTypeOK'
    <3>1. /\ dmLeft' \in Seq(DmItems) /\ dmRan' \in Seq(DmItems) /\ dmTold' \in Seq(DmItems)
          /\ dmTicker' \in BOOLEAN
      <4>1. dmFile \in Seq(DmItems) /\ <<>> \in Seq(DmItems)
        BY <1>0 DEF DmTypeOK
      <4> QED
        BY <1>0, <2>1, <4>1 DEF DmTypeOK
    <3> QED
      BY <2>1, <3>1 DEF DmTypeOK, dmServeVars, dmCronVars
  <2>3. DmInOrder'
    <3>1. CASE dmLoop' = "over" /\ UNCHANGED <<dmTicker, dmLeft, dmRan, dmTold>>
      BY <2>1, <3>1 DEF DmInOrder, DmToldUpTo
    <3>2. CASE dmLoop' = "items" /\ dmLeft' = dmFile /\ dmRan' = <<>> /\ dmTold' = <<>>
      <4>1. dmRan' \o dmLeft' \in DmFiles
        BY <1>0, <3>2 DEF DmTypeOK
      <4>2. DmToldUpTo(0)'
        <5>1. [i \in {} |-> 0] \in [DOMAIN dmTold' -> 1..0]
          BY <3>2
        <5> QED
          BY <3>2, <5>1 DEF DmToldUpTo
      <4> QED
        BY <3>2, <4>1, <4>2 DEF DmInOrder
    <3> QED
      BY <2>1, <3>1, <3>2
  <2> QED
    BY <1>3, <2>1, <2>2, <2>3 DEF dmServeVars
<1>8. CASE DmNextItem
  <2>1. /\ dmLoop = "items" /\ UNCHANGED <<dmServeVars, dmStop, dmFile, dmTicker, dmCount, dmTold, dmCronVars>>
        /\ \/ dmLoop' = "wait" /\ UNCHANGED <<dmLeft, dmRan>>
           \/ /\ dmLeft # <<>> /\ dmLoop' = "run"
              /\ dmRan' = Append(dmRan, Head(dmLeft)) /\ dmLeft' = Tail(dmLeft)
    BY <1>8 DEF DmNextItem
  <2>2. dmLeft # <<>> => /\ Head(dmLeft) \in DmItems /\ Tail(dmLeft) \in Seq(DmItems)
                         /\ Append(dmRan, Head(dmLeft)) \o Tail(dmLeft) = dmRan \o dmLeft
    BY <1>0, DmHandsOver
  <2>3. DmTypeOK'
    <3>1. dmLeft' \in Seq(DmItems) /\ dmRan' \in Seq(DmItems)
      <4>1. dmLeft # <<>> => Append(dmRan, Head(dmLeft)) \in Seq(DmItems)
        BY <1>0, <2>2
      <4> QED
        BY <1>0, <2>1, <2>2, <4>1
    <3> QED
      BY <2>1, <3>1 DEF DmTypeOK, dmServeVars, dmCronVars
  <2>4. DmInOrder'
    <3>1. CASE dmLoop' = "wait" /\ UNCHANGED <<dmLeft, dmRan>>
      BY <2>1, <3>1 DEF DmInOrder, DmToldUpTo
    <3>2. CASE dmLeft # <<>> /\ dmLoop' = "run" /\ dmRan' = Append(dmRan, Head(dmLeft)) /\ dmLeft' = Tail(dmLeft)
      <4>1. dmRan' \o dmLeft' \in DmFiles
        BY <2>1, <2>2, <3>2 DEF DmInOrder
      <4> PICK n \in Nat : n = Len(dmRan)
        BY <1>0
      <4>2. DmToldUpTo(n)
        BY <2>1 DEF DmInOrder
      <4>3. Head(dmLeft) \in DmItems /\ n <= Len(dmRan)
        BY <1>0, <2>2, <3>2
      <4>4. DmToldUpTo(n)'
        BY <1>0, <2>1, <3>2, <4>2, <4>3, DmRunsMore
      <4>5. Len(dmRan') - 1 = n /\ dmRan' # <<>>
        BY <1>0, <3>2, <4>3
      <4>6. dmLoop' = "run"
        BY <3>2
      <4> QED
        BY <4>1, <4>4, <4>5, <4>6 DEF DmInOrder
    <3> QED
      BY <2>1, <3>1, <3>2
  <2> QED
    BY <1>3, <2>1, <2>3, <2>4 DEF dmServeVars
<1>9. CASE DmRun
  <2>1. /\ dmLoop = "run" /\ dmLoop' \in {"tell", "items", "wait"}
        /\ UNCHANGED <<dmServeVars, dmStop, dmFile, dmTicker, dmCount, dmLeft, dmRan, dmTold, dmCronVars>>
    BY <1>9 DEF DmRun
  <2>2. DmTypeOK'
    BY <2>1 DEF DmTypeOK, dmServeVars, dmCronVars
  <2>3. DmToldUpTo(Len(dmRan) - 1) /\ dmRan # <<>> /\ dmRan \o dmLeft \in DmFiles
    BY <2>1 DEF DmInOrder
  <2>4. DmToldUpTo(Len(dmRan))
    <3>1. PICK at \in [DOMAIN dmTold -> 1..(Len(dmRan) - 1)] :
            \A i, j \in DOMAIN dmTold : dmTold[i] = dmRan[at[i]] /\ (i < j => at[i] < at[j])
      BY <2>3 DEF DmToldUpTo
    <3>2. 1..(Len(dmRan) - 1) \subseteq 1..Len(dmRan)
      BY <1>0
    <3>3. at \in [DOMAIN dmTold -> 1..Len(dmRan)]
      BY <3>1, <3>2
    <3> QED
      BY <3>1, <3>3 DEF DmToldUpTo
  <2>5. DmInOrder'
    BY <2>1, <2>3, <2>4 DEF DmInOrder, DmToldUpTo
  <2> QED
    BY <1>3, <2>1, <2>2, <2>5 DEF dmServeVars
<1>10. CASE DmTell
  <2>1. /\ dmLoop = "tell" /\ dmLoop' = "items" /\ dmTold' = Append(dmTold, Last(dmRan))
        /\ UNCHANGED <<dmServeVars, dmStop, dmFile, dmTicker, dmCount, dmLeft, dmRan, dmCronVars>>
    BY <1>10 DEF DmTell
  <2>2. DmToldUpTo(Len(dmRan) - 1) /\ dmRan # <<>> /\ dmRan \o dmLeft \in DmFiles
    BY <2>1 DEF DmInOrder
  <2> DEFINE n == Len(dmRan)
             m == Len(dmTold)
  <2>3. n \in Nat /\ n > 0 /\ m \in Nat /\ Last(dmRan) = dmRan[n] /\ Last(dmRan) \in DmItems /\ DOMAIN dmTold = 1..m
    BY <1>0, <2>2 DEF Last
  <2>4. DmTypeOK'
    <3>1. dmTold' \in Seq(DmItems)
      BY <1>0, <2>1, <2>3
    <3> QED
      BY <2>1, <3>1 DEF DmTypeOK, dmServeVars, dmCronVars
  <2>5. PICK at \in [DOMAIN dmTold -> 1..(n - 1)] :
          \A i, j \in DOMAIN dmTold : dmTold[i] = dmRan[at[i]] /\ (i < j => at[i] < at[j])
    BY <2>2 DEF DmToldUpTo
  <2>6. DOMAIN dmTold' = 1..(m + 1) /\ (\A i \in 1..m : dmTold'[i] = dmTold[i]) /\ dmTold'[m + 1] = dmRan[n]
    BY <1>0, <2>1, <2>3
  <2> DEFINE to == [i \in 1..(m + 1) |-> IF i = m + 1 THEN n ELSE at[i]]
  <2> HIDE DEF n, m
  <2>7. /\ to \in [1..(m + 1) -> 1..n] /\ to[m + 1] = n
        /\ \A i \in 1..m : to[i] = at[i] /\ at[i] \in 1..(n - 1)
    BY <2>3, <2>5
  <2> HIDE DEF to
  <2>8. \A i, j \in 1..(m + 1) : dmTold'[i] = dmRan[to[i]] /\ (i < j => to[i] < to[j])
    <3> TAKE i, j \in 1..(m + 1)
    <3>1. \A k \in 1..(m + 1) : k \in 1..m \/ k = m + 1
      BY <2>3
    <3>2. dmTold'[i] = dmRan[to[i]]
      BY <2>3, <2>5, <2>6, <2>7, <3>1
    <3>3. ASSUME i < j PROVE to[i] < to[j]
      <4>1. i \in 1..m
        BY <2>3, <3>3
      <4>2. CASE j \in 1..m
        BY <2>3, <2>5, <2>7, <3>3, <4>1, <4>2
      <4>3. CASE j = m + 1
        BY <2>3, <2>7, <4>1, <4>3
      <4> QED
        BY <3>1, <4>2, <4>3
    <3> QED
      BY <3>2, <3>3
  <2>9. DmToldUpTo(n)'
    BY <2>1, <2>6, <2>7, <2>8 DEF DmToldUpTo, n
  <2>10. DmInOrder'
    BY <2>1, <2>2, <2>9 DEF DmInOrder, DmToldUpTo, n
  <2> QED
    BY <1>3, <2>1, <2>4, <2>10 DEF dmServeVars
<1>11. CASE DmSchedule
  <2> DEFINE job == [id |-> dmSeq + 1, brief |-> Len(dmIds) + 1]
  <2>1. /\ dmSeq = Len(dmIds) /\ Len(dmIds) \in Nat /\ Len(dmIds) < DmJobs
        /\ dmJobs' = dmJobs \cup {job} /\ dmIds' = Append(dmIds, dmSeq + 1) /\ dmSeq' = dmSeq + 1
        /\ UNCHANGED <<dmServeVars, dmStop, dmFile, dmTicker, dmCount, dmTickVars>>
    BY <1>11 DEF DmSchedule, DmJobId, DmCounted, DmTypeOK
  <2>2. /\ job \in [id : 1..DmJobs, brief : 1..DmJobs] /\ job.id = job.brief /\ job.brief = Len(dmIds) + 1
        /\ dmSeq + 1 \in 1..DmJobs
    BY <1>0, <2>1
  <2>3. /\ dmIds' \in Seq(1..DmJobs) /\ Len(dmIds') = Len(dmIds) + 1 /\ DOMAIN dmIds' = 1..(Len(dmIds) + 1)
        /\ \A i \in DOMAIN dmIds' : dmIds'[i] = i
    BY <2>1, <2>2 DEF DmCounted, DmTypeOK
  <2> HIDE DEF job
  <2>4. DmTypeOK'
    BY <1>0, <2>1, <2>2, <2>3 DEF DmTypeOK, dmServeVars, dmTickVars
  <2>5. \A j \in dmJobs' : j.id = j.brief /\ j.brief \in DOMAIN dmIds'
    <3>1. DOMAIN dmIds = 1..Len(dmIds)
      BY DEF DmTypeOK
    <3>2. \A j \in dmJobs' : j = job \/ (j.id = j.brief /\ j.brief \in DOMAIN dmIds)
      BY <2>1 DEF DmCounted
    <3>3. DOMAIN dmIds \subseteq DOMAIN dmIds' /\ Len(dmIds) + 1 \in DOMAIN dmIds'
      BY <2>1, <2>3, <3>1
    <3> QED
      BY <2>2, <3>2, <3>3
  <2>6. DmCounted'
    BY <2>1, <2>3, <2>5 DEF DmCounted, dmServeVars
  <2> QED
    BY <1>2, <2>1, <2>4, <2>6
<1>12. CASE DmCancel
  <2>1. dmJobs' \subseteq dmJobs /\ UNCHANGED <<dmServeVars, dmStop, dmFile, dmTicker, dmCount, dmTickVars, dmSeq, dmIds>>
    BY <1>12 DEF DmCancel
  <2>2. DmTypeOK'
    BY <2>1 DEF DmTypeOK, dmServeVars, dmTickVars
  <2>3. DmCounted'
    BY <2>1 DEF DmCounted, dmServeVars
  <2> QED
    BY <1>2, <2>1, <2>2, <2>3
<1>13. CASE UNCHANGED dmVars
  <2>1. DmTypeOK'
    BY <1>13 DEF dmVars, dmServeVars, dmTickVars, dmCronVars, DmTypeOK
  <2> QED
    BY <1>2, <1>3, <1>13, <2>1 DEF dmVars, dmServeVars
<1> QED
  BY <1>4, <1>5, <1>6, <1>7, <1>8, <1>9, <1>10, <1>11, <1>12, <1>13 DEF DmNext, DmHeartbeat

LEMMA DmInitInv == DmInit => DmInv
<1> SUFFICES ASSUME DmInit PROVE DmInv
  OBVIOUS
<1>1. DmTypeOK
  <2>1. 0 \in 0..DmTicks /\ 0 \in 0..DmJobs
    BY DmAssumption
  <2>2. <<>> \in Seq(DmItems) /\ <<>> \in Seq(1..DmJobs)
    OBVIOUS
  <2> QED
    BY <2>1, <2>2 DEF DmInit, DmTypeOK
<1>2. DmToldUpTo(0)
  <2>1. [i \in {} |-> 0] \in [DOMAIN dmTold -> 1..0]
    BY DEF DmInit
  <2> QED
    BY <2>1 DEF DmInit, DmToldUpTo
<1>3. DmInOrder
  BY <1>2 DEF DmInit, DmInOrder
<1>4. DmCounted
  BY DmAssumption DEF DmInit, DmCounted
<1> QED
  BY <1>1, <1>3, <1>4 DEF DmInv

\* Whatever is in the file, whoever rewrites it and however many jobs there are:
\* a tick works through the list it began with, in its order; answers come in that
\* order; an id means one job; the network sees no server without a token; and
\* once the process is told to stop no item is begun.
THEOREM DmFaithfulAlways == DmSpec => []DmTypeOK /\ DmFaithful
<1>1. DmInv => DmTypeOK /\ DmTickFaithful /\ DmTokensMean
  <2> SUFFICES ASSUME DmInv PROVE DmTickFaithful /\ DmTokensMean
    BY DEF DmInv
  <2> USE DEF DmInv
  <2>1. Len(dmRan) \in Nat /\ DOMAIN dmRan = 1..Len(dmRan)
    BY DEF DmTypeOK
  <2>2. DmTickFaithful
    <3>1. PICK n \in {Len(dmRan), Len(dmRan) - 1} : DmToldUpTo(n)
      BY DEF DmInOrder
    <3>2. PICK at \in [DOMAIN dmTold -> 1..n] :
            \A i, j \in DOMAIN dmTold : dmTold[i] = dmRan[at[i]] /\ (i < j => at[i] < at[j])
      BY <3>1 DEF DmToldUpTo
    <3>3. 1..n \subseteq DOMAIN dmRan
      BY <2>1
    <3>4. at \in [DOMAIN dmTold -> DOMAIN dmRan]
      BY <3>2, <3>3
    <3> QED
      BY <3>2, <3>4 DEF DmInOrder, DmTickFaithful
  <2>3. DmTokensMean
    BY DEF DmCounted, DmTokensMean
  <2> QED
    BY <2>2, <2>3
<1>2. DmInv /\ [DmNext]_dmVars => [dmStop => Len(dmRan') <= Len(dmRan)]_dmRan
  <2> SUFFICES ASSUME DmInv, [DmNext]_dmVars, dmRan' # dmRan, dmStop PROVE Len(dmRan') <= Len(dmRan)
    OBVIOUS
  <2>1. DmSelect
    BY DEF DmNext, DmHeartbeat, DmStart, DmServeHTTP, DmInterrupt, DmTickerFires, DmNextItem, DmGoesOn, DmTell, DmRun,
           DmEditList, DmSchedule, DmCancel, dmTickVars, dmVars
  <2>2. dmRan' = <<>> /\ Len(dmRan) \in Nat
    BY <2>1 DEF DmSelect, DmInv, DmTypeOK
  <2> QED
    BY <2>2
<1> QED
  BY <1>1, <1>2, DmInitInv, DmNextInv, PTL DEF DmSpec, DmFaithful, DmNoneAfter

----------------------------------------------------------------------------
(* The skills watcher, whose promise is a liveness property; and all of     *)
(* them under the run's specification.                                     *)

SwSteps == SwInit /\ [][SwNext]_swVars

\* For every number of directories and changes.
THEOREM SwTypeOKAlways == SwSteps => []SwTypeOK
<1>1. SwInit => SwTypeOK
  <2>1. 0 \in 0..SwChanges
    BY SwAssumption
  <2>2. [d \in SwDirs |-> 0] \in [SwDirs -> 0..SwChanges]
    BY <2>1
  <2> QED
    BY <2>1, <2>2 DEF SwInit, SwTypeOK
<1>2. SwTypeOK /\ [SwNext]_swVars => SwTypeOK'
  <2> SUFFICES ASSUME SwTypeOK, [SwNext]_swVars PROVE SwTypeOK'
    OBVIOUS
  <2>1. CASE SwLoad
    BY <2>1 DEF SwLoad, SwTypeOK
  <2>2. CASE SwStart
    BY <2>2 DEF SwStart, SwFound, SwTypeOK
  <2>3. CASE SwEvent
    BY <2>3 DEF SwEvent, SwArm, SwTypeOK
  <2>4. CASE SwFire
    BY <2>4 DEF SwFire, SwReload, SwTypeOK
  <2>5. CASE SwPoll
    BY <2>5 DEF SwPoll, SwReload, SwTypeOK
  <2>6. ASSUME NEW d \in SwDirs, SwMakeDir(d) PROVE SwTypeOK'
    BY <2>6 DEF SwMakeDir, SwTypeOK
  <2>7. ASSUME NEW d \in SwDirs, SwChange(d) PROVE SwTypeOK'
    <3>1. swCount' \in 0..SwChanges /\ 0 \in 0..SwChanges
      BY <2>7, SwAssumption DEF SwChange, SwTypeOK
    <3>2. PICK v \in {swCount', 0} \ {swFiles[d]} : swFiles' = [swFiles EXCEPT ![d] = v]
      BY <2>7 DEF SwChange
    <3>3. swFiles' \in [SwDirs -> 0..SwChanges]
      BY <3>1, <3>2 DEF SwTypeOK
    <3>4. swEvents' \subseteq SwDirs /\ swMissed' \subseteq SwDirs
      BY <2>7 DEF SwChange, SwTypeOK
    <3> QED
      BY <2>7, <3>1, <3>3, <3>4 DEF SwChange, SwTypeOK
  <2>8. CASE UNCHANGED swVars
    BY <2>8 DEF swVars, SwTypeOK
  <2> QED
    BY <2>1, <2>2, <2>3, <2>4, <2>5, <2>6, <2>7, <2>8 DEF SwNext, SwWatcher
<1> QED
  BY <1>1, <1>2, PTL DEF SwSteps

\* In the run's specification each component takes its own steps and no others.
LEMMA EachServiceAlone == MCSpec => McSpec /\ PrSpec /\ AkSpec /\ DmSpec /\ SwSteps
<1>1. MCInit => McInit /\ PrInit /\ AkInit /\ DmInit /\ SwInit
  BY DEF MCInit
<1>2. [MCNext]_serveVars => [McNextStep]_mcVars
  BY DEF MCNext, serveVars, frontVars, svcVars, OnlyProcess, OnlyAsk, OnlyDaemon, OnlySkills,
             OnlyBroker, OnlyTelegram, OnlyDiscord, OnlyWebSocket
<1>3. [MCNext]_serveVars => [PrNext]_prVars
  BY DEF MCNext, serveVars, frontVars, svcVars, OnlyMcp, OnlyAsk, OnlyDaemon, OnlySkills,
             OnlyBroker, OnlyTelegram, OnlyDiscord, OnlyWebSocket
<1>4. [MCNext]_serveVars => [AkNext]_akVars
  BY DEF MCNext, serveVars, frontVars, svcVars, OnlyMcp, OnlyProcess, OnlyDaemon, OnlySkills,
             OnlyBroker, OnlyTelegram, OnlyDiscord, OnlyWebSocket
<1>5. [MCNext]_serveVars => [DmNext]_dmVars
  BY DEF MCNext, serveVars, frontVars, svcVars, OnlyMcp, OnlyProcess, OnlyAsk, OnlySkills,
             OnlyBroker, OnlyTelegram, OnlyDiscord, OnlyWebSocket
<1>6. [MCNext]_serveVars => [SwNext]_swVars
  BY DEF MCNext, serveVars, frontVars, svcVars, OnlyMcp, OnlyProcess, OnlyAsk, OnlyDaemon,
             OnlyBroker, OnlyTelegram, OnlyDiscord, OnlyWebSocket
<1>7. MCSpec => MCInit /\ [][MCNext]_serveVars
  BY PTL DEF MCSpec
<1> QED
  BY <1>1, <1>2, <1>3, <1>4, <1>5, <1>6, <1>7, PTL DEF McSpec, PrSpec, AkSpec, DmSpec, SwSteps

\* The state of all services is well typed.
THEOREM ServicesTypesKept == MCSpec => []ServicesTypeOK
<1>1. McTypeOK /\ PrTypeOK /\ AkTypeOK /\ DmTypeOK /\ SwTypeOK => ServicesTypeOK
  BY DEF ServicesTypeOK
<1> QED
  BY <1>1, EachServiceAlone, McOwnAnswerAlways, PrToldTrulyAlways, AkFirstWinsAlways, DmFaithfulAlways, SwTypeOKAlways, PTL

\* pkg/mcp, ask.go and process.go: a call of an MCP server returns only the answer with
\* its own id, of the answers to a question at most one is told it was taken, and what
\* poll, log, write and list said of a session was so, for any sets of calls,
\* questions, users and processes.
THEOREM ToldTrulyAlways == MCSpec => []ToldTruly
<1>1. McOwnAnswer /\ AkFirstWins /\ PrToldTruly => ToldTruly
  BY DEF ToldTruly
<1> QED
  BY <1>1, EachServiceAlone, McOwnAnswerAlways, AkFirstWinsAlways, PrToldTrulyAlways, PTL

=============================================================================
