--------------------------- MODULE ReactLoopProofs ---------------------------
(***************************************************************************)
(* Proofs about the agent loop: its types, what it records before and      *)
(* after it executes, what a switch to plan mode stops, and what a         *)
(* compaction leaves alone, for every number of steps, calls, attempts and *)
(* kept messages.                                                          *)
(***************************************************************************)
EXTENDS ReactLoop, SequenceTheorems, TLAPS

Message == [role : Roles, n : 0..MaxCalls]

----------------------------------------------------------------------------
(* What compaction does to a conversation.                                  *)

LEMMA HeadLenIs ==
  ASSUME NEW m \in Seq(Message)
  PROVE  /\ HeadLen(m) \in {0, 1} /\ HeadLen(m) <= Len(m) /\ Len(m) \in Nat
         /\ m # <<>> /\ m[1].role = "prompt" => HeadLen(m) = 1
<1>1. Len(m) \in Nat /\ (m # <<>> => Len(m) > 0)
  OBVIOUS
<1> QED
  BY <1>1 DEF HeadLen, System

LEMMA NotesAreMessages ==
  \A r \in Roles : Msg(r) \in Message /\ Msg(r).role = r
<1>1. MaxCalls \in Nat
  BY LoopParameters
<1> QED
  BY <1>1 DEF Msg, Message

\* One sequence behind another.
LEMMA Joined ==
  ASSUME NEW S, NEW s \in Seq(S), NEW u \in Seq(S)
  PROVE  /\ s \o u \in Seq(S) /\ Len(s) \in Nat /\ Len(u) \in Nat /\ Len(s \o u) = Len(s) + Len(u)
         /\ \A i \in 1..Len(s) : (s \o u)[i] = s[i]
         /\ \A i \in 1..Len(u) : (s \o u)[Len(s) + i] = u[i]
<1>1. Len(s) \in Nat /\ Len(u) \in Nat
  OBVIOUS
<1>2. s \o u \in Seq(S) /\ Len(s \o u) = Len(s) + Len(u)
      /\ \A i \in 1..(Len(s) + Len(u)) : (s \o u)[i] = IF i <= Len(s) THEN s[i] ELSE u[i - Len(s)]
  BY ConcatProperties
<1>3. PICK a \in Nat, b \in Nat : a = Len(s) /\ b = Len(u)
  BY <1>1
<1>4. \A i \in 1..a : i \in 1..(a + b) /\ i <= a
  OBVIOUS
<1>5. \A i \in 1..b : a + i \in 1..(a + b) /\ ~(a + i <= a) /\ (a + i) - a = i
  OBVIOUS
<1> QED
  BY <1>1, <1>2, <1>3, <1>4, <1>5

\* The last k elements.
LEMMA EndOf ==
  ASSUME NEW S, NEW s \in Seq(S), NEW k \in Nat, k <= Len(s)
  PROVE  /\ SubSeq(s, Len(s) - k + 1, Len(s)) \in Seq(S)
         /\ Len(SubSeq(s, Len(s) - k + 1, Len(s))) = k
         /\ \A i \in 1..k : SubSeq(s, Len(s) - k + 1, Len(s))[i] = s[Len(s) - k + i]
<1>1. Len(s) \in Nat /\ \A i \in 1..Len(s) : s[i] \in S
  OBVIOUS
<1>2. PICK n \in Nat : n = Len(s)
  BY <1>1
<1>3. PICK f \in Nat : f = n - k + 1
  <2>1. n - k + 1 \in Nat
    BY <1>2
  <2> QED
    BY <2>1
<1>4. /\ n - f + 1 = k /\ (f <= n \/ k = 0)
      /\ (\A i \in f..n : i \in 1..n) /\ (\A i \in 1..k : f + i - 1 = n - k + i)
  BY <1>2, <1>3
<1>5. \A i \in f..n : s[i] \in S
  BY <1>1, <1>2, <1>4
<1>6. /\ SubSeq(s, f, n) \in Seq(S) /\ Len(SubSeq(s, f, n)) = (IF f <= n THEN n - f + 1 ELSE 0)
      /\ \A i \in 1..(n - f + 1) : SubSeq(s, f, n)[i] = s[f + i - 1]
  <2>1. f \in Int /\ n \in Int
    OBVIOUS
  <2> QED
    BY <1>5, <2>1, SubSeqProperties
<1>7. SubSeq(s, Len(s) - k + 1, Len(s)) = SubSeq(s, f, n)
  BY <1>2, <1>3
<1>8. PICK e : e = SubSeq(s, f, n)
  OBVIOUS
<1>9. e \in Seq(S) /\ Len(e) = k /\ \A i \in 1..k : e[i] = s[n - k + i]
  BY <1>4, <1>6, <1>8
<1> QED
  BY SMTT(30), <1>2, <1>7, <1>8, <1>9

\* Where the last k of the r elements kept are, before and after.
LEMMA Places ==
  ASSUME NEW M \in Nat, NEW r \in Nat, r <= M, NEW h \in {0, 1}, NEW k \in 0..r
  PROVE  /\ h + 1 + r \in Nat /\ k <= h + 1 + r /\ k <= M /\ k \in Nat
         /\ \A i \in 1..k : /\ (r - k + i) \in 1..r
                            /\ (h + 1 + r) - k + i = (h + 1) + (r - k + i)
                            /\ (M - r + 1) + (r - k + i) - 1 = M - k + i
  OBVIOUS

\* A conversation cut behind its head: the head, a note and an end of it.
LEMMA CutShort ==
  ASSUME NEW m \in Seq(Message), NEW h \in {0, 1}, h <= Len(m), NEW j \in 1..(Len(m) + 1), NEW t,
         t = SubSeq(m, 1, h) \o <<Msg("note")>> \o SubSeq(m, j, Len(m))
  PROVE  /\ t \in Seq(Message) /\ Len(t) = h + 1 + (Len(m) - j + 1)
         /\ h = 1 => t[1] = m[1]
         /\ \A k \in 0..(Len(m) - j + 1) :
              SubSeq(t, Len(t) - k + 1, Len(t)) = SubSeq(m, Len(m) - k + 1, Len(m))
<1> DEFINE a == SubSeq(m, 1, h)
           b == <<Msg("note")>>
           c == SubSeq(m, j, Len(m))
           ab == a \o b
<1>1. Len(m) \in Nat /\ j \in Nat /\ h \in Nat /\ DOMAIN m = 1..Len(m) /\ \A i \in 1..Len(m) : m[i] \in Message
  OBVIOUS
<1>2. a \in Seq(Message) /\ Len(a) = h /\ (h = 1 => a[1] = m[1])
  <2>1. \A i \in 1..h : m[i] \in Message
    BY <1>1
  <2>2. a \in Seq(Message) /\ Len(a) = (IF 1 <= h THEN h - 1 + 1 ELSE 0) /\ \A i \in 1..(h - 1 + 1) : a[i] = m[1 + i - 1]
    BY <1>1, <2>1, SubSeqProperties
  <2> HIDE DEF a
  <2>3. CASE h = 0
    BY <2>2, <2>3
  <2>4. CASE h = 1
    <3>1. 1 \in 1..(h - 1 + 1) /\ 1 + 1 - 1 = 1
      BY <2>4
    <3> QED
      BY <2>2, <2>4, <3>1
  <2> QED
    BY <2>3, <2>4
<1>3. b \in Seq(Message) /\ Len(b) = 1
  BY NotesAreMessages DEF Roles, System
<1>4. /\ c \in Seq(Message) /\ Len(c) = Len(m) - j + 1
      /\ \A i \in 1..(Len(m) - j + 1) : c[i] = m[j + i - 1]
  <2>1. \A i \in j..Len(m) : m[i] \in Message
    BY <1>1
  <2>2. c \in Seq(Message) /\ Len(c) = (IF j <= Len(m) THEN Len(m) - j + 1 ELSE 0) /\ \A i \in 1..(Len(m) - j + 1) : c[i] = m[j + i - 1]
    BY <1>1, <2>1, SubSeqProperties
  <2> HIDE DEF c
  <2>3. j <= Len(m) \/ Len(m) - j + 1 = 0
    BY <1>1
  <2> QED
    BY <2>2, <2>3
<1>5. ab \in Seq(Message) /\ Len(ab) = h + 1 /\ (h = 1 => ab[1] = m[1])
  <2> HIDE DEF a, b
  <2>1. ab \in Seq(Message) /\ Len(ab) = Len(a) + Len(b) /\ \A i \in 1..Len(a) : ab[i] = a[i]
    BY ZenonT(60), <1>2, <1>3, Joined
  <2>2. h = 1 => 1 \in 1..Len(a)
    BY <1>2
  <2> QED
    BY <1>2, <1>3, <2>1, <2>2
<1>6. t = ab \o c
  OBVIOUS
<1> HIDE DEF a, b, c, ab
<1>7. /\ t \in Seq(Message) /\ Len(t) = h + 1 + (Len(m) - j + 1)
      /\ \A i \in 1..(h + 1) : t[i] = ab[i]
      /\ \A i \in 1..(Len(m) - j + 1) : t[(h + 1) + i] = c[i]
  <2>1. /\ t \in Seq(Message) /\ Len(t) = Len(ab) + Len(c)
        /\ \A i \in 1..Len(ab) : t[i] = ab[i]
        /\ \A i \in 1..Len(c) : t[Len(ab) + i] = c[i]
    <3>1. ab \in Seq(Message) /\ c \in Seq(Message)
      BY <1>4, <1>5
    <3>2. /\ ab \o c \in Seq(Message) /\ Len(ab \o c) = Len(ab) + Len(c)
          /\ \A i \in 1..Len(ab) : (ab \o c)[i] = ab[i]
          /\ \A i \in 1..Len(c) : (ab \o c)[Len(ab) + i] = c[i]
      BY <3>1, Joined
    <3> QED
      BY <1>6, <3>2, Zenon
  <2> QED
    BY <1>4, <1>5, <2>1
<1>8. h = 1 => t[1] = m[1]
  <2>1. h = 1 => 1 \in 1..(h + 1)
    OBVIOUS
  <2> QED
    BY <1>5, <1>7, <2>1
<1>9. ASSUME NEW k \in 0..(Len(m) - j + 1)
      PROVE  SubSeq(t, Len(t) - k + 1, Len(t)) = SubSeq(m, Len(m) - k + 1, Len(m))
  <2>1. PICK M \in Nat, r \in Nat : M = Len(m) /\ r = Len(m) - j + 1 /\ r <= M /\ j = M - r + 1
    <3>1. PICK M \in Nat : M = Len(m)
      BY <1>1
    <3>2. M - j + 1 \in Nat /\ M - j + 1 <= M /\ j = M - (M - j + 1) + 1
      BY <1>1, <3>1
    <3> QED
      BY <3>1, <3>2
  <2>2. PICK T : T = h + 1 + r
    OBVIOUS
  <2>3. k \in 0..r
    BY <2>1
  <2>4. /\ T \in Nat /\ k <= T /\ k <= M /\ k \in Nat
        /\ \A i \in 1..k : (r - k + i) \in 1..r /\ T - k + i = (h + 1) + (r - k + i) /\ j + (r - k + i) - 1 = M - k + i
    BY <2>1, <2>2, <2>3, Places
  <2>5. Len(t) = T /\ t \in Seq(Message)
    BY <1>7, <2>1, <2>2
  <2>6. PICK x : x = SubSeq(t, T - k + 1, T)
    OBVIOUS
  <2>7. PICK y : y = SubSeq(m, M - k + 1, M)
    OBVIOUS
  <2>8. x \in Seq(Message) /\ Len(x) = k /\ \A i \in 1..k : x[i] = t[T - k + i]
    <3>1. PICK u \in Seq(Message) : u = t
      BY <2>5
    <3>2. Len(u) = T /\ k \in Nat /\ k <= Len(u)
      BY <2>4, <2>5, <3>1
    <3>3. /\ SubSeq(u, Len(u) - k + 1, Len(u)) \in Seq(Message)
          /\ Len(SubSeq(u, Len(u) - k + 1, Len(u))) = k
          /\ \A i \in 1..k : SubSeq(u, Len(u) - k + 1, Len(u))[i] = u[Len(u) - k + i]
      BY <3>2, EndOf
    <3> QED
      BY <2>6, <3>1, <3>2, <3>3, Zenon
  <2>9. y \in Seq(Message) /\ Len(y) = k /\ \A i \in 1..k : y[i] = m[M - k + i]
    BY <2>1, <2>4, <2>7, EndOf
  <2>10. ASSUME NEW i \in 1..k PROVE t[T - k + i] = m[M - k + i]
    <3>1. PICK q : q = r - k + i
      OBVIOUS
    <3>2. q \in 1..r /\ T - k + i = (h + 1) + q /\ j + q - 1 = M - k + i
      BY <2>4, <3>1
    <3>3. t[(h + 1) + q] = c[q] /\ c[q] = m[j + q - 1]
      BY <1>4, <1>7, <2>1, <3>2
    <3> QED
      BY <3>2, <3>3
  <2>11. x = y
    <3>1. \A i \in 1..Len(x) : x[i] = y[i]
      BY <2>8, <2>9, <2>10
    <3> QED
      BY <2>8, <2>9, <3>1, SeqEqual
  <2> QED
    BY <2>1, <2>5, <2>6, <2>7, <2>11
<1> QED
  BY <1>7, <1>8, <1>9

\* The extractive compactor.
LEMMA OldestKeeps ==
  ASSUME NEW m \in Seq(Message)
  PROVE  /\ Oldest(m) \in Seq(Message)
         /\ m # <<>> /\ m[1].role = "prompt" => Oldest(m)[1].role = "prompt"
         /\ Oldest(m) # m =>
              LET body == Len(m) - HeadLen(m)
                  k    == Len(Oldest(m)) - HeadLen(m) - 1
              IN  /\ k >= 1 /\ k <= Len(m) /\ k <= Len(Oldest(m))
                  /\ SubSeq(Oldest(m), Len(Oldest(m)) - k + 1, Len(Oldest(m))) = SubSeq(m, Len(m) - k + 1, Len(m))
                  /\ body - k = 1 \/ 10 * (body - k) <= 3 * body
<1>1. CASE Len(m) <= 2
  BY <1>1 DEF Oldest
<1>2. CASE ~(Len(m) <= 2)
  <2>1. PICK h \in {0, 1} : h = HeadLen(m)
    BY HeadLenIs
  <2> DEFINE n == Len(m) - h
             pct == (n * 30) \div 100
             cut == IF pct < 1 THEN 1 ELSE pct
             cut1 == IF cut >= n THEN n - 1 ELSE cut
             j == h + cut1 + 1
  <2>2. Oldest(m) = SubSeq(m, 1, h) \o <<Msg("note")>> \o SubSeq(m, j, Len(m))
    BY <1>2, <2>1 DEF Oldest
  <2>3. Len(m) \in Nat /\ Len(m) > 2 /\ h <= Len(m) /\ n \in Nat /\ n >= 2
    BY <1>2
  <2>4. pct \in Nat /\ 10 * pct <= 3 * n
    <3> HIDE DEF n
    <3> QED
      BY <2>3
  <2>5. cut1 \in Nat /\ cut1 >= 1 /\ cut1 <= n - 1 /\ (cut1 = 1 \/ 10 * cut1 <= 3 * n)
    <3> HIDE DEF n, pct
    <3> QED
      BY <2>3, <2>4
  <2> HIDE DEF cut1
  <2>6. /\ j \in 1..(Len(m) + 1) /\ Len(m) - j + 1 \in 0..(Len(m) - j + 1)
        /\ Len(m) - j + 1 = n - cut1
    BY <2>3, <2>5
  <2>15. n = Len(m) - h
    OBVIOUS
  <2> HIDE DEF j, n
  <2>7. PICK k : k = n - cut1
    OBVIOUS
  <2>13. /\ k \in Nat /\ k = Len(m) - j + 1
         /\ k >= 1 /\ k <= Len(m) /\ n - k = cut1 /\ n = Len(m) - h
    BY <2>3, <2>5, <2>6, <2>7, <2>15
  <2>8. PICK t : t = Oldest(m)
    OBVIOUS
  <2>9. /\ t \in Seq(Message) /\ Len(t) = h + 1 + (Len(m) - j + 1)
        /\ h = 1 => t[1] = m[1]
        /\ \A i \in 0..(Len(m) - j + 1) :
             SubSeq(t, Len(t) - i + 1, Len(t)) = SubSeq(m, Len(m) - i + 1, Len(m))
    <3>1. t = SubSeq(m, 1, h) \o <<Msg("note")>> \o SubSeq(m, j, Len(m))
      BY <2>2, <2>8
    <3>2. h <= Len(m) /\ j \in 1..(Len(m) + 1)
      BY <2>3, <2>6
    <3> QED
      BY ZenonT(60), <3>1, <3>2, CutShort
  <2>10. m # <<>> /\ m[1].role = "prompt" => h = 1
    BY <2>1, HeadLenIs
  <2>11. SubSeq(t, Len(t) - k + 1, Len(t)) = SubSeq(m, Len(m) - k + 1, Len(m))
    BY <2>6, <2>9, <2>13
  <2>12. Len(t) - h - 1 = k /\ k <= Len(t) /\ (n - k = 1 \/ 10 * (n - k) <= 3 * n)
    <3>1. Len(t) = h + 1 + k
      BY <2>9, <2>13
    <3>2. n - k = 1 \/ 10 * (n - k) <= 3 * n
      BY <2>5, <2>13
    <3> QED
      BY <2>13, <3>1, <3>2
  <2>14. LET body == Len(m) - HeadLen(m)
             q    == Len(t) - HeadLen(m) - 1
         IN  /\ q >= 1 /\ q <= Len(m) /\ q <= Len(t)
             /\ SubSeq(t, Len(t) - q + 1, Len(t)) = SubSeq(m, Len(m) - q + 1, Len(m))
             /\ body - q = 1 \/ 10 * (body - q) <= 3 * body
    BY <2>1, <2>11, <2>12, <2>13
  <2> QED
    BY <2>8, <2>9, <2>10, <2>14
<1> QED
  BY <1>1, <1>2

\* The summary.
LEMMA SummaryKeeps ==
  ASSUME NEW m \in Seq(Message), Summarizable(m)
  PROVE  /\ Summarized(m) \in Seq(Message)
         /\ m # <<>> /\ m[1].role = "prompt" => Summarized(m)[1].role = "prompt"
         /\ KeepLast <= Len(m) /\ KeepLast <= Len(Summarized(m))
         /\ SubSeq(Summarized(m), Len(Summarized(m)) - KeepLast + 1, Len(Summarized(m)))
              = SubSeq(m, Len(m) - KeepLast + 1, Len(m))
<1>1. PICK h \in {0, 1} : h = HeadLen(m)
  BY HeadLenIs
<1>2. PICK t : t = Summarized(m)
  OBVIOUS
<1>3. PICK j : j = Len(m) - KeepLast + 1
  OBVIOUS
<1>4. /\ KeepLast \in Nat /\ KeepLast > 0 /\ Len(m) \in Nat /\ Len(m) > KeepLast + 1
      /\ j \in 1..(Len(m) + 1) /\ Len(m) - j + 1 = KeepLast /\ h <= Len(m)
  <2>1. KeepLast \in Nat /\ KeepLast > 0
    BY LoopParameters
  <2>2. Len(m) \in Nat /\ Len(m) > KeepLast + 1
    BY DEF Summarizable
  <2> QED
    BY <1>3, <2>1, <2>2
<1>5. t = SubSeq(m, 1, h) \o <<Msg("note")>> \o SubSeq(m, j, Len(m))
  BY <1>1, <1>2, <1>3 DEF Summarized
<1>6. /\ t \in Seq(Message) /\ Len(t) = h + 1 + (Len(m) - j + 1)
      /\ h = 1 => t[1] = m[1]
      /\ \A k \in 0..(Len(m) - j + 1) :
           SubSeq(t, Len(t) - k + 1, Len(t)) = SubSeq(m, Len(m) - k + 1, Len(m))
  BY ZenonT(60), <1>4, <1>5, CutShort
<1>7. m # <<>> /\ m[1].role = "prompt" => h = 1
  BY <1>1, HeadLenIs
<1>8. KeepLast \in 0..(Len(m) - j + 1) /\ KeepLast <= Len(t) /\ KeepLast <= Len(m)
  <2>1. Len(t) = h + 1 + KeepLast
    BY <1>4, <1>6
  <2> QED
    BY <1>4, <2>1
<1> QED
  BY <1>2, <1>6, <1>7, <1>8

LEMMA OpeningIs ==
  ASSUME NEW prompt \in BOOLEAN
  PROVE  Opening(prompt) \in Seq(Message) /\ (prompt => Opening(prompt)[1].role = "prompt")
<1>1. Msg("prompt") \in Message /\ Msg("user") \in Message /\ Msg("plan") \in Message /\ Msg("prompt").role = "prompt"
  BY NotesAreMessages DEF Roles, System
<1> DEFINE a == IF prompt THEN <<Msg("prompt")>> ELSE <<>>
           b == <<Msg("user")>>
           c == IF policy = "none" /\ mode = "plan" THEN <<Msg("plan")>> ELSE <<>>
<1>2. a \in Seq(Message) /\ b \in Seq(Message) /\ c \in Seq(Message) /\ Len(b) = 1
      /\ (prompt => Len(a) = 1 /\ a[1] = Msg("prompt"))
  BY <1>1
<1>3. Opening(prompt) = (a \o b) \o c
  BY DEF Opening
<1> HIDE DEF a, b, c
<1>4. a \o b \in Seq(Message) /\ Len(a \o b) = Len(a) + Len(b) /\ \A i \in 1..Len(a) : (a \o b)[i] = a[i]
  BY <1>2, Joined
<1>5. (a \o b) \o c \in Seq(Message) /\ \A i \in 1..Len(a \o b) : ((a \o b) \o c)[i] = (a \o b)[i]
  BY <1>2, <1>4, Joined
<1>6. prompt => ((a \o b) \o c)[1] = Msg("prompt")
  <2> SUFFICES ASSUME prompt PROVE ((a \o b) \o c)[1] = Msg("prompt")
    OBVIOUS
  <2>1. 1 \in 1..Len(a) /\ 1 \in 1..Len(a \o b)
    BY <1>2, <1>4
  <2> QED
    BY <1>2, <1>4, <1>5, <2>1
<1> QED
  BY <1>1, <1>3, <1>5, <1>6

----------------------------------------------------------------------------
(* The inductive invariant.                                                 *)

Busy == {"check", "ask", "exec", "result"}

\* Between two runs nothing is left; in a turn there is a step to spare and a
\* call to run, not tried yet where the user is asked, whose attempts are not used up.
RunShape ==
  /\ pc = "idle" => msgs = <<>>
  /\ pc \notin {"idle", "top"} => step < MaxSteps
  /\ pc \in Busy => calls > 0
  /\ pc = "ask" => tries = 0
  /\ pc = "exec" => tries < MaxTries

\* A call is open while it is being run, and after a kill the one that was.
Attempted == pc \in {"exec", "result"} /\ tries > 0

OpenCounted ==
  /\ Attempted => open > 0
  /\ IF Attempted \/ pc = "idle" THEN open <= 1 + missed ELSE open <= missed

\* Nobody is asked, and nothing approved, without a ruleset that asks; and in
\* plan mode the call that was let through before is the only one.
OnlyAsked == policy # "ask" => ~approved /\ pc # "ask"

OneWrite ==
  policy = "none" =>
    /\ mode = "build" => writes = 0
    /\ writes <= 1
    /\ pc = "exec" /\ tool = "shell" /\ tries = 0 => writes = 0

LoopInv == TypeOK /\ RunShape /\ RecordBeforeExecute /\ OpenCounted /\ OnlyAsked /\ OneWrite

LEMMA Numbers ==
  /\ MaxSteps \in Nat /\ MaxCalls \in Nat /\ KeepLast \in Nat /\ MaxHeals \in Nat /\ MaxTries \in Nat
  /\ MaxFlips \in Nat /\ MaxMissed \in Nat /\ MaxTries > 0 /\ KeepLast > 0
BY LoopParameters

LEMMA MessagesTyped == TypeOK => msgs \in Seq(Message)
BY DEF TypeOK, Message

LEMMA PersistCounts ==
  ASSUME TypeOK, Persist
  PROVE  missed' \in 0..MaxMissed /\ missed \in Nat /\ missed' \in Nat /\ missed <= missed'
BY Numbers DEF TypeOK, Persist

LEMMA EndInv ==
  ASSUME LoopInv, End, UNCHANGED env, UNCHANGED <<open, writes>>, row' \in BOOLEAN,
         missed' = missed \/ Persist
  PROVE  LoopInv'
<1>1. /\ pc' = "idle" /\ msgs' = <<>> /\ step' = 0 /\ heals' = 0 /\ calls' = 0 /\ tries' = 0 /\ tool' = "read"
      /\ streams' = streams /\ policy' = policy /\ mode' = mode /\ approved' = approved /\ flips' = flips
      /\ open' = open /\ writes' = writes
  BY DEF End, env
<1>2. missed' \in 0..MaxMissed /\ missed \in Nat /\ missed' \in Nat /\ missed <= missed'
  BY PersistCounts DEF LoopInv, TypeOK
<1>3. TypeOK'
  BY <1>1, <1>2, Numbers DEF LoopInv, TypeOK, PCs, Tools
<1>4. RunShape' /\ RecordBeforeExecute'
  BY <1>1 DEF RunShape, RecordBeforeExecute, Busy
<1>5. OpenCounted'
  <2>1. open \in Nat /\ open <= 1 + missed
    BY <1>2 DEF LoopInv, TypeOK, OpenCounted
  <2>2. open' <= 1 + missed'
    <3>1. open' = open
      BY <1>1
    <3>2. missed \in Nat /\ missed' \in Nat /\ missed <= missed'
      BY <1>2
    <3>3. \A o, a, b \in Nat : o <= 1 + a /\ a <= b => o <= 1 + b
      OBVIOUS
    <3> QED
      BY <2>1, <3>1, <3>2, <3>3, Zenon
  <2>3. ~Attempted'
    BY <1>1 DEF Attempted
  <2> QED
    BY <1>1, <2>2, <2>3 DEF OpenCounted, Attempted
<1>6. OnlyAsked' /\ OneWrite'
  BY <1>1 DEF LoopInv, OnlyAsked, OneWrite
<1> QED
  BY <1>3, <1>4, <1>5, <1>6 DEF LoopInv

\* Steps that neither run a call nor end the run: what was open stays.
LEMMA TurnInv ==
  ASSUME LoopInv, TypeOK', RunShape', RecordBeforeExecute', pc # "idle", ~Attempted, ~Attempted', pc' # "idle",
         UNCHANGED <<policy, mode, approved, open, writes>>, pc' # "ask",
         pc' = "exec" /\ tool' = "shell" => policy # "none" \/ mode = "build",
         missed' = missed \/ Persist
  PROVE  LoopInv'
<1>1. missed' \in 0..MaxMissed /\ missed \in Nat /\ missed' \in Nat /\ missed <= missed'
  BY PersistCounts DEF LoopInv, TypeOK
<1>2. OpenCounted'
  <2>1. open \in Nat /\ open <= missed
    BY DEF LoopInv, TypeOK, OpenCounted
  <2>2. open' <= missed'
    BY <1>1, <2>1
  <2> QED
    BY <2>2 DEF OpenCounted, Attempted
<1>3. OnlyAsked' /\ OneWrite'
  BY DEF LoopInv, OnlyAsked, OneWrite
<1> QED
  BY <1>2, <1>3 DEF LoopInv

LEMMA BeginInv ==
  ASSUME LoopInv, NEW s \in BOOLEAN, NEW prompt \in BOOLEAN, Begin(s, prompt)
  PROVE  LoopInv'
<1>1. /\ pc = "idle" /\ pc' = "top" /\ streams' = s /\ msgs' = Opening(prompt) /\ Persist
      /\ row' = FALSE /\ open' = 0 /\ flips' = 0 /\ writes' = 0
      /\ policy' = policy /\ mode' = mode /\ approved' = approved /\ step' = step /\ heals' = heals
      /\ calls' = calls /\ tool' = tool /\ tries' = tries
  BY DEF Begin
<1>2. missed' \in 0..MaxMissed /\ missed \in Nat /\ missed' \in Nat /\ missed <= missed'
  BY <1>1, PersistCounts DEF LoopInv
<1>3. TypeOK'
  <2>1. msgs' \in Seq([role : Roles, n : 0..MaxCalls])
    BY <1>1, OpeningIs DEF Message
  <2>2. 0 \in 0..MaxFlips
    BY Numbers
  <2> QED
    BY <1>1, <1>2, <2>1, <2>2 DEF LoopInv, TypeOK, PCs
<1>4. RunShape' /\ RecordBeforeExecute' /\ OnlyAsked' /\ OneWrite'
  BY <1>1 DEF LoopInv, RunShape, RecordBeforeExecute, Busy, OnlyAsked, OneWrite
<1>5. OpenCounted'
  BY <1>1, <1>2 DEF OpenCounted, Attempted
<1> QED
  BY <1>3, <1>4, <1>5 DEF LoopInv

\* What the compactors leave is a conversation.
LEMMA CompactTyped ==
  ASSUME TypeOK, Compact \/ Heal
  PROVE  msgs' \in Seq([role : Roles, n : 0..MaxCalls])
<1>1. msgs \in Seq(Message)
  BY MessagesTyped
<1>2. msgs' = msgs \/ msgs' = Oldest(msgs) \/ (Summarizable(msgs) /\ msgs' = Summarized(msgs))
  BY DEF Compact, Untouched, Summarise, FallBack, Heal
<1>3. msgs' \in Seq(Message)
  BY <1>1, <1>2, OldestKeeps, SummaryKeeps
<1> QED
  BY <1>3 DEF Message

LEMMA CompactInv ==
  ASSUME LoopInv, Compact
  PROVE  LoopInv'
<1>1. /\ pc = "top" /\ step < MaxSteps /\ pc' = "query" /\ (missed' = missed \/ Persist)
      /\ policy' = policy /\ mode' = mode /\ approved' = approved /\ flips' = flips /\ streams' = streams
      /\ step' = step /\ heals' = heals /\ calls' = calls /\ tool' = tool /\ tries' = tries
      /\ row' = row /\ open' = open /\ writes' = writes
  BY DEF Compact, CompactStep, Untouched, Summarise, FallBack, env
<1>2. msgs' \in Seq([role : Roles, n : 0..MaxCalls])
  BY CompactTyped DEF LoopInv
<1>3. missed' \in 0..MaxMissed
  BY <1>1, PersistCounts DEF LoopInv, TypeOK
<1>4. TypeOK' /\ RunShape' /\ RecordBeforeExecute'
  BY <1>1, <1>2, <1>3 DEF LoopInv, TypeOK, PCs, RunShape, RecordBeforeExecute, Busy
<1> QED
  BY <1>1, <1>4, TurnInv DEF Attempted

LEMMA HealInv ==
  ASSUME LoopInv, Heal
  PROVE  LoopInv'
<1>1. /\ pc = "query" /\ pc' = "top" /\ heals < MaxHeals /\ heals' = heals + 1
      /\ policy' = policy /\ mode' = mode /\ approved' = approved /\ flips' = flips /\ streams' = streams
      /\ step' = step /\ calls' = calls /\ tool' = tool /\ tries' = tries
      /\ row' = row /\ open' = open /\ missed' = missed /\ writes' = writes
  BY DEF Heal, Healed, env, hist
<1>2. msgs' \in Seq([role : Roles, n : 0..MaxCalls])
  BY CompactTyped DEF LoopInv
<1>3. heals' \in 0..MaxHeals
  BY <1>1, Numbers DEF LoopInv, TypeOK
<1>4. TypeOK' /\ RunShape' /\ RecordBeforeExecute'
  BY <1>1, <1>2, <1>3 DEF LoopInv, TypeOK, PCs, RunShape, RecordBeforeExecute, Busy
<1> QED
  BY <1>1, <1>4, TurnInv DEF Attempted

LEMMA DegradeInv ==
  ASSUME LoopInv, Degrade
  PROVE  LoopInv'
<1>1. /\ pc = "query" /\ pc' = "top" /\ streams' = FALSE /\ Persist
      /\ policy' = policy /\ mode' = mode /\ approved' = approved /\ flips' = flips
      /\ step' = step /\ heals' = heals /\ calls' = calls /\ tool' = tool /\ tries' = tries
      /\ row' = row /\ open' = open /\ writes' = writes
  BY DEF Degrade, env
<1>2. msgs' \in Seq([role : Roles, n : 0..MaxCalls])
  <2>1. PICK prompt \in BOOLEAN : msgs' = Opening(prompt)
    BY DEF Degrade
  <2> QED
    BY <2>1, OpeningIs DEF Message
<1>3. missed' \in 0..MaxMissed
  BY <1>1, PersistCounts DEF LoopInv, TypeOK
<1>4. TypeOK' /\ RunShape' /\ RecordBeforeExecute'
  BY <1>1, <1>2, <1>3 DEF LoopInv, TypeOK, PCs, RunShape, RecordBeforeExecute, Busy
<1> QED
  BY <1>1, <1>4, TurnInv DEF Attempted

LEMMA AnswerInv ==
  ASSUME LoopInv, NEW n \in 0..MaxCalls, Answer(n)
  PROVE  LoopInv'
<1>1. /\ pc = "query" /\ pc' = "turn" /\ msgs' = Append(msgs, [role |-> "asst", n |-> n]) /\ calls' = n
      /\ policy' = policy /\ mode' = mode /\ approved' = approved /\ flips' = flips /\ streams' = streams
      /\ step' = step /\ heals' = heals /\ tool' = tool /\ tries' = tries
      /\ row' = row /\ open' = open /\ missed' = missed /\ writes' = writes
  BY DEF Answer, Answered, env, hist
<1>2. msgs' \in Seq([role : Roles, n : 0..MaxCalls])
  <2>1. [role |-> "asst", n |-> n] \in [role : Roles, n : 0..MaxCalls]
    BY DEF Roles
  <2>2. msgs \in Seq([role : Roles, n : 0..MaxCalls])
    BY DEF LoopInv, TypeOK
  <2> QED
    BY <1>1, <2>1, <2>2, AppendProperties
<1>3. TypeOK' /\ RunShape' /\ RecordBeforeExecute'
  BY <1>1, <1>2 DEF LoopInv, TypeOK, PCs, RunShape, RecordBeforeExecute, Busy
<1> QED
  BY <1>1, <1>3, TurnInv DEF Attempted

LEMMA RecordTurnInv ==
  ASSUME LoopInv, RecordTurn
  PROVE  LoopInv'
<1>1. CASE calls = 0
  <2>1. End /\ row' = FALSE /\ Persist /\ UNCHANGED env /\ UNCHANGED <<open, writes>>
    BY <1>1 DEF RecordTurn
  <2> QED
    BY <2>1, EndInv
<1>2. CASE calls # 0
  <2>1. /\ pc = "turn" /\ pc' = "check" /\ row' = TRUE /\ Persist
        /\ policy' = policy /\ mode' = mode /\ approved' = approved /\ flips' = flips /\ streams' = streams
        /\ msgs' = msgs /\ step' = step /\ heals' = heals /\ calls' = calls /\ tool' = tool /\ tries' = tries
        /\ open' = open /\ writes' = writes
    BY <1>2 DEF RecordTurn, env, local
  <2>2. missed' \in 0..MaxMissed
    BY <2>1, PersistCounts DEF LoopInv
  <2>3. calls > 0
    BY <1>2, Numbers DEF LoopInv, TypeOK
  <2>4. TypeOK' /\ RunShape' /\ RecordBeforeExecute'
    BY <2>1, <2>2, <2>3 DEF LoopInv, TypeOK, PCs, RunShape, RecordBeforeExecute, Busy
  <2> QED
    BY <2>1, <2>4, TurnInv DEF Attempted
<1> QED
  BY <1>1, <1>2

LEMMA CheckInv ==
  ASSUME LoopInv, NEW t \in Tools, Check(t)
  PROVE  LoopInv'
<1>1. /\ pc = "check" /\ tool' = t /\ tries' = 0
      /\ pc' \in {"result", "ask", "exec"}
      /\ pc' = "ask" => Verdict(t) = "ask"
      /\ pc' = "exec" => Verdict(t) = "allow"
      /\ policy' = policy /\ mode' = mode /\ approved' = approved /\ flips' = flips /\ streams' = streams
      /\ msgs' = msgs /\ step' = step /\ heals' = heals /\ calls' = calls
      /\ row' = row /\ open' = open /\ missed' = missed /\ writes' = writes
  BY DEF Check, env, hist
<1>2. TypeOK' /\ RunShape' /\ RecordBeforeExecute'
  BY <1>1, Numbers DEF LoopInv, TypeOK, PCs, RunShape, RecordBeforeExecute, Busy
<1>3. OpenCounted'
  <2>1. open \in Nat /\ open <= missed
    BY <1>1 DEF LoopInv, TypeOK, OpenCounted, Attempted
  <2> QED
    BY <1>1, <2>1 DEF OpenCounted, Attempted
<1>4. /\ Verdict(t) = "ask" => policy = "ask"
      /\ Verdict(t) = "allow" /\ t = "shell" /\ policy = "none" /\ ~approved => mode = "build"
  BY KnownPolicies DEF LoopInv, TypeOK, Verdict, Tools
<1>5. OnlyAsked'
  BY <1>1, <1>4 DEF LoopInv, OnlyAsked
<1>6. OneWrite'
  BY <1>1, <1>4 DEF LoopInv, OnlyAsked, OneWrite
<1> QED
  BY <1>2, <1>3, <1>5, <1>6 DEF LoopInv

LEMMA ResolveInv ==
  ASSUME LoopInv, Resolve
  PROVE  LoopInv'
<1>1. /\ pc = "ask" /\ pc' \in {"exec", "result"} /\ approved' \in BOOLEAN
      /\ policy' = policy /\ mode' = mode /\ flips' = flips /\ streams' = streams
      /\ msgs' = msgs /\ step' = step /\ heals' = heals /\ calls' = calls /\ tool' = tool /\ tries' = tries
      /\ row' = row /\ open' = open /\ missed' = missed /\ writes' = writes
  BY DEF Resolve, local, hist, LoopInv, TypeOK
<1>2. policy = "ask"
  BY <1>1 DEF LoopInv, OnlyAsked
<1>3. TypeOK' /\ RunShape' /\ RecordBeforeExecute'
  <2>1. tries' = 0 /\ 0 < MaxTries
    BY <1>1, Numbers DEF LoopInv, RunShape
  <2> QED
    BY <1>1, <2>1 DEF LoopInv, TypeOK, PCs, RunShape, RecordBeforeExecute, Busy
<1>4. OpenCounted' /\ OnlyAsked' /\ OneWrite'
  <2>1. tries = 0 /\ open <= missed
    BY <1>1 DEF LoopInv, RunShape, OpenCounted, Attempted
  <2> QED
    BY <1>1, <1>2, <2>1 DEF OpenCounted, Attempted, OnlyAsked, OneWrite
<1> QED
  BY <1>3, <1>4 DEF LoopInv

LEMMA AttemptInv ==
  ASSUME LoopInv, Attempt
  PROVE  LoopInv'
<1>1. /\ pc = "exec" /\ tries' = tries + 1 /\ pc' \in {"result", "exec"}
      /\ pc' = "exec" => tries' < MaxTries
      /\ open' = (IF tries = 0 THEN open + 1 ELSE open)
      /\ writes' = (IF tries = 0 /\ tool = "shell" /\ mode = "plan" THEN writes + 1 ELSE writes)
      /\ policy' = policy /\ mode' = mode /\ approved' = approved /\ flips' = flips /\ streams' = streams
      /\ msgs' = msgs /\ step' = step /\ heals' = heals /\ calls' = calls /\ tool' = tool
      /\ row' = row /\ missed' = missed
  BY DEF Attempt, Again, env
<1>2. tries \in Nat /\ tries < MaxTries /\ open \in Nat /\ writes \in Nat /\ missed \in Nat
  BY <1>1, Numbers DEF LoopInv, TypeOK, RunShape
<1>3. tries' \in 0..MaxTries /\ tries' > 0 /\ open' \in Nat /\ writes' \in Nat
  BY <1>1, <1>2, Numbers
<1>4. TypeOK'
  BY <1>1, <1>3 DEF LoopInv, TypeOK, PCs
<1>5. RunShape' /\ RecordBeforeExecute'
  BY <1>1 DEF LoopInv, RunShape, RecordBeforeExecute, Busy
<1>6. OpenCounted'
  <2>1. Attempted'
    BY <1>1, <1>3 DEF Attempted
  <2>2. CASE tries = 0
    <3>1. open <= missed /\ open' = open + 1
      BY <1>1, <2>2 DEF LoopInv, OpenCounted, Attempted
    <3> QED
      BY <1>1, <1>2, <2>1, <3>1 DEF OpenCounted
  <2>3. CASE tries # 0
    <3>1. Attempted
      BY <1>1, <1>2, <2>3 DEF Attempted
    <3>2. open > 0 /\ open <= 1 + missed /\ open' = open
      BY <1>1, <2>3, <3>1 DEF LoopInv, OpenCounted
    <3> QED
      BY <1>1, <2>1, <3>2 DEF OpenCounted
  <2> QED
    BY <2>2, <2>3
<1>7. OnlyAsked'
  BY <1>1 DEF LoopInv, OnlyAsked
<1>8. OneWrite'
  <2> SUFFICES ASSUME policy = "none"
               PROVE  (mode = "build" => writes' = 0) /\ writes' <= 1
    BY <1>1, <1>2, <1>3 DEF OneWrite
  <2>1. /\ mode = "build" => writes = 0
        /\ writes <= 1 /\ (tool = "shell" /\ tries = 0 => writes = 0)
    BY <1>1 DEF LoopInv, OneWrite
  <2> QED
    BY <1>1, <1>2, <2>1
<1> QED
  BY <1>4, <1>5, <1>6, <1>7, <1>8 DEF LoopInv

LEMMA CancelledInv ==
  ASSUME LoopInv, Cancelled
  PROVE  LoopInv'
<1>1. /\ pc = "exec" /\ pc' = "result"
      /\ policy' = policy /\ mode' = mode /\ approved' = approved /\ flips' = flips /\ streams' = streams
      /\ msgs' = msgs /\ step' = step /\ heals' = heals /\ calls' = calls /\ tool' = tool /\ tries' = tries
      /\ row' = row /\ open' = open /\ missed' = missed /\ writes' = writes
  BY DEF Cancelled, env, local, hist
<1> QED
  BY <1>1 DEF LoopInv, TypeOK, PCs, RunShape, RecordBeforeExecute, Busy, OpenCounted, Attempted, OnlyAsked, OneWrite

LEMMA RecordResultInv ==
  ASSUME LoopInv, RecordResult
  PROVE  LoopInv'
<1>1. /\ pc = "result" /\ msgs' = Append(msgs, Msg("tool")) /\ Persist
      /\ open' = (IF tries > 0 /\ missed' = missed THEN open - 1 ELSE open)
      /\ calls' = calls - 1
      /\ \/ calls = 1 /\ pc' = "top" /\ step' = step + 1 /\ row' = FALSE
         \/ calls # 1 /\ pc' = "check" /\ step' = step /\ row' = row
      /\ policy' = policy /\ mode' = mode /\ approved' = approved /\ flips' = flips /\ streams' = streams
      /\ heals' = heals /\ tool' = tool /\ tries' = tries /\ writes' = writes
  BY DEF RecordResult, Advance, Settled, env
<1>2. missed' \in 0..MaxMissed /\ missed \in Nat /\ (missed' = missed \/ missed' = missed + 1)
  BY <1>1, PersistCounts DEF LoopInv, Persist
<1>3. calls \in 1..MaxCalls /\ step \in Nat /\ step < MaxSteps /\ tries \in Nat /\ open \in Nat
  BY <1>1, Numbers DEF LoopInv, TypeOK, RunShape, Busy
<1>4. open' \in Nat /\ open' <= missed'
  <2>1. CASE tries > 0
    <3>1. Attempted
      BY <1>1, <2>1 DEF Attempted
    <3>2. open > 0 /\ open <= 1 + missed
      BY <3>1 DEF LoopInv, OpenCounted
    <3> QED
      BY <1>1, <1>2, <1>3, <2>1, <3>2
  <2>2. CASE ~(tries > 0)
    <3>1. open <= missed
      BY <1>1, <2>2 DEF LoopInv, OpenCounted, Attempted
    <3> QED
      BY <1>1, <1>2, <1>3, <2>2, <3>1
  <2> QED
    BY <2>1, <2>2
<1>5. msgs' \in Seq([role : Roles, n : 0..MaxCalls])
  <2>1. Msg("tool") \in [role : Roles, n : 0..MaxCalls]
    BY Numbers DEF Msg, Roles
  <2>2. msgs \in Seq([role : Roles, n : 0..MaxCalls])
    BY DEF LoopInv, TypeOK
  <2> QED
    BY <1>1, <2>1, <2>2, AppendProperties
<1>6. calls' \in 0..MaxCalls /\ step' \in 0..MaxSteps /\ (pc' = "check" => calls' > 0)
  BY <1>1, <1>3, Numbers
<1>7. TypeOK'
  BY <1>1, <1>2, <1>4, <1>5, <1>6 DEF LoopInv, TypeOK, PCs
<1>8. RunShape' /\ RecordBeforeExecute'
  <2>1. RunShape'
    <3>1. pc' = "check" => step' < MaxSteps
      BY <1>1, <1>3
    <3> QED
      BY <1>1, <1>6, <3>1 DEF RunShape, Busy
  <2>2. RecordBeforeExecute'
    <3>1. row
      BY <1>1 DEF LoopInv, RecordBeforeExecute
    <3>2. pc' \in {"check", "ask", "exec", "result"} => row' = row
      BY <1>1
    <3> QED
      BY <3>1, <3>2, Zenon DEF RecordBeforeExecute
  <2> QED
    BY <2>1, <2>2
<1>9. OpenCounted'
  BY <1>1, <1>4 DEF OpenCounted, Attempted
<1>10. OnlyAsked' /\ OneWrite'
  BY <1>1 DEF LoopInv, OnlyAsked, OneWrite
<1> QED
  BY <1>7, <1>8, <1>9, <1>10 DEF LoopInv

LEMMA SetModeInv ==
  ASSUME LoopInv, NEW m \in {"plan", "build"}, SetMode(m)
  PROVE  LoopInv'
<1>1. /\ mode' = m /\ flips < MaxFlips /\ flips' = flips + 1 /\ writes' = 0
      /\ pc' = pc /\ policy' = policy /\ approved' = approved /\ streams' = streams
      /\ msgs' = msgs /\ step' = step /\ heals' = heals /\ calls' = calls /\ tool' = tool /\ tries' = tries
      /\ row' = row /\ open' = open /\ missed' = missed
  BY DEF SetMode, local
<1>2. flips' \in 0..MaxFlips
  BY <1>1, Numbers DEF LoopInv, TypeOK
<1> QED
  BY <1>1, <1>2 DEF LoopInv, TypeOK, RunShape, RecordBeforeExecute, Busy, OpenCounted, Attempted, OnlyAsked, OneWrite

LEMMA LoopNextInv == LoopInv /\ [Next]_vars => LoopInv'
<1> SUFFICES ASSUME LoopInv, [Next]_vars PROVE LoopInv'
  OBVIOUS
<1>1. CASE UNCHANGED vars
  BY <1>1 DEF LoopInv, TypeOK, RunShape, RecordBeforeExecute, Busy, OpenCounted, Attempted, OnlyAsked, OneWrite,
              vars, env, local, hist
<1>2. CASE OutOfSteps \/ Fail \/ Crash
  <2>1. End /\ UNCHANGED env /\ UNCHANGED <<row, open, missed, writes>>
    BY <1>2 DEF OutOfSteps, Fail, Crash, hist
  <2>2. row' \in BOOLEAN
    BY <2>1 DEF LoopInv, TypeOK
  <2> QED
    BY <2>1, <2>2, EndInv
<1> QED
  BY <1>1, <1>2, BeginInv, CompactInv, HealInv, DegradeInv, AnswerInv, RecordTurnInv, CheckInv, ResolveInv,
     AttemptInv, CancelledInv, RecordResultInv, SetModeInv DEF Next, RunStep

LEMMA LoopInitInv == Init => LoopInv
<1> SUFFICES ASSUME Init PROVE LoopInv
  OBVIOUS
<1>1. 0 \in 0..MaxSteps /\ 0 \in 0..MaxHeals /\ 0 \in 0..MaxCalls /\ 0 \in 0..MaxTries /\ 0 \in 0..MaxMissed /\ 0 \in 0..MaxFlips
  BY Numbers
<1>2. TypeOK
  <2>1. <<>> \in Seq([role : Roles, n : 0..MaxCalls])
    OBVIOUS
  <2>2. step \in 0..MaxSteps /\ heals \in 0..MaxHeals /\ calls \in 0..MaxCalls /\ tries \in 0..MaxTries /\ missed \in 0..MaxMissed /\ flips \in 0..MaxFlips
    BY <1>1 DEF Init
  <2> QED
    BY <2>1, <2>2 DEF Init, TypeOK, PCs, Tools
<1> QED
  BY <1>2 DEF Init, LoopInv, RunShape, RecordBeforeExecute, Busy, OpenCounted, Attempted, OnlyAsked, OneWrite

\* The invariant holds of react.go, stream.go and what they call, for every
\* number of steps, calls, attempts, mode switches and rows the store fails to
\* write, through kills at any moment.
THEOREM LoopInductive == Spec => []LoopInv
BY LoopInitInv, LoopNextInv, PTL DEF Spec

\* The loop's counters stay within its limits: steps, heals, calls of a step and
\* attempts of a call.
THEOREM TypesKept == Spec => []TypeOK
<1>1. LoopInv => TypeOK
  BY DEF LoopInv
<1> QED
  BY <1>1, LoopInductive, PTL

\* Nothing is executed whose answer is not recorded, one executed call at most
\* has no result beside the rows that were missed, and a switch to plan mode
\* lets one mutating call through at most.
THEOREM ExecutedRightlyAlways == Spec => []ExecutedRightly
<1>1. LoopInv => ExecutedRightly
  <2> SUFFICES ASSUME LoopInv PROVE OneOpenCall
    BY DEF LoopInv, ExecutedRightly, OneWrite, PlanStopsWrites
  <2>1. open \in Nat /\ missed \in Nat
    BY Numbers DEF LoopInv, TypeOK
  <2> QED
    BY <2>1 DEF LoopInv, OpenCounted, OneOpenCall
<1> QED
  BY <1>1, LoopInductive, PTL

----------------------------------------------------------------------------
(* What a step leaves of the conversation.                                  *)

\* A conversation grows at its end, is compacted, or begins or ends.
LEMMA PromptStays ==
  ASSUME LoopInv, [Next]_vars, msgs # <<>>, msgs[1].role = "prompt", msgs' # <<>>
  PROVE  msgs'[1].role = "prompt"
<1>1. msgs \in Seq(Message) /\ (msgs = <<>> <=> ~(msgs # <<>>))
  BY MessagesTyped DEF LoopInv
<1>2. CASE msgs' = msgs
  BY <1>2
<1>3. ASSUME NEW e \in Message, msgs' = Append(msgs, e) PROVE msgs'[1] = msgs[1]
  <2>1. Len(msgs) \in Nat /\ Len(msgs) > 0
    BY <1>1
  <2>2. 1 \in 1..Len(msgs)
    BY <2>1
  <2> QED
    BY <1>1, <1>3, <2>2, AppendProperties
<1>4. ASSUME NEW s \in BOOLEAN, NEW prompt \in BOOLEAN PROVE ~Begin(s, prompt)
  BY DEF LoopInv, RunShape, Begin
<1>5. CASE Compact \/ Heal
  <2>1. msgs' = msgs \/ msgs' = Oldest(msgs) \/ (Summarizable(msgs) /\ msgs' = Summarized(msgs))
    BY <1>5 DEF Compact, Untouched, Summarise, FallBack, Heal
  <2> QED
    BY <1>1, <2>1, OldestKeeps, SummaryKeeps
<1>6. CASE Degrade
  <2>1. PICK prompt \in BOOLEAN : (prompt <=> msgs[1].role = "prompt") /\ msgs' = Opening(prompt)
    BY <1>6 DEF Degrade
  <2> QED
    BY <2>1, OpeningIs
<1>7. End => msgs' = <<>>
  BY DEF End
<1>8. OutOfSteps \/ Fail \/ Crash => msgs' = <<>>
  BY <1>7 DEF OutOfSteps, Fail, Crash
<1>9. ASSUME NEW n \in 0..MaxCalls, Answer(n) PROVE msgs'[1] = msgs[1]
  <2>1. [role |-> "asst", n |-> n] \in Message /\ msgs' = Append(msgs, [role |-> "asst", n |-> n])
    BY <1>9 DEF Answer, Message, Roles
  <2> QED
    BY <1>3, <2>1
<1>10. RecordTurn => msgs' = <<>> \/ msgs' = msgs
  BY <1>7 DEF RecordTurn, local
<1>11. ASSUME NEW t \in Tools, Check(t) PROVE msgs' = msgs
  BY <1>11 DEF Check
<1>12. Resolve \/ Attempt \/ Cancelled => msgs' = msgs
  BY DEF Resolve, Attempt, Cancelled, local
<1>13. RecordResult => msgs'[1] = msgs[1]
  <2>1. Msg("tool") \in Message
    BY NotesAreMessages DEF Roles
  <2> QED
    BY <1>3, <2>1 DEF RecordResult
<1>14. ASSUME NEW m \in {"plan", "build"}, SetMode(m) PROVE msgs' = msgs
  BY <1>14 DEF SetMode, local
<1>15. UNCHANGED vars => msgs' = msgs
  BY DEF vars, local
<1> QED
  BY <1>2, <1>4, <1>5, <1>6, <1>8, <1>9, <1>10, <1>11, <1>12, <1>13, <1>14, <1>15 DEF Next, RunStep

LEMMA NewestStays ==
  ASSUME LoopInv
  PROVE  /\ Summarise => SuffixKept(KeepLast)
         /\ (FallBack \/ Heal) /\ msgs' # msgs =>
              LET body == Len(msgs) - HeadLen(msgs)
                  k    == Len(msgs') - HeadLen(msgs) - 1
              IN  /\ k >= 1 /\ SuffixKept(k)
                  /\ body - k = 1 \/ 10 * (body - k) <= 3 * body
<1>1. PICK m \in Seq(Message) : m = msgs
  BY MessagesTyped DEF LoopInv
<1>2. ASSUME Summarise PROVE SuffixKept(KeepLast)
  <2>1. Summarizable(m) /\ msgs' = Summarized(m)
    BY <1>1, <1>2 DEF Summarise
  <2> QED
    BY <1>1, <2>1, SummaryKeeps DEF SuffixKept
<1>3. ASSUME FallBack \/ Heal, msgs' # msgs
      PROVE  LET body == Len(msgs) - HeadLen(msgs)
                 k    == Len(msgs') - HeadLen(msgs) - 1
             IN  /\ k >= 1 /\ SuffixKept(k)
                 /\ body - k = 1 \/ 10 * (body - k) <= 3 * body
  <2>1. msgs' = Oldest(m) /\ Oldest(m) # m
    BY <1>1, <1>3 DEF FallBack, Heal
  <2> QED
    BY <1>1, <2>1, OldestKeeps DEF SuffixKept
<1> QED
  BY <1>2, <1>3

\* For every length of a conversation and every number of messages kept, by
\* whatever sequence of summaries, fallbacks, heals and a stream that degrades:
\* the system prompt stays at the head; a summary keeps the newest KeepLast
\* messages, and the extractive compactor an end of the conversation, all of it
\* but one message or but three tenths.
THEOREM EndsKeptAlways == Spec => EndsKept
<1>1. LoopInv /\ [Next]_vars
      => [msgs # <<>> /\ msgs[1].role = "prompt" /\ msgs' # <<>> => msgs'[1].role = "prompt"]_vars
  BY PromptStays
<1>2. LoopInv /\ [Next]_vars
      => [/\ Summarise => SuffixKept(KeepLast)
          /\ (FallBack \/ Heal) /\ msgs' # msgs =>
               LET body == Len(msgs) - HeadLen(msgs)
                   k    == Len(msgs') - HeadLen(msgs) - 1
               IN  /\ k >= 1 /\ SuffixKept(k)
                   /\ body - k = 1 \/ 10 * (body - k) <= 3 * body]_vars
  BY NewestStays
<1> QED
  BY <1>1, <1>2, LoopInitInv, LoopNextInv, PTL DEF Spec, EndsKept, PromptKept, NewestKept

=============================================================================
