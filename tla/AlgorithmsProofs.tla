-------------------------- MODULE AlgorithmsProofs --------------------------
(***************************************************************************)
(* Proofs about the pure parts of the program for inputs of every size.    *)
(***************************************************************************)
EXTENDS MCAlgorithms, SequenceTheorems, WellFoundedInduction, TLAPS

----------------------------------------------------------------------------
\* Recursive functions.

LEMMA Least ==
  ASSUME NEW S \in SUBSET Nat, S # {}
  PROVE  \E q \in S : \A r \in S : q <= r
<1>1. PICK q \in S : \A r \in S : ~(<<r, q>> \in OpToRel(<, Nat))
  BY NatLessThanWellFounded, WFMin
<1>2. \A r \in S : ~(r < q)
  BY <1>1 DEF OpToRel
<1> QED
  BY <1>2

\* A set of naturals that holds zero and with each number the next holds them all.
LEMMA AllNaturals ==
  ASSUME NEW S \in SUBSET Nat, 0 \in S, \A k \in S : k + 1 \in S
  PROVE  S = Nat
<1> SUFFICES ASSUME Nat \ S # {} PROVE FALSE
  OBVIOUS
<1>1. PICK k \in Nat \ S : \A j \in Nat \ S : k <= j
  BY Least
<1>2. k - 1 \in Nat /\ ~(k <= k - 1)
  BY <1>1
<1>3. (k - 1) + 1 \in S
  BY <1>1, <1>2
<1> QED
  BY <1>1, <1>2, <1>3

\* The step of a recursive function with values in V looks at the function below its
\* argument only, where rank says what is below.
LooksBelow(D, V, rank, step) ==
  /\ V # {} /\ rank \in [D -> Nat] /\ step \in [[D -> V] \X D -> V]
  /\ \A f, g \in [D -> V], x \in D : (\A y \in D : rank[y] < rank[x] => f[y] = g[y]) => step[<<f, x>>] = step[<<g, x>>]

Solves(f, D, step) == \A x \in D : f[x] = step[<<f, x>>]

\* Such a function exists, so that the recursive functions of the pure modules are
\* what their equations say.
LEMMA Recursion ==
  ASSUME NEW D, NEW V, NEW rank, NEW step, LooksBelow(D, V, rank, step)
  PROVE  \E f \in [D -> V] : Solves(f, D, step)
<1> USE DEF LooksBelow, Solves
<1> PICK v0 : v0 \in V
  OBVIOUS
<1> rank \in [D -> Nat] /\ step \in [[D -> V] \X D -> V]
  OBVIOUS
<1>a. \A f, g \in [D -> V], x \in D : (\A y \in D : rank[y] < rank[x] => f[y] = g[y]) => step[<<f, x>>] = step[<<g, x>>]
  OBVIOUS
<1> HIDE DEF LooksBelow
<1> DEFINE Upto(f, n) == \A x \in D : rank[x] < n => f[x] = step[<<f, x>>]
           Alike(f, g, n) == \A x \in D : rank[x] < n => f[x] = g[x]
           S == {n \in Nat : \E f \in [D -> V] : Upto(f, n)}
           U == {n \in Nat : \A f, g \in [D -> V] : Upto(f, n) /\ Upto(g, n) => Alike(f, g, n)}
<1>0. \A x \in D : rank[x] \in Nat
  OBVIOUS
<1>1. ASSUME NEW f \in [D -> V], NEW n \in Nat, NEW m \in Nat, m <= n, Upto(f, n) PROVE Upto(f, m)
  <2> SUFFICES ASSUME NEW x \in D, rank[x] < m PROVE f[x] = step[<<f, x>>]
    OBVIOUS
  <2>1. rank[x] < n
    BY <1>0, <1>1
  <2> QED
    BY <1>1, <2>1
<1>2. U = Nat
  <2>1. 0 \in U
    BY <1>0
  <2>2. ASSUME NEW n \in U PROVE n + 1 \in U
    <3>0. n \in Nat /\ n + 1 \in Nat /\ n <= n + 1
      BY <2>2
    <3> SUFFICES ASSUME NEW f \in [D -> V], NEW g \in [D -> V], Upto(f, n + 1), Upto(g, n + 1), NEW x \in D, rank[x] < n + 1
                 PROVE  f[x] = g[x]
      BY <3>0
    <3>1. Alike(f, g, n)
      <4>1. Upto(f, n) /\ Upto(g, n)
        BY <1>1, <3>0
      <4> QED
        BY <2>2, <4>1
    <3>2. \A y \in D : rank[y] < rank[x] => f[y] = g[y]
      BY <3>1, <2>2, <1>0
    <3>3. step[<<f, x>>] = step[<<g, x>>]
      BY <1>a, <3>2
    <3> QED
      BY <3>3
  <2> HIDE DEF U
  <2> QED
    BY <2>1, <2>2, AllNaturals, U \in SUBSET Nat DEF U
<1>3. S = Nat
  <2>1. 0 \in S
    <3>1. [x \in D |-> v0] \in [D -> V] /\ Upto([x \in D |-> v0], 0)
      BY <1>0
    <3> HIDE DEF Upto
    <3> QED
      BY <3>1
  <2>2. ASSUME NEW n \in S PROVE n + 1 \in S
    <3>1. PICK f \in [D -> V] : Upto(f, n)
      BY <2>2
    <3> DEFINE g == [x \in D |-> IF rank[x] = n THEN step[<<f, x>>] ELSE f[x]]
    <3>2. g \in [D -> V]
      OBVIOUS
    <3>3. ASSUME NEW x \in D, rank[x] < n + 1 PROVE g[x] = step[<<g, x>>]
      <4>1. \A y \in D : rank[y] < rank[x] => f[y] = g[y]
        BY <3>3, <2>2, <1>0
      <4> HIDE DEF g
      <4>2. step[<<f, x>>] = step[<<g, x>>]
        BY <1>a, <3>2, <4>1
      <4>3. rank[x] = n \/ rank[x] < n
        BY <3>3, <2>2, <1>0
      <4>4. g[x] = step[<<f, x>>]
        BY <3>1, <4>3, <1>0, <2>2 DEF g
      <4> QED
        BY <4>2, <4>4
    <3>4. n + 1 \in Nat
      BY <2>2
    <3> HIDE DEF g
    <3> QED
      BY <3>2, <3>3, <3>4
  <2> HIDE DEF S
  <2> QED
    BY <2>1, <2>2, AllNaturals, S \in SUBSET Nat DEF S
<1> DEFINE F == [n \in Nat |-> CHOOSE f \in [D -> V] : Upto(f, n)]
           h == [x \in D |-> F[rank[x] + 1][x]]
<1>4. \A n \in Nat : F[n] \in [D -> V] /\ Upto(F[n], n)
  <2> SUFFICES ASSUME NEW n \in Nat PROVE F[n] \in [D -> V] /\ Upto(F[n], n)
    OBVIOUS
  <2>1. \E f \in [D -> V] : Upto(f, n)
    BY <1>3
  <2> HIDE DEF Upto
  <2> QED
    BY <2>1
<1> HIDE DEF F, Upto, S, U
<1>5. h \in [D -> V]
  BY <1>4
<1>6. ASSUME NEW x \in D PROVE h[x] = step[<<h, x>>]
  <2> DEFINE n == rank[x] + 1
  <2>1. n \in Nat /\ F[n] \in [D -> V] /\ Upto(F[n], n)
    BY <1>4
  <2>2. ASSUME NEW y \in D, rank[y] < rank[x] PROVE F[n][y] = h[y]
    <3> DEFINE m == rank[y] + 1
    <3>1. m \in Nat /\ m <= n /\ F[m] \in [D -> V] /\ Upto(F[m], m)
      BY <1>4, <2>2
    <3>2. Upto(F[n], m)
      BY <1>1, <2>1, <3>1
    <3>3. Alike(F[n], F[m], m)
      BY <1>2, <2>1, <3>1, <3>2 DEF U
    <3> QED
      BY <3>3, <1>0
  <2>3. step[<<F[n], x>>] = step[<<h, x>>]
    BY <1>a, <1>5, <2>1, <2>2
  <2>4. rank[x] < n
    BY <1>0
  <2>5. F[n][x] = step[<<F[n], x>>]
    <3> HIDE DEF n
    <3> QED
      BY <2>1, <2>4 DEF Upto
  <2> QED
    BY <2>3, <2>5
<1> HIDE DEF h
<1> QED
  BY <1>5, <1>6

\* The same along a list of n places, from its end.
StepsBack(n, V, end, step) == end \in V /\ step \in [(1..n) \X V -> V]

GoesBack(f, n, V, end, step) ==
  f[n + 1] = end /\ \A i \in 1..n : f[i] = step[<<i, f[i + 1]>>] /\ <<i, f[i + 1]>> \in (1..n) \X V

LEMMA ListRecursion ==
  ASSUME NEW n \in Nat, NEW V, NEW end, NEW step, StepsBack(n, V, end, step)
  PROVE  \E f \in [1..(n + 1) -> V] : GoesBack(f, n, V, end, step)
<1> end \in V /\ step \in [(1..n) \X V -> V]
  BY DEF StepsBack
<1> DEFINE D == 1..(n + 1)
           rank == [i \in D |-> n + 1 - i]
           s == [a \in [D -> V] \X D |-> IF a[2] > n THEN end ELSE step[<<a[2], a[1][a[2] + 1]>>]]
<1>1. rank \in [D -> Nat]
  OBVIOUS
<1>2. ASSUME NEW f \in [D -> V], NEW i \in D
      PROVE  /\ s[<<f, i>>] = IF i > n THEN end ELSE step[<<i, f[i + 1]>>]
             /\ s[<<f, i>>] \in V
  <2>1. s[<<f, i>>] = IF i > n THEN end ELSE step[<<i, f[i + 1]>>]
    OBVIOUS
  <2>2. i <= n => i \in 1..n /\ f[i + 1] \in V
    OBVIOUS
  <2> HIDE DEF s
  <2> QED
    BY <2>1, <2>2
<1>3. s \in [[D -> V] \X D -> V]
  <2> SUFFICES ASSUME NEW a \in [D -> V] \X D PROVE s[a] \in V
    OBVIOUS
  <2>1. PICK f \in [D -> V], i \in D : a = <<f, i>>
    OBVIOUS
  <2> HIDE DEF s
  <2> QED
    BY <1>2, <2>1
<1>4. ASSUME NEW f \in [D -> V], NEW g \in [D -> V], NEW i \in D, \A j \in D : rank[j] < rank[i] => f[j] = g[j]
      PROVE  s[<<f, i>>] = s[<<g, i>>]
  <2>1. (i > n \/ i <= n) /\ (i <= n => i + 1 \in D /\ rank[i + 1] < rank[i])
    OBVIOUS
  <2>2. i <= n => f[i + 1] = g[i + 1]
    BY <1>4, <2>1
  <2>3. s[<<f, i>>] = (IF i > n THEN end ELSE step[<<i, f[i + 1]>>]) /\ s[<<g, i>>] = (IF i > n THEN end ELSE step[<<i, g[i + 1]>>])
    BY <1>2, <1>4
  <2> HIDE DEF s, rank
  <2> QED
    BY <2>1, <2>2, <2>3
<1> HIDE DEF D, rank, s
<1>5. LooksBelow(D, V, rank, s)
  BY <1>1, <1>3, <1>4 DEF LooksBelow
<1>5a. PICK f \in [D -> V] : \A i \in D : f[i] = s[<<f, i>>]
  BY <1>5, Recursion DEF Solves
<1>6. n + 1 \in D /\ n + 1 > n /\ \A i \in 1..n : i \in D /\ ~(i > n)
  BY DEF D
<1>7. f[n + 1] = end /\ \A i \in 1..n : f[i] = step[<<i, f[i + 1]>>]
  BY <1>2, <1>5a, <1>6
<1>8. \A i \in 1..n : f[i + 1] \in V
  BY DEF D
<1> QED
  BY <1>7, <1>8 DEF D, GoesBack

\* What holds at the end of a list and passes from each place to the one before holds at
\* every place.
LEMMA Backwards ==
  ASSUME NEW n \in Nat, NEW P \in SUBSET Nat, n + 1 \in P, \A i \in 1..n : i + 1 \in P => i \in P
  PROVE  1..(n + 1) \subseteq P
<1> DEFINE S == {k \in Nat : k <= n => n + 1 - k \in P}
<1>1. 0 \in S
  OBVIOUS
<1>2. ASSUME NEW k \in S PROVE k + 1 \in S
  <2> SUFFICES ASSUME k + 1 <= n PROVE n + 1 - (k + 1) \in P
    OBVIOUS
  <2>1. n + 1 - (k + 1) \in 1..n /\ (n + 1 - (k + 1)) + 1 = n + 1 - k /\ k <= n
    OBVIOUS
  <2> QED
    BY <1>2, <2>1
<1>3. S = Nat
  <2> HIDE DEF S
  <2> QED
    BY <1>1, <1>2, AllNaturals, S \in SUBSET Nat DEF S
<1>4. ASSUME NEW i \in 1..(n + 1) PROVE i \in P
  <2>1. n + 1 - i \in Nat /\ n + 1 - (n + 1 - i) = i /\ n + 1 - i <= n
    OBVIOUS
  <2> QED
    BY <1>3, <2>1, ZenonT(60)
<1> QED
  BY <1>4

----------------------------------------------------------------------------
(* Failover, retries and waits.                                             *)

Outcomes == {"ok", "busy", "network", "refused", "ended"}

CompleteStep(outs, go, i) ==
  IF i > Len(outs) THEN [calls |-> Len(outs), out |-> "exhausted"]
  ELSE IF RtRetryable(outs[i]) THEN go[i + 1] ELSE [calls |-> i, out |-> outs[i]]

LEMMA CompleteIs ==
  ASSUME NEW outs \in Seq(Outcomes)
  PROVE  \E go : /\ RtComplete(outs) = go[1]
                 /\ go = [i \in 1..(Len(outs) + 1) |-> CompleteStep(outs, go, i)]
<1> DEFINE n == Len(outs)
           V == [calls : Nat, out : Outcomes \cup {"exhausted"}]
           end == [calls |-> n, out |-> "exhausted"]
           step == [a \in (1..n) \X V |-> IF RtRetryable(outs[a[1]]) THEN a[2] ELSE [calls |-> a[1], out |-> outs[a[1]]]]
<1>1. n \in Nat /\ \A i \in 1..n : outs[i] \in Outcomes
  OBVIOUS
<1>2. StepsBack(n, V, end, step)
  <2>1. end \in V
    OBVIOUS
  <2>2. ASSUME NEW a \in (1..n) \X V PROVE step[a] \in V
    <3>1. a[1] \in 1..n /\ a[2] \in V
      OBVIOUS
    <3> HIDE DEF n
    <3>2. [calls |-> a[1], out |-> outs[a[1]]] \in V
      BY <1>1, <3>1
    <3> HIDE DEF V
    <3> QED
      BY <3>1, <3>2
  <2> QED
    BY <2>1, <2>2 DEF StepsBack
<1>3. PICK f \in [1..(n + 1) -> V] : GoesBack(f, n, V, end, step)
  <2> HIDE DEF n, V, end, step
  <2> QED
    BY <1>1, <1>2, ListRecursion
<1>4. \A i \in 1..n : f[i] = IF RtRetryable(outs[i]) THEN f[i + 1] ELSE [calls |-> i, out |-> outs[i]]
  <2> SUFFICES ASSUME NEW i \in 1..n PROVE f[i] = IF RtRetryable(outs[i]) THEN f[i + 1] ELSE [calls |-> i, out |-> outs[i]]
    OBVIOUS
  <2>1. f[i] = step[<<i, f[i + 1]>>] /\ <<i, f[i + 1]>> \in (1..n) \X V
    <3> HIDE DEF step, V
    <3> QED
      BY <1>3 DEF GoesBack
  <2> HIDE DEF V
  <2> QED
    BY <2>1
<1>5. f = [i \in 1..(n + 1) |-> CompleteStep(outs, f, i)]
  <2> SUFFICES ASSUME NEW i \in 1..(n + 1) PROVE f[i] = CompleteStep(outs, f, i)
    BY <1>3
  <2>1. CASE i = n + 1
    BY <1>1, <1>3, <2>1 DEF GoesBack, CompleteStep
  <2>2. CASE i \in 1..n
    <3>1. ~(i > n)
      BY <1>1, <2>2
    <3> QED
      BY <1>4, <2>2, <3>1 DEF CompleteStep
  <2> QED
    BY <1>1, <2>1, <2>2
<1> DEFINE go == CHOOSE go : go = [i \in 1..(Len(outs) + 1) |-> CompleteStep(outs, go, i)]
<1>6. go = [i \in 1..(Len(outs) + 1) |-> CompleteStep(outs, go, i)]
  BY <1>5, Zenon
<1>7. RtComplete(outs) = go[1]
  BY Zenon DEF RtComplete, CompleteStep
<1> QED
  BY <1>6, <1>7, Zenon

\* fallback.go: however many providers the chain has and however each of them ends,
\* what is called before the one that decides could be tried again elsewhere, and
\* the chain is exhausted only when that is so of all.
THEOREM CompleteRightAlways == \A outs \in Seq(Outcomes) : RtCompleteRight([outs |-> outs])
<1> SUFFICES ASSUME NEW outs \in Seq(Outcomes) PROVE RtCompleteRight([outs |-> outs])
  OBVIOUS
<1> DEFINE n == Len(outs)
<1>1. PICK go : /\ RtComplete(outs) = go[1]
                /\ go = [i \in 1..(n + 1) |-> CompleteStep(outs, go, i)]
  BY CompleteIs
<1> DEFINE Ends(i, got) ==
             /\ got.calls \in Nat
             /\ \A k \in i..(got.calls - 1) : RtRetryable(outs[k])
             /\ IF got.out = "exhausted" THEN \A k \in i..n : RtRetryable(outs[k])
                ELSE got.calls \in i..n /\ got.out = outs[got.calls] /\ ~RtRetryable(got.out)
           P == {i \in 1..(n + 1) : Ends(i, go[i])}
<1>2. n \in Nat /\ \A i \in 1..n : outs[i] \in Outcomes
  OBVIOUS
<1>3. n + 1 \in P
  <2>1. go[n + 1] = [calls |-> n, out |-> "exhausted"]
    BY <1>1, <1>2 DEF CompleteStep
  <2> QED
    BY <1>2, <2>1
<1>4. ASSUME NEW i \in 1..n, i + 1 \in P PROVE i \in P
  <2>1. go[i] = IF RtRetryable(outs[i]) THEN go[i + 1] ELSE [calls |-> i, out |-> outs[i]]
    BY <1>1, <1>2 DEF CompleteStep
  <2>2. CASE RtRetryable(outs[i])
    BY <1>2, <1>4, <2>1, <2>2, SMTT(30)
  <2>3. CASE ~RtRetryable(outs[i])
    <3>1. go[i].calls = i /\ go[i].out = outs[i]
      BY <2>1, <2>3
    <3>2. outs[i] # "exhausted"
      BY <1>2 DEF Outcomes
    <3> QED
      BY <1>2, <2>3, <3>1, <3>2
  <2> QED
    BY <2>2, <2>3
<1>5. 1..(n + 1) \subseteq P
  <2> HIDE DEF P, n
  <2> QED
    BY <1>2, <1>3, <1>4, Backwards, P \in SUBSET Nat DEF P
<1>6. Ends(1, go[1])
  BY <1>2, <1>5
<1> QED
  BY <1>1, <1>6, SMTT(30) DEF RtCompleteRight

----------------------------------------------------------------------------
(* Patterns of the permission rules.                                        *)

RestStep(p, t, any, rest, i) ==
  IF i > Len(p) THEN {Len(t) + 1}
  ELSE IF p[i] = "*" THEN {j \in 1..(Len(t) + 1) : \E k \in rest[i + 1] : j <= k}
  ELSE {j \in DOMAIN t : (p[i] = t[j] \/ (any /\ p[i] = "?")) /\ j + 1 \in rest[i + 1]}

\* What a pattern means, by the places of the target from which on its ends match.
LEMMA MeansIs ==
  ASSUME NEW L, NEW p \in Seq(L), NEW t \in Seq(L), NEW any \in BOOLEAN
  PROVE  \E rest : /\ MaMeans(p, t, any) = (1 \in rest[1])
                   /\ rest = [i \in 1..(Len(p) + 1) |-> RestStep(p, t, any, rest, i)]
                   /\ \A i \in 1..(Len(p) + 1) : rest[i] \subseteq 1..(Len(t) + 1)
<1> DEFINE n == Len(p)
           ends == 1..(Len(t) + 1)
           V == SUBSET ends
           end == {Len(t) + 1}
           Back(i, later) ==
             IF p[i] = "*" THEN {j \in ends : \E k \in later : j <= k}
             ELSE {j \in DOMAIN t : (p[i] = t[j] \/ (any /\ p[i] = "?")) /\ j + 1 \in later}
           step == [a \in (1..n) \X V |-> Back(a[1], a[2])]
<1>1. n \in Nat /\ Len(t) \in Nat /\ DOMAIN t = 1..Len(t)
  OBVIOUS
<1>2. StepsBack(n, V, end, step)
  <2>1. end \in V
    BY <1>1
  <2>2. ASSUME NEW i, NEW later PROVE Back(i, later) \in V
    BY <1>1
  <2> HIDE DEF V, Back
  <2> QED
    BY <2>1, <2>2 DEF StepsBack
<1>3. PICK f \in [1..(n + 1) -> V] : GoesBack(f, n, V, end, step)
  <2> HIDE DEF n, V, end, step
  <2> QED
    BY <1>1, <1>2, ListRecursion
<1>4. \A i \in 1..n : f[i] = Back(i, f[i + 1])
  <2> SUFFICES ASSUME NEW i \in 1..n PROVE f[i] = Back(i, f[i + 1])
    OBVIOUS
  <2>1. f[i] = step[<<i, f[i + 1]>>] /\ <<i, f[i + 1]>> \in (1..n) \X V
    <3> HIDE DEF step, V
    <3> QED
      BY <1>3 DEF GoesBack
  <2> HIDE DEF V, Back
  <2> QED
    BY <2>1
<1>5. f = [i \in 1..(n + 1) |-> RestStep(p, t, any, f, i)]
  <2> SUFFICES ASSUME NEW i \in 1..(n + 1) PROVE f[i] = RestStep(p, t, any, f, i)
    BY <1>3
  <2>1. CASE i = n + 1
    <3>1. f[n + 1] = end
      <4> HIDE DEF step, V, end
      <4> QED
        BY <1>3 DEF GoesBack
    <3>2. i > n
      BY <1>1, <2>1
    <3> QED
      BY <2>1, <3>1, <3>2 DEF RestStep
  <2>2. CASE i \in 1..n
    <3>1. ~(i > n)
      BY <1>1, <2>2
    <3> QED
      BY <1>4, <2>2, <3>1 DEF RestStep
  <2> QED
    BY <1>1, <2>1, <2>2
<1> DEFINE rest == CHOOSE rest : rest = [i \in 1..(Len(p) + 1) |-> RestStep(p, t, any, rest, i)]
<1>6. rest = [i \in 1..(Len(p) + 1) |-> RestStep(p, t, any, rest, i)]
  BY <1>5, Zenon
<1>7. MaMeans(p, t, any) = (1 \in rest[1])
  BY Zenon DEF MaMeans, RestStep
<1>8. \A i \in 1..(Len(p) + 1) : rest[i] \subseteq 1..(Len(t) + 1)
  <2> SUFFICES ASSUME NEW i \in 1..(Len(p) + 1) PROVE rest[i] \subseteq 1..(Len(t) + 1)
    OBVIOUS
  <2>1. rest[i] = RestStep(p, t, any, rest, i)
    BY <1>6, Zenon
  <2> HIDE DEF rest
  <2> QED
    BY <1>1, <2>1 DEF RestStep
<1> HIDE DEF rest
<1> QED
  BY <1>6, <1>7, <1>8, Zenon

Fits(p, t, s) == s.px <= Len(p) /\ p[s.px] \in {"?", t[s.tx]}

LoopStep(p, t, loop, s) ==
  IF s.tx > Len(t) THEN \A k \in s.px..Len(p) : p[k] = "*"
  ELSE IF Fits(p, t, s) THEN loop[MaAt(s.px + 1, s.tx + 1, s.star, s.mark)]
  ELSE IF s.px <= Len(p) /\ p[s.px] = "*" THEN loop[MaAt(s.px + 1, s.tx, s.px, s.tx)]
  ELSE s.star # 0 /\ loop[MaAt(s.px, s.mark + 1, s.star, s.mark + 1)]

\* How far the cursors still have to go: every turn of the loop brings the pattern's
\* cursor or the mark nearer its end.
Left(n, i) == IF i > n THEN 0 ELSE n + 1 - i
First(i, j) == IF i < j THEN i ELSE j
ToGo(p, t, s) == IF s.tx > Len(t) THEN 0 ELSE 1 + Left(Len(p), s.px) + Left(Len(t), First(s.mark, s.tx))

LEMMA LeftIsLess ==
  ASSUME NEW n \in Nat, NEW i \in Nat, NEW j \in Nat, i <= j
  PROVE  /\ Left(n, i) \in Nat /\ Left(n, j) \in Nat
         /\ Left(n, j) <= Left(n, i) /\ (i < j /\ i <= n => Left(n, j) < Left(n, i))
  BY DEF Left

LEMMA ToGoIsLess ==
  ASSUME NEW L, NEW p \in Seq(L), NEW t \in Seq(L), NEW s \in MaCursors, ~(s.tx > Len(t))
  PROVE  /\ ToGo(p, t, s) \in Nat
         /\ s.px <= Len(p) => /\ MaAt(s.px + 1, s.tx + 1, s.star, s.mark) \in MaCursors
                              /\ ToGo(p, t, MaAt(s.px + 1, s.tx + 1, s.star, s.mark)) < ToGo(p, t, s)
                              /\ MaAt(s.px + 1, s.tx, s.px, s.tx) \in MaCursors
                              /\ ToGo(p, t, MaAt(s.px + 1, s.tx, s.px, s.tx)) < ToGo(p, t, s)
         /\ MaAt(s.px, s.mark + 1, s.star, s.mark + 1) \in MaCursors
         /\ ToGo(p, t, MaAt(s.px, s.mark + 1, s.star, s.mark + 1)) < ToGo(p, t, s)
<1> DEFINE n == Len(p)
           m == Len(t)
           x == s.px
           y == s.tx
           w == s.star
           z == s.mark
           u == First(z, y)
<1>1. n \in Nat /\ m \in Nat /\ x \in Nat /\ y \in Nat /\ w \in Nat /\ z \in Nat /\ y <= m
  BY DEF MaCursors
<1> DEFINE a == [px |-> x + 1, tx |-> y + 1, star |-> w, mark |-> z]
           b == [px |-> x + 1, tx |-> y, star |-> x, mark |-> y]
           c == [px |-> x, tx |-> z + 1, star |-> w, mark |-> z + 1]
<1>2. /\ a = MaAt(s.px + 1, s.tx + 1, s.star, s.mark)
      /\ b = MaAt(s.px + 1, s.tx, s.px, s.tx)
      /\ c = MaAt(s.px, s.mark + 1, s.star, s.mark + 1)
  BY DEF MaAt
<1>3. a \in MaCursors /\ b \in MaCursors /\ c \in MaCursors
  BY <1>1 DEF MaCursors
<1>4. /\ ToGo(p, t, s) = 1 + Left(n, x) + Left(m, u)
      /\ ToGo(p, t, a) = IF y + 1 > m THEN 0 ELSE 1 + Left(n, x + 1) + Left(m, First(z, y + 1))
      /\ ToGo(p, t, b) = 1 + Left(n, x + 1) + Left(m, First(y, y))
      /\ ToGo(p, t, c) = IF z + 1 > m THEN 0 ELSE 1 + Left(n, x) + Left(m, First(z + 1, z + 1))
  BY <1>1 DEF ToGo
<1>5. /\ u \in Nat /\ u <= y /\ u <= z
      /\ First(z, y + 1) \in Nat /\ u <= First(z, y + 1)
      /\ First(y, y) = y /\ First(z + 1, z + 1) = z + 1
  BY <1>1 DEF First
<1> HIDE DEF n, m, x, y, w, z, u, a, b, c
<1>6. Left(n, x) \in Nat /\ Left(m, u) \in Nat
  <2>1. x <= x /\ u <= u
    BY <1>1, <1>5
  <2> QED
    BY <1>1, <1>5, <2>1, LeftIsLess
<1>7. x <= n => Left(n, x + 1) < Left(n, x) /\ Left(n, x + 1) \in Nat
  <2>1. x + 1 \in Nat /\ x <= x + 1 /\ x < x + 1
    BY <1>1
  <2> QED
    BY <1>1, <2>1, LeftIsLess
<1>8. /\ Left(m, First(z, y + 1)) <= Left(m, u) /\ Left(m, First(z, y + 1)) \in Nat
      /\ Left(m, y) <= Left(m, u) /\ Left(m, y) \in Nat
  BY <1>1, <1>5, LeftIsLess
<1>9. Left(m, z + 1) < Left(m, u) /\ Left(m, z + 1) \in Nat
  <2>1. u < z + 1 /\ u <= z + 1 /\ u <= m /\ z + 1 \in Nat
    BY <1>1, <1>5
  <2> QED
    BY <1>1, <1>5, <2>1, LeftIsLess
<1>10. ToGo(p, t, s) \in Nat
  BY <1>4, <1>6
<1>11. x <= n => ToGo(p, t, a) < ToGo(p, t, s) /\ ToGo(p, t, b) < ToGo(p, t, s)
  BY <1>4, <1>5, <1>6, <1>7, <1>8
<1>12. ToGo(p, t, c) < ToGo(p, t, s)
  BY <1>4, <1>5, <1>6, <1>9
<1> QED
  BY <1>2, <1>3, <1>10, <1>11, <1>12 DEF n, x

\* The loop of globStar ends, whatever state it starts in.
LEMMA GlobStarIs ==
  ASSUME NEW L, NEW p \in Seq(L), NEW t \in Seq(L)
  PROVE  \E loop : /\ MaGlobStar(p, t) = loop[MaAt(1, 1, 0, 0)]
                   /\ loop = [s \in MaCursors |-> LoopStep(p, t, loop, s)]
<1> DEFINE D == MaCursors
           rank == [s \in D |-> ToGo(p, t, s)]
           step == [a \in [D -> BOOLEAN] \X D |-> LoopStep(p, t, a[1], a[2])]
           Fit(s) == MaAt(s.px + 1, s.tx + 1, s.star, s.mark)
           Star(s) == MaAt(s.px + 1, s.tx, s.px, s.tx)
           Fall(s) == MaAt(s.px, s.mark + 1, s.star, s.mark + 1)
<1>1. ASSUME NEW s \in D
      PROVE  /\ rank[s] \in Nat
             /\ ~(s.tx > Len(t)) => /\ s.px <= Len(p) => Fit(s) \in D /\ rank[Fit(s)] < rank[s] /\ Star(s) \in D /\ rank[Star(s)] < rank[s]
                                    /\ Fall(s) \in D /\ rank[Fall(s)] < rank[s]
  <2>1. CASE s.tx > Len(t)
    BY <2>1 DEF ToGo
  <2>2. CASE ~(s.tx > Len(t))
    <3>1. /\ ToGo(p, t, s) \in Nat
          /\ s.px <= Len(p) => Fit(s) \in D /\ ToGo(p, t, Fit(s)) < ToGo(p, t, s) /\ Star(s) \in D /\ ToGo(p, t, Star(s)) < ToGo(p, t, s)
          /\ Fall(s) \in D /\ ToGo(p, t, Fall(s)) < ToGo(p, t, s)
      BY <2>2, ToGoIsLess, Zenon
    <3> HIDE DEF D, Fit, Star, Fall
    <3> QED
      BY <3>1
  <2> QED
    BY <2>1, <2>2
<1>2. \A f, s : LoopStep(p, t, f, s) =
                IF s.tx > Len(t) THEN \A k \in s.px..Len(p) : p[k] = "*"
                ELSE IF Fits(p, t, s) THEN f[Fit(s)]
                ELSE IF s.px <= Len(p) /\ p[s.px] = "*" THEN f[Star(s)]
                ELSE s.star # 0 /\ f[Fall(s)]
  BY Zenon DEF LoopStep
<1> HIDE DEF Fit, Star, Fall, D, rank
<1>3. ASSUME NEW f \in [D -> BOOLEAN], NEW s \in D PROVE LoopStep(p, t, f, s) \in BOOLEAN
  BY <1>1, <1>2 DEF Fits
<1>4. ASSUME NEW f \in [D -> BOOLEAN], NEW g \in [D -> BOOLEAN], NEW s \in D, \A r \in D : rank[r] < rank[s] => f[r] = g[r]
      PROVE  LoopStep(p, t, f, s) = LoopStep(p, t, g, s)
  <2>1. CASE s.tx > Len(t)
    BY <1>2, <2>1
  <2>2. CASE ~(s.tx > Len(t))
    <3>1. s.px <= Len(p) => f[Fit(s)] = g[Fit(s)] /\ f[Star(s)] = g[Star(s)]
      BY <1>1, <1>4, <2>2
    <3>2. f[Fall(s)] = g[Fall(s)]
      BY <1>1, <1>4, <2>2
    <3>3. CASE Fits(p, t, s)
      BY <1>2, <2>2, <3>1, <3>3 DEF Fits
    <3>4. CASE ~Fits(p, t, s)
      BY <1>2, <2>2, <3>1, <3>2, <3>4
    <3> QED
      BY <3>3, <3>4
  <2> QED
    BY <2>1, <2>2
<1>5. ASSUME NEW f \in [D -> BOOLEAN], NEW s \in D PROVE step[<<f, s>>] = LoopStep(p, t, f, s)
  OBVIOUS
<1>6. step \in [[D -> BOOLEAN] \X D -> BOOLEAN]
  <2>1. ASSUME NEW a \in [D -> BOOLEAN] \X D PROVE LoopStep(p, t, a[1], a[2]) \in BOOLEAN
    BY <1>3
  <2> QED
    BY <2>1
<1>7. LooksBelow(D, BOOLEAN, rank, step)
  <2>1. rank \in [D -> Nat]
    BY <1>1 DEF rank
  <2>2. \A f, g \in [D -> BOOLEAN], s \in D : (\A r \in D : rank[r] < rank[s] => f[r] = g[r]) => step[<<f, s>>] = step[<<g, s>>]
    <3> HIDE DEF step
    <3> QED
      BY <1>4, <1>5
  <2> HIDE DEF step
  <2> QED
    BY <1>6, <2>1, <2>2 DEF LooksBelow
<1>8. \E f : f = [s \in MaCursors |-> LoopStep(p, t, f, s)]
  <2>1. PICK f \in [D -> BOOLEAN] : Solves(f, D, step)
    BY <1>7, Recursion
  <2>2. \A s \in D : f[s] = LoopStep(p, t, f, s)
    BY <1>5, <2>1 DEF Solves
  <2>3. f = [s \in D |-> LoopStep(p, t, f, s)]
    BY <2>2
  <2> QED
    BY <2>3 DEF D
<1> DEFINE loop == CHOOSE loop : loop = [s \in MaCursors |-> LoopStep(p, t, loop, s)]
<1>9. loop = [s \in MaCursors |-> LoopStep(p, t, loop, s)]
  BY <1>8, Zenon
<1>10. MaGlobStar(p, t) = loop[MaAt(1, 1, 0, 0)]
  BY Zenon DEF MaGlobStar, LoopStep, Fits
<1> HIDE DEF loop
<1> QED
  BY <1>9, <1>10, Zenon

\* What the rest of a pattern can still match, as seen from the cursors of the loop:
\* from the target's cursor, or after a star from some place not before it.
Sound(p, t, s) == s.px \in 1..(Len(p) + 1) /\ s.tx \in 1..(Len(t) + 1) /\ s.mark <= s.tx
Ahead(rest, s) == IF s.star = 0 THEN s.tx \in rest[s.px] ELSE \E j \in rest[s.px] : s.tx <= j

Rests(p, t, rest) == \A i \in 1..(Len(p) + 1) : rest[i] = RestStep(p, t, TRUE, rest, i) /\ rest[i] \subseteq 1..(Len(t) + 1)

\* What is in reach from the states nearer the end is found.
Below(p, t, rest, loop, s) ==
  \A r \in MaCursors : ToGo(p, t, r) < ToGo(p, t, s) /\ Sound(p, t, r) /\ Ahead(rest, r) => loop[r]

\* One turn of the loop keeps a match in reach, and a match in reach at the end is one.
LEMMA TurnKeepsAhead ==
  ASSUME NEW L, NEW p \in Seq(L), NEW t \in Seq(L), \A j \in DOMAIN t : t[j] # "*",
         NEW rest, Rests(p, t, rest),
         NEW loop, NEW s \in MaCursors, Sound(p, t, s), Ahead(rest, s), Below(p, t, rest, loop, s)
  PROVE  LoopStep(p, t, loop, s)
<1> DEFINE n == Len(p)
           m == Len(t)
<1>1. n \in Nat /\ m \in Nat /\ s.px \in Nat /\ s.tx \in Nat /\ s.star \in Nat /\ s.mark \in Nat /\ DOMAIN t = 1..m
  BY DEF MaCursors
<1>b. \A i \in 1..(n + 1) : rest[i] = RestStep(p, t, TRUE, rest, i) /\ rest[i] \subseteq 1..(m + 1)
  BY Zenon DEF Rests
<1>a. \A i \in 1..(n + 1) : \A j \in rest[i] : j \in 1..(m + 1) /\ j \in Nat
  <2>1. \A j \in 1..(m + 1) : j \in Nat
    BY <1>1
  <2> HIDE DEF n, m
  <2> QED
    BY <1>b, <2>1
<1>c. s.px \in 1..(n + 1) /\ s.tx \in 1..(m + 1)
  BY DEF Sound
<1> HIDE DEF n, m
<1>2. rest[n + 1] = {m + 1}
  <2>1. n + 1 > n /\ n + 1 \in 1..(n + 1)
    BY <1>1
  <2> QED
    BY <1>b, <2>1 DEF RestStep, n, m
<1>3. ASSUME NEW i \in 1..n, p[i] = "*", NEW j \in rest[i] PROVE \E k \in rest[i + 1] : j <= k
  <2>1. rest[i] = {l \in 1..(m + 1) : \E k \in rest[i + 1] : l <= k}
    <3>1. ~(i > n) /\ i \in 1..(n + 1)
      BY <1>1
    <3> QED
      BY <1>3, <1>b, <3>1 DEF RestStep, n, m
  <2> QED
    BY <2>1
<1>4. ASSUME NEW i \in 1..n, p[i] # "*", NEW j \in rest[i]
      PROVE  j \in 1..m /\ (p[i] = t[j] \/ p[i] = "?") /\ j + 1 \in rest[i + 1]
  <2>1. rest[i] = {l \in DOMAIN t : (p[i] = t[l] \/ (TRUE /\ p[i] = "?")) /\ l + 1 \in rest[i + 1]}
    <3>1. ~(i > n) /\ i \in 1..(n + 1)
      BY <1>1
    <3> QED
      BY <1>4, <1>b, <3>1 DEF RestStep, n, m
  <2> QED
    BY <1>1, <2>1
<1>5. CASE s.tx > m
  <2> DEFINE P == {i \in 1..(n + 1) : m + 1 \in rest[i] => \A k \in i..n : p[k] = "*"}
  <2>0. P \in SUBSET Nat
    BY <1>1
  <2>1. n + 1 \in P
    BY <1>1
  <2>2. ASSUME NEW i \in 1..n, i + 1 \in P PROVE i \in P
    <3> SUFFICES ASSUME m + 1 \in rest[i] PROVE \A k \in i..n : p[k] = "*"
      BY <1>1
    <3>1. p[i] = "*"
      BY <1>1, <1>4
    <3>2. PICK k \in rest[i + 1] : m + 1 <= k
      BY <1>3, <3>1
    <3>3. k = m + 1
      BY <1>1, <1>a, <3>2
    <3> QED
      BY <1>1, <2>2, <3>1, <3>2, <3>3
  <2>3. 1..(n + 1) \subseteq P
    <3> HIDE DEF P
    <3> QED
      BY <1>1, <2>0, <2>1, <2>2, Backwards
  <2>4. s.px \in P
    BY <1>c, <2>3
  <2>5. m + 1 \in rest[s.px]
    <3>1. s.tx = m + 1
      BY <1>1, <1>5, <1>c
    <3> QED
      BY <1>1, <1>a, <1>c, <3>1 DEF Ahead
  <2> QED
    BY <1>5, <2>4, <2>5 DEF LoopStep, n, m
<1>6. CASE ~(s.tx > m) /\ Fits(p, t, s)
  <2> DEFINE r == MaAt(s.px + 1, s.tx + 1, s.star, s.mark)
  <2>1. /\ r \in MaCursors /\ ToGo(p, t, r) < ToGo(p, t, s)
        /\ r.px = s.px + 1 /\ r.tx = s.tx + 1 /\ r.star = s.star /\ r.mark = s.mark
    <3>1. s.px <= Len(p)
      BY <1>6 DEF Fits, n, m
    <3>2. r \in MaCursors /\ ToGo(p, t, r) < ToGo(p, t, s)
      BY <1>6, <3>1, ToGoIsLess DEF n, m
    <3>3. r.px = s.px + 1 /\ r.tx = s.tx + 1 /\ r.star = s.star /\ r.mark = s.mark
      BY DEF MaAt
    <3> QED
      BY <3>2, <3>3
  <2> HIDE DEF r
  <2>2. s.px \in 1..n /\ s.tx \in 1..m /\ p[s.px] # "*"
    BY <1>1, <1>6, <1>c DEF Fits, n, m
  <2>3. Sound(p, t, r)
    BY <1>1, <1>c, <2>1, <2>2, SMTT(30) DEF Sound, n, m
  <2>4. Ahead(rest, r)
    <3>1. PICK j \in rest[s.px] : s.tx <= j /\ (s.star = 0 => j = s.tx)
      BY <1>1, <1>a, <1>c DEF Ahead
    <3>2. j + 1 \in rest[s.px + 1] /\ s.tx + 1 <= j + 1
      BY <1>1, <1>4, <2>2, <3>1
    <3> QED
      BY <1>1, <2>1, <3>1, <3>2 DEF Ahead
  <2>5. loop[r]
    BY <2>1, <2>3, <2>4 DEF Below
  <2> QED
    BY <1>6, <2>5 DEF LoopStep, r, m
<1>7. CASE ~(s.tx > m) /\ ~Fits(p, t, s) /\ s.px <= n /\ p[s.px] = "*"
  <2> DEFINE r == MaAt(s.px + 1, s.tx, s.px, s.tx)
  <2>1. /\ r \in MaCursors /\ ToGo(p, t, r) < ToGo(p, t, s)
        /\ r.px = s.px + 1 /\ r.tx = s.tx /\ r.star = s.px /\ r.mark = s.tx
    <3>1. r \in MaCursors /\ ToGo(p, t, r) < ToGo(p, t, s)
      BY <1>7, ToGoIsLess DEF n, m
    <3>2. r.px = s.px + 1 /\ r.tx = s.tx /\ r.star = s.px /\ r.mark = s.tx
      BY DEF MaAt
    <3> QED
      BY <3>1, <3>2
  <2> HIDE DEF r
  <2>2. s.px \in 1..n /\ s.px # 0
    BY <1>1, <1>7, <1>c
  <2>3. Sound(p, t, r)
    BY <1>1, <1>c, <2>1, <2>2 DEF Sound, n, m
  <2>4. Ahead(rest, r)
    <3>1. PICK j \in rest[s.px] : s.tx <= j
      BY <1>1, <1>a, <1>c DEF Ahead
    <3>2. PICK k \in rest[s.px + 1] : j <= k
      BY <1>3, <1>7, <2>2
    <3>3. j \in Nat /\ k \in Nat
      BY <1>1, <1>a, <1>c, <2>2, <3>1, <3>2
    <3> QED
      BY <1>1, <2>1, <2>2, <3>1, <3>2, <3>3 DEF Ahead
  <2>5. loop[r]
    BY <2>1, <2>3, <2>4 DEF Below
  <2> QED
    BY <1>7, <2>5 DEF LoopStep, r, n, m
<1>8. CASE ~(s.tx > m) /\ ~Fits(p, t, s) /\ ~(s.px <= n /\ p[s.px] = "*")
  <2>1. s.tx \in 1..m
    BY <1>1, <1>8, <1>c
  <2>2. s.tx \notin rest[s.px]
    <3>1. CASE s.px = n + 1
      BY <1>1, <1>2, <2>1, <3>1
    <3>2. CASE s.px \in 1..n
      BY <1>1, <1>4, <1>8, <3>2 DEF Fits, n
    <3> QED
      BY <1>1, <1>c, <3>1, <3>2
  <2>3. s.star # 0 /\ \E j \in rest[s.px] : s.tx + 1 <= j
    <3>1. s.star # 0
      BY <2>2 DEF Ahead
    <3>2. PICK j \in rest[s.px] : s.tx <= j
      BY <3>1 DEF Ahead
    <3>3. j \in Nat
      BY <1>a, <1>c
    <3> QED
      BY <1>1, <2>2, <3>1, <3>2, <3>3
  <2> DEFINE r == MaAt(s.px, s.mark + 1, s.star, s.mark + 1)
  <2>4. /\ r \in MaCursors /\ ToGo(p, t, r) < ToGo(p, t, s)
        /\ r.px = s.px /\ r.tx = s.mark + 1 /\ r.star = s.star /\ r.mark = s.mark + 1
    <3>1. r \in MaCursors /\ ToGo(p, t, r) < ToGo(p, t, s)
      BY <1>8, ToGoIsLess DEF n, m
    <3>2. r.px = s.px /\ r.tx = s.mark + 1 /\ r.star = s.star /\ r.mark = s.mark + 1
      BY DEF MaAt
    <3> QED
      BY <3>1, <3>2
  <2> HIDE DEF r
  <2>5. Sound(p, t, r)
    BY <1>1, <1>c, <2>1, <2>4 DEF Sound, n, m
  <2>6. Ahead(rest, r)
    <3>1. PICK j \in rest[s.px] : s.tx + 1 <= j
      BY <2>3
    <3>2. s.mark + 1 <= j
      <4>1. s.mark <= s.tx /\ j \in Nat
        BY <1>a, <1>c, <3>1 DEF Sound
      <4> QED
        BY <1>1, <3>1, <4>1
    <3> QED
      BY <2>3, <2>4, <3>1, <3>2 DEF Ahead
  <2>7. loop[r]
    BY <2>4, <2>5, <2>6 DEF Below
  <2> QED
    BY <1>8, <2>3, <2>7 DEF LoopStep, r, n, m
<1> QED
  BY <1>5, <1>6, <1>7, <1>8

LEMMA GlobMissesNothing ==
  ASSUME NEW L, NEW p \in Seq(L), NEW t \in Seq(L), \A j \in DOMAIN t : t[j] # "*", MaMeans(p, t, TRUE)
  PROVE  MaGlobStar(p, t)
<1>1. PICK rest : MaMeans(p, t, TRUE) = (1 \in rest[1]) /\ Rests(p, t, rest)
  <2>1. PICK rest : /\ MaMeans(p, t, TRUE) = (1 \in rest[1])
                    /\ rest = [i \in 1..(Len(p) + 1) |-> RestStep(p, t, TRUE, rest, i)]
                    /\ \A i \in 1..(Len(p) + 1) : rest[i] \subseteq 1..(Len(t) + 1)
    BY MeansIs, Zenon
  <2>2. ASSUME NEW i \in 1..(Len(p) + 1) PROVE rest[i] = RestStep(p, t, TRUE, rest, i)
    BY <2>1, Zenon
  <2> QED
    BY <2>1, <2>2, Zenon DEF Rests
<1>1a. Rests(p, t, rest)
  BY <1>1
<1>1b. 1 \in rest[1]
  BY <1>1
<1>2. PICK loop : MaGlobStar(p, t) = loop[MaAt(1, 1, 0, 0)] /\ \A s \in MaCursors : loop[s] = LoopStep(p, t, loop, s)
  <2>1. PICK loop : /\ MaGlobStar(p, t) = loop[MaAt(1, 1, 0, 0)]
                    /\ loop = [s \in MaCursors |-> LoopStep(p, t, loop, s)]
    BY GlobStarIs, Zenon
  <2>2. ASSUME NEW s \in MaCursors PROVE loop[s] = LoopStep(p, t, loop, s)
    BY <2>1, Zenon
  <2> QED
    BY <2>1, <2>2, Zenon
<1> DEFINE S == {k \in Nat : \A s \in MaCursors : ToGo(p, t, s) < k /\ Sound(p, t, s) /\ Ahead(rest, s) => loop[s]}
<1>3. \A s \in MaCursors : ToGo(p, t, s) \in Nat
  <2> SUFFICES ASSUME NEW s \in MaCursors PROVE ToGo(p, t, s) \in Nat
    OBVIOUS
  <2>1. CASE s.tx > Len(t)
    BY <2>1 DEF ToGo
  <2>2. CASE ~(s.tx > Len(t))
    BY <2>2, ToGoIsLess
  <2> QED
    BY <2>1, <2>2
<1>4. 0 \in S
  BY <1>3
<1>5. ASSUME NEW k \in S PROVE k + 1 \in S
  <2> SUFFICES ASSUME NEW s \in MaCursors, ToGo(p, t, s) < k + 1, Sound(p, t, s), Ahead(rest, s) PROVE loop[s]
    BY <1>5
  <2>1. Below(p, t, rest, loop, s)
    BY <1>3, <1>5 DEF Below
  <2>2. LoopStep(p, t, loop, s)
    BY <1>1a, <2>1, TurnKeepsAhead
  <2> QED
    BY <1>2, <2>2, Zenon
<1>6. S = Nat
  <2>1. S \in SUBSET Nat
    OBVIOUS
  <2> HIDE DEF S
  <2> QED
    BY <1>4, <1>5, <2>1, AllNaturals
<1> DEFINE s == MaAt(1, 1, 0, 0)
<1>7. s \in MaCursors /\ s.px = 1 /\ s.tx = 1 /\ s.star = 0 /\ s.mark = 0
  BY DEF MaAt, MaCursors
<1> HIDE DEF s
<1>8. Sound(p, t, s) /\ Ahead(rest, s)
  <2>1. Len(p) \in Nat /\ Len(t) \in Nat
    OBVIOUS
  <2> QED
    BY <1>1b, <1>7, <2>1 DEF Sound, Ahead
<1>9. ToGo(p, t, s) + 1 \in S
  BY <1>3, <1>6, <1>7
<1>10. loop[s]
  BY <1>3, <1>7, <1>8, <1>9
<1> QED
  BY <1>2, <1>10 DEF s

Letters(p, t, k) == \A i \in 1..k : p[i] \in {"?", t[i]}

\* Up to the first star of the pattern the loop compares letter by letter.
LEMMA GlobWalks ==
  ASSUME NEW L, NEW p \in Seq(L), NEW t \in Seq(L),
         NEW loop, \A s \in MaCursors : loop[s] = LoopStep(p, t, loop, s),
         NEW k \in 0..Len(p), \A i \in 1..k : p[i] # "*"
  PROVE  /\ loop[MaAt(1, 1, 0, 0)] => k <= Len(t) /\ Letters(p, t, k) /\ loop[MaAt(k + 1, k + 1, 0, 0)]
         /\ k <= Len(t) /\ Letters(p, t, k) /\ loop[MaAt(k + 1, k + 1, 0, 0)] => loop[MaAt(1, 1, 0, 0)]
<1> DEFINE n == Len(p)
           m == Len(t)
           At(i) == MaAt(i + 1, i + 1, 0, 0)
           Walk(i) == /\ loop[At(0)] => i <= m /\ Letters(p, t, i) /\ loop[At(i)]
                      /\ i <= m /\ Letters(p, t, i) /\ loop[At(i)] => loop[At(0)]
           S == {i \in Nat : i <= k => Walk(i)}
<1>1. n \in Nat /\ m \in Nat /\ k \in Nat /\ k <= n
  OBVIOUS
<1>2. ASSUME NEW i \in Nat
      PROVE  /\ At(i) \in MaCursors /\ At(i).px = i + 1 /\ At(i).tx = i + 1 /\ At(i).star = 0 /\ At(i).mark = 0
             /\ MaAt(At(i).px + 1, At(i).tx + 1, At(i).star, At(i).mark) = At(i + 1)
  BY DEF MaAt, MaCursors
<1>3. ASSUME NEW i \in Nat, i < k
      PROVE  /\ loop[At(i)] => i + 1 <= m /\ p[i + 1] \in {"?", t[i + 1]} /\ loop[At(i + 1)]
             /\ i + 1 <= m /\ p[i + 1] \in {"?", t[i + 1]} /\ loop[At(i + 1)] => loop[At(i)]
  <2> DEFINE s == At(i)
  <2>1. s \in MaCursors /\ s.px = i + 1 /\ s.tx = i + 1 /\ s.star = 0
    BY <1>2
  <2>2. MaAt(s.px + 1, s.tx + 1, s.star, s.mark) = At(i + 1)
    BY <1>2
  <2> HIDE DEF s, At
  <2>3. i + 1 \in 1..k /\ i + 1 <= n
    BY <1>1, <1>3
  <2>4. p[i + 1] # "*"
    BY <2>3
  <2>5. loop[s] = LoopStep(p, t, loop, s)
    BY <2>1
  <2>6. CASE i + 1 > m
    <3>1. LoopStep(p, t, loop, s) = \A j \in (i + 1)..n : p[j] = "*"
      BY <2>1, <2>6, Zenon DEF LoopStep, n, m
    <3>2. i + 1 \in (i + 1)..n
      BY <1>1, <2>3
    <3> QED
      BY <1>1, <2>4, <2>5, <2>6, <3>1, <3>2 DEF s
  <2>7. CASE ~(i + 1 > m) /\ p[i + 1] \in {"?", t[i + 1]}
    <3>1. Fits(p, t, s) /\ ~(s.tx > Len(t))
      BY <2>1, <2>3, <2>7 DEF Fits, n, m
    <3>2. LoopStep(p, t, loop, s) = loop[At(i + 1)]
      BY <2>2, <3>1, Zenon DEF LoopStep
    <3> QED
      BY <1>1, <2>5, <2>7, <3>2 DEF s
  <2>8. CASE ~(i + 1 > m) /\ p[i + 1] \notin {"?", t[i + 1]}
    <3>1. ~Fits(p, t, s) /\ ~(s.tx > Len(t)) /\ ~(s.px <= Len(p) /\ p[s.px] = "*") /\ ~(s.star # 0)
      BY <2>1, <2>4, <2>8 DEF Fits, m
    <3>2. ~LoopStep(p, t, loop, s)
      BY <3>1, Zenon DEF LoopStep
    <3> QED
      BY <2>5, <2>8, <3>2 DEF s
  <2> QED
    BY <2>6, <2>7, <2>8
<1> HIDE DEF At, n, m
<1>4. 0 \in S
  BY <1>1 DEF Letters
<1>5. ASSUME NEW i \in S PROVE i + 1 \in S
  <2> SUFFICES ASSUME i + 1 <= k PROVE Walk(i + 1)
    OBVIOUS
  <2>1. i \in Nat /\ i < k /\ i <= k
    BY <1>1
  <2>2. Walk(i)
    BY <2>1
  <2>3. Letters(p, t, i + 1) <=> Letters(p, t, i) /\ p[i + 1] \in {"?", t[i + 1]}
    <3>1. 1..(i + 1) = (1..i) \cup {i + 1}
      BY <2>1
    <3> QED
      BY <3>1 DEF Letters
  <2>4. i + 1 <= m => i <= m
    BY <1>1, <2>1
  <2> QED
    BY <1>3, <2>1, <2>2, <2>3, <2>4
<1>6. k \in S
  <2>1. S \in SUBSET Nat
    OBVIOUS
  <2> HIDE DEF S
  <2> QED
    BY <1>1, <1>4, <1>5, <2>1, AllNaturals
<1> QED
  <2>1. Walk(k)
    BY <1>1, <1>6
  <2>2. At(0) = MaAt(1, 1, 0, 0) /\ At(k) = MaAt(k + 1, k + 1, 0, 0)
    BY DEF At
  <2> QED
    BY <2>1, <2>2 DEF m

\* What it matches agrees with the pattern up to there, and where there is no star it
\* matches what the pattern spells.
LEMMA GlobSpells ==
  ASSUME NEW L, NEW p \in Seq(L), NEW t \in Seq(L)
  PROVE  /\ MaGlobStar(p, t) => \A i \in DOMAIN p : (\A k \in 1..i : p[k] # "*") => i \in DOMAIN t /\ p[i] \in {"?", t[i]}
         /\ (\A i \in DOMAIN p : p[i] # "*") => (MaGlobStar(p, t) <=> MaStraight(p, t))
<1> DEFINE n == Len(p)
           m == Len(t)
<1>0. n \in Nat /\ m \in Nat /\ DOMAIN p = 1..n /\ DOMAIN t = 1..m
  OBVIOUS
<1>1. PICK loop : MaGlobStar(p, t) = loop[MaAt(1, 1, 0, 0)] /\ \A s \in MaCursors : loop[s] = LoopStep(p, t, loop, s)
  <2>1. PICK loop : /\ MaGlobStar(p, t) = loop[MaAt(1, 1, 0, 0)]
                    /\ loop = [s \in MaCursors |-> LoopStep(p, t, loop, s)]
    BY GlobStarIs, Zenon
  <2>2. ASSUME NEW s \in MaCursors PROVE loop[s] = LoopStep(p, t, loop, s)
    BY <2>1, Zenon
  <2> QED
    BY <2>1, <2>2, Zenon
<1>2. ASSUME NEW k \in 0..n, \A i \in 1..k : p[i] # "*"
      PROVE  /\ MaGlobStar(p, t) => k <= m /\ Letters(p, t, k) /\ loop[MaAt(k + 1, k + 1, 0, 0)]
             /\ k <= m /\ Letters(p, t, k) /\ loop[MaAt(k + 1, k + 1, 0, 0)] => MaGlobStar(p, t)
  <2>1. \A s \in MaCursors : loop[s] = LoopStep(p, t, loop, s)
    BY <1>1
  <2>2. /\ loop[MaAt(1, 1, 0, 0)] => k <= Len(t) /\ Letters(p, t, k) /\ loop[MaAt(k + 1, k + 1, 0, 0)]
        /\ k <= Len(t) /\ Letters(p, t, k) /\ loop[MaAt(k + 1, k + 1, 0, 0)] => loop[MaAt(1, 1, 0, 0)]
    BY <1>2, <2>1, GlobWalks
  <2> QED
    BY <1>1, <2>2
<1>3. ASSUME MaGlobStar(p, t), NEW i \in DOMAIN p, \A k \in 1..i : p[k] # "*"
      PROVE  i \in DOMAIN t /\ p[i] \in {"?", t[i]}
  <2>1. i \in 0..n /\ i \in 1..i /\ i >= 1
    BY <1>0
  <2>2. i <= m /\ Letters(p, t, i)
    BY <1>2, <1>3, <2>1
  <2> HIDE DEF m
  <2> QED
    BY <1>0, <2>1, <2>2 DEF Letters
<1>4. ASSUME \A i \in DOMAIN p : p[i] # "*" PROVE MaGlobStar(p, t) <=> MaStraight(p, t)
  <2> DEFINE s == MaAt(n + 1, n + 1, 0, 0)
  <2>1. s \in MaCursors /\ s.px = n + 1 /\ s.tx = n + 1 /\ s.star = 0
    BY <1>0 DEF MaAt, MaCursors
  <2> HIDE DEF s
  <2>2. loop[s] = LoopStep(p, t, loop, s)
    BY <1>1, <2>1
  <2>3. n + 1 > m => LoopStep(p, t, loop, s)
    <3>1. (n + 1)..n = {}
      BY <1>0
    <3>2. n + 1 > m => LoopStep(p, t, loop, s) = \A j \in (n + 1)..n : p[j] = "*"
      BY <2>1, Zenon DEF LoopStep
    <3> QED
      BY <3>1, <3>2
  <2>4. ~(n + 1 > m) => ~LoopStep(p, t, loop, s)
    <3>1. ~(n + 1 <= n)
      BY <1>0
    <3>2. ~Fits(p, t, s) /\ ~(s.px <= n) /\ ~(s.star # 0)
      BY <2>1, <3>1 DEF Fits
    <3> QED
      BY <2>1, <3>2, Zenon DEF LoopStep
  <2>5. MaStraight(p, t) <=> n = m /\ Letters(p, t, n)
    BY <1>0 DEF MaStraight, Letters
  <2>6. /\ MaGlobStar(p, t) => n <= m /\ Letters(p, t, n) /\ loop[s]
        /\ n <= m /\ Letters(p, t, n) /\ loop[s] => MaGlobStar(p, t)
    <3>1. n \in 0..n /\ \A i \in 1..n : p[i] # "*"
      BY <1>0, <1>4
    <3> QED
      BY <1>2, <3>1 DEF s
  <2> HIDE DEF n, m
  <2>7. (n <= m /\ n + 1 > m) <=> n = m
    BY <1>0
  <2>8. MaGlobStar(p, t) => MaStraight(p, t)
    BY <2>2, <2>4, <2>5, <2>6, <2>7
  <2>9. MaStraight(p, t) => MaGlobStar(p, t)
    BY <2>2, <2>3, <2>5, <2>6, <2>7
  <2> QED
    BY <2>8, <2>9 DEF MaStraight
<1> QED
  BY <1>3, <1>4

\* perms.go globStar and matchPattern: over texts of every length, a rule without a star
\* is for what it spells, letter by letter; one with a star is for nothing that differs
\* from it before the star, and misses no target it means but such as have a star
\* themselves; and the rule for what is under a directory is also one for the directory.
THEOREM PatternMeansWhatItSays ==
  ASSUME NEW L, NEW p \in Seq(L), NEW t \in Seq(L)
  PROVE  MaPatternRight([pattern |-> p, target |-> t])
<1> DEFINE e == <<"/", "*", "*">>
           q == p \o e
<1>a. \A s \in Seq(L) : "*" \notin ToSet(s) => \A j \in DOMAIN s : s[j] # "*"
  BY DEF ToSet
<1>1. MaMeans(p, t, TRUE) /\ "*" \notin ToSet(t) => MaPattern(p, t)
  <2> SUFFICES ASSUME MaMeans(p, t, TRUE), "*" \notin ToSet(t) PROVE MaPattern(p, t)
    OBVIOUS
  <2>1. \A j \in DOMAIN t : t[j] # "*"
    BY <1>a
  <2>2. MaGlobStar(p, t)
    BY <2>1, GlobMissesNothing
  <2> QED
    BY <2>2 DEF MaPattern
<1>b. MaGlobStar(p, t) => \A i \in DOMAIN p : (\A k \in 1..i : p[k] # "*") => i \in DOMAIN t /\ p[i] \in {"?", t[i]}
  BY GlobSpells
<1>c. p # <<>> /\ "*" \notin ToSet(p) => (MaPattern(p, t) <=> MaStraight(p, t))
  <2> SUFFICES ASSUME p # <<>>, "*" \notin ToSet(p) PROVE MaPattern(p, t) <=> MaStraight(p, t)
    OBVIOUS
  <2>1. \A i \in DOMAIN p : p[i] # "*"
    BY <1>a
  <2>2. MaGlobStar(p, t) <=> MaStraight(p, t)
    BY <2>1, GlobSpells
  <2>3. p # <<"*">>
    BY <2>1
  <2>4. ASSUME Len(p) - 3 >= 0 PROVE SubSeq(p, Len(p) - 3 + 1, Len(p) - 3 + 3) # <<"/", "*", "*">>
    <3> DEFINE d == SubSeq(p, Len(p) - 2, Len(p))
    <3>1. Len(p) \in Nat /\ Len(p) - 3 + 1 = Len(p) - 2 /\ Len(p) - 3 + 3 = Len(p) /\ Len(p) - 2 >= 1
      BY <2>4
    <3>2. d[3] = p[Len(p)]
      BY <3>1
    <3>3. p[Len(p)] # "*"
      BY <2>1, <3>1
    <3> HIDE DEF d
    <3>4. d # <<"/", "*", "*">>
      BY <3>2, <3>3
    <3> QED
      BY <3>1, <3>4 DEF d
  <2> QED
    BY <2>2, <2>3, <2>4, Zenon DEF MaPattern
<1>2. MaPattern(q, p)
  <2> DEFINE M == L \cup {"/", "*"}
             n == Len(p)
  <2>1. p \in Seq(M) /\ e \in Seq(M) /\ n \in Nat /\ Len(e) = 3
    OBVIOUS
  <2>2. e[1] = "/" /\ e[2] = "*" /\ e[3] = "*"
    OBVIOUS
  <2> HIDE DEF M, n
  <2>3. q \in Seq(M) /\ Len(q) = n + 3
    BY <2>1 DEF n
  <2>4. Len(q) - 3 = n /\ n >= 0
    BY <2>1, <2>3
  <2>5. \A i \in 1..n : q[i] = p[i]
    BY <2>1 DEF n
  <2>6. q[n + 1] = "/" /\ q[n + 2] = "*" /\ q[n + 3] = "*"
    BY <2>1, <2>2 DEF n
  <2> HIDE DEF q, e
  <2>7. SubSeq(q, 1, n) = p
    <3>1. SubSeq(q, 1, n) \in Seq(M) /\ Len(SubSeq(q, 1, n)) = n
      BY <2>1, <2>3
    <3>2. \A i \in 1..n : SubSeq(q, 1, n)[i] = p[i]
      BY <2>1, <2>3, <2>5
    <3> QED
      BY <2>1, <3>1, <3>2, SeqEqual DEF n
  <2>8. SubSeq(q, n + 1, n + 3) = <<"/", "*", "*">>
    <3> DEFINE d == SubSeq(q, n + 1, n + 3)
    <3>1. d \in Seq(M) /\ Len(d) = 3
      BY <2>1, <2>3
    <3>2. d[1] = q[n + 1] /\ d[2] = q[n + 2] /\ d[3] = q[n + 3]
      BY <2>1, <2>3
    <3> HIDE DEF d
    <3>3. \A i \in 1..3 : d[i] = e[i]
      <4>1. d[1] = e[1] /\ d[2] = e[2] /\ d[3] = e[3]
        BY <2>2, <2>6, <3>2
      <4>2. \A i \in 1..3 : i = 1 \/ i = 2 \/ i = 3
        OBVIOUS
      <4> QED
        BY <4>1, <4>2, Zenon
    <3>4. d = e
      BY <2>1, <3>1, <3>3, SeqEqual
    <3> QED
      BY <3>4 DEF d, e
  <2> QED
    BY <2>4, <2>7, <2>8, Zenon DEF MaPattern
<1> QED
  BY <1>1, <1>b, <1>c, <1>2, Zenon DEF MaPatternRight

----------------------------------------------------------------------------
(* Schedules.                                                               *)

NextStep(s, from, loop, t) ==
  IF t > from + TtHorizon THEN 0 ELSE IF TtMatches(s, t) THEN t ELSE loop[t + 1]

LEMMA NextIs ==
  ASSUME NEW s, NEW from \in Nat
  PROVE  \E loop : /\ TtNextTime(s, from) = loop[from + 1]
                   /\ \A t \in Nat : loop[t] = NextStep(s, from, loop, t)
<1> DEFINE n == from + TtHorizon
           rank == [t \in Nat |-> IF t > n THEN 0 ELSE n + 1 - t]
           step == [a \in [Nat -> Nat] \X Nat |-> NextStep(s, from, a[1], a[2])]
<1>0. n \in Nat
  BY TtAssumption
<1>1. ASSUME NEW f \in [Nat -> Nat], NEW t \in Nat
      PROVE  /\ step[<<f, t>>] = NextStep(s, from, f, t)
             /\ NextStep(s, from, f, t) \in Nat
  BY DEF NextStep
<1>2. step \in [[Nat -> Nat] \X Nat -> Nat]
  <2>1. ASSUME NEW a \in [Nat -> Nat] \X Nat PROVE NextStep(s, from, a[1], a[2]) \in Nat
    BY <1>1
  <2> QED
    BY <2>1
<1>3. rank \in [Nat -> Nat] /\ \A t \in Nat : t > n \/ rank[t + 1] < rank[t]
  BY <1>0
<1>4. ASSUME NEW f \in [Nat -> Nat], NEW g \in [Nat -> Nat], NEW t \in Nat, \A u \in Nat : rank[u] < rank[t] => f[u] = g[u]
      PROVE  NextStep(s, from, f, t) = NextStep(s, from, g, t)
  <2> HIDE DEF rank
  <2>1. t > n \/ f[t + 1] = g[t + 1]
    BY <1>3, <1>4
  <2> QED
    BY <2>1 DEF NextStep
<1> HIDE DEF rank, step
<1>5. LooksBelow(Nat, Nat, rank, step)
  <2>1. \A f, g \in [Nat -> Nat], t \in Nat : (\A u \in Nat : rank[u] < rank[t] => f[u] = g[u]) => step[<<f, t>>] = step[<<g, t>>]
    BY <1>1, <1>4, SMTT(30)
  <2> QED
    BY <1>2, <1>3, <2>1 DEF LooksBelow
<1>6. PICK f \in [Nat -> Nat] : Solves(f, Nat, step)
  BY <1>5, Recursion
<1>7. f = [t \in Nat |-> NextStep(s, from, f, t)]
  <2>1. \A t \in Nat : f[t] = NextStep(s, from, f, t)
    BY <1>1, <1>6 DEF Solves
  <2> QED
    BY <2>1
<1> DEFINE loop == CHOOSE loop : loop = [t \in Nat |-> NextStep(s, from, loop, t)]
<1>8. loop = [t \in Nat |-> NextStep(s, from, loop, t)]
  BY <1>7, Zenon
<1>9. TtNextTime(s, from) = loop[from + 1]
  BY Zenon DEF TtNextTime, NextStep
<1>10. ASSUME NEW t \in Nat PROVE loop[t] = NextStep(s, from, loop, t)
  BY <1>8, Zenon
<1> HIDE DEF loop
<1> QED
  BY <1>9, <1>10, Zenon

\* The minute found is the first that matches, and none is found only where the horizon
\* has none.
LEMMA NextFinds ==
  ASSUME NEW s, NEW from \in Nat
  PROVE  LET next == TtNextTime(s, from) IN
         \/ next = 0 /\ \A t \in (from + 1)..(from + TtHorizon) : ~TtMatches(s, t)
         \/ /\ next \in (from + 1)..(from + TtHorizon) /\ TtMatches(s, next)
            /\ \A t \in (from + 1)..(next - 1) : ~TtMatches(s, t)
<1> DEFINE n == from + TtHorizon
           Found(i, next) ==
             \/ next = 0 /\ \A t \in i..n : ~TtMatches(s, t)
             \/ next \in i..n /\ TtMatches(s, next) /\ \A t \in i..(next - 1) : ~TtMatches(s, t)
<1>0. n \in Nat /\ from + 1 \in 1..(n + 1)
  BY TtAssumption
<1>1. PICK loop : TtNextTime(s, from) = loop[from + 1] /\ \A t \in Nat : loop[t] = NextStep(s, from, loop, t)
  BY NextIs
<1> DEFINE P == {i \in 1..(n + 1) : Found(i, loop[i])}
<1>2. n + 1 \in P
  <2>1. loop[n + 1] = 0
    BY <1>0, <1>1 DEF NextStep
  <2> QED
    BY <1>0, <2>1
<1>3. ASSUME NEW i \in 1..n, i + 1 \in P PROVE i \in P
  <2>1. loop[i] = IF TtMatches(s, i) THEN i ELSE loop[i + 1]
    BY <1>0, <1>1 DEF NextStep
  <2>2. CASE TtMatches(s, i)
    BY <1>0, <2>1, <2>2
  <2>3. CASE ~TtMatches(s, i)
    <3>1. Found(i + 1, loop[i + 1]) /\ loop[i] = loop[i + 1]
      BY <1>3, <2>1, <2>3
    <3>2. CASE loop[i] = 0
      <4>1. \A t \in (i + 1)..n : ~TtMatches(s, t)
        BY <1>0, <3>1, <3>2
      <4>2. \A t \in i..n : t = i \/ t \in (i + 1)..n
        BY <1>0
      <4> QED
        BY <1>0, <2>3, <3>2, <4>1, <4>2
    <3>3. CASE loop[i] # 0
      <4>1. loop[i] \in (i + 1)..n /\ TtMatches(s, loop[i]) /\ \A t \in (i + 1)..(loop[i] - 1) : ~TtMatches(s, t)
        BY <3>1, <3>3
      <4>2. \A t \in i..(loop[i] - 1) : t = i \/ t \in (i + 1)..(loop[i] - 1)
        BY <1>0, <4>1
      <4> QED
        BY <1>0, <2>3, <4>1, <4>2
    <3> QED
      BY <3>2, <3>3
  <2> QED
    BY <2>2, <2>3
<1>4. 1..(n + 1) \subseteq P
  <2> HIDE DEF P, n
  <2> QED
    BY <1>0, <1>2, <1>3, Backwards, P \in SUBSET Nat, ZenonT(60) DEF P
<1>5. Found(from + 1, loop[from + 1])
  BY <1>0, <1>4
<1> QED
  BY <1>1, <1>5

\* A schedule is due just when a minute of it lies behind the last look and not behind now.
LEMMA DueIs ==
  ASSUME NEW s, NEW last \in Nat, NEW now \in Nat, now <= last + TtHorizon
  PROVE  TtDue(s, last, now) <=> \E t \in (last + 1)..now : TtMatches(s, t)
<1> DEFINE next == TtNextTime(s, last)
<1>0. TtHorizon \in Nat
  BY TtAssumption
<1>1. \/ next = 0 /\ \A t \in (last + 1)..(last + TtHorizon) : ~TtMatches(s, t)
      \/ /\ next \in (last + 1)..(last + TtHorizon) /\ TtMatches(s, next)
         /\ \A t \in (last + 1)..(next - 1) : ~TtMatches(s, t)
  BY NextFinds
<1> HIDE DEF next
<1>2. TtDue(s, last, now) <=> now > last /\ next # 0 /\ next <= now
  BY Zenon DEF TtDue, next
<1>3. CASE next = 0
  <2>1. \A t \in (last + 1)..now : t \in (last + 1)..(last + TtHorizon)
    BY <1>0
  <2>2. \A t \in (last + 1)..(last + TtHorizon) : ~TtMatches(s, t)
    BY <1>0, <1>1, <1>3
  <2> QED
    BY <1>2, <1>3, <2>1, <2>2
<1>4. CASE next # 0
  <2>1. /\ next \in (last + 1)..(last + TtHorizon) /\ TtMatches(s, next)
        /\ \A t \in (last + 1)..(next - 1) : ~TtMatches(s, t)
    BY <1>1, <1>4
  <2>2. ASSUME NEW t \in (last + 1)..now, TtMatches(s, t) PROVE next <= now /\ now > last
    <3>1. ~(t \in (last + 1)..(next - 1))
      BY <2>1, <2>2
    <3> QED
      BY <1>0, <2>1, <2>2, <3>1
  <2>3. next <= now => next \in (last + 1)..now
    BY <1>0, <2>1
  <2> QED
    BY <1>2, <1>4, <2>1, <2>2, <2>3
<1> QED
  BY <1>3, <1>4

\* cron.go Next and Due: whatever the schedule, a watcher that looks at any times within
\* the horizon misses no minute of it and runs none twice.
THEOREM DueRightAlways ==
  ASSUME NEW s, NEW last \in Nat, NEW now \in Nat, now <= last + TtHorizon
  PROVE  TtDueRight([s |-> s, last |-> last, now |-> now])
<1> DEFINE x == [s |-> s, last |-> last, now |-> now]
           between == {t \in (last + 1)..now : TtMatches(s, t)}
<1>0. TtHorizon \in Nat
  BY TtAssumption
<1>1. TtDue(s, last, now) <=> \E t \in (last + 1)..now : TtMatches(s, t)
  BY DueIs
<1>2. TtDue(s, last, now) = (now > last /\ between # {})
  <2>1. between # {} => now > last
    BY <1>0
  <2>2. TtDue(s, last, now) \in BOOLEAN
    BY DEF TtDue
  <2> QED
    BY <1>1, <2>1, <2>2
<1>3. TtNextTime(s, last) # 0 => TtNextTime(s, last) > last /\ TtMatches(s, TtNextTime(s, last))
  BY <1>0, NextFinds
<1>4. ASSUME NEW mid \in last..now, ~TtDue(s, last, mid)
      PROVE  TtDue(s, last, now) = TtDue(s, mid, now)
  <2>1. mid \in Nat /\ mid <= last + TtHorizon /\ now <= mid + TtHorizon
    BY <1>0
  <2>2. TtDue(s, last, mid) <=> \E t \in (last + 1)..mid : TtMatches(s, t)
    BY <2>1, DueIs
  <2>3. TtDue(s, mid, now) <=> \E t \in (mid + 1)..now : TtMatches(s, t)
    BY <2>1, DueIs
  <2>4. \A t \in (last + 1)..now : t \in (last + 1)..mid \/ t \in (mid + 1)..now
    BY <2>1
  <2>5. \A t \in (mid + 1)..now : t \in (last + 1)..now
    BY <2>1
  <2>6. TtDue(s, last, now) <=> TtDue(s, mid, now)
    BY <1>1, <1>4, <2>2, <2>3, <2>4, <2>5
  <2> QED
    BY <2>6 DEF TtDue
<1>5. x.s = s /\ x.last = last /\ x.now = now
  OBVIOUS
<1> HIDE DEF x
<1> QED
  BY <1>2, <1>3, <1>4, <1>5, Zenon DEF TtDueRight, x

----------------------------------------------------------------------------
(* Retries and streams.                                                     *)

RetryStep(outs, attempts, go, i) ==
  IF outs[i] # "network" \/ i = attempts THEN [calls |-> i, out |-> outs[i]] ELSE go[i + 1]

LEMMA RetryIs ==
  ASSUME NEW n \in Int, NEW outs \in Seq(Outcomes), n <= Len(outs), 1 <= Len(outs)
  PROVE  LET attempts == IF n < 1 THEN 1 ELSE n IN
         \E go : /\ RtRetry(n, outs) = go[1]
                 /\ \A i \in 1..attempts : go[i] = RetryStep(outs, attempts, go, i)
<1> DEFINE attempts == IF n < 1 THEN 1 ELSE n
           m == attempts - 1
           V == [calls : Nat, out : Outcomes]
           end == [calls |-> attempts, out |-> outs[attempts]]
           step == [a \in (1..m) \X V |-> IF outs[a[1]] # "network" THEN [calls |-> a[1], out |-> outs[a[1]]] ELSE a[2]]
<1>1. /\ m \in Nat /\ attempts = m + 1 /\ m + 1 \in 1..Len(outs) /\ \A i \in 1..(m + 1) : outs[i] \in Outcomes
  OBVIOUS
<1> HIDE DEF attempts, m
<1>2. StepsBack(m, V, end, step)
  <2>1. end \in V
    BY <1>1
  <2>2. ASSUME NEW a \in (1..m) \X V PROVE step[a] \in V
    <3>1. a[1] \in 1..m /\ a[2] \in V
      OBVIOUS
    <3>2. [calls |-> a[1], out |-> outs[a[1]]] \in V
      BY <1>1, <3>1
    <3> HIDE DEF V
    <3> QED
      BY <3>1, <3>2
  <2> QED
    BY <2>1, <2>2 DEF StepsBack
<1>3. PICK f \in [1..(m + 1) -> V] : GoesBack(f, m, V, end, step)
  <2> HIDE DEF V, end, step
  <2> QED
    BY <1>1, <1>2, ListRecursion
<1>4. f[m + 1] = end /\ \A i \in 1..m : f[i] = IF outs[i] # "network" THEN [calls |-> i, out |-> outs[i]] ELSE f[i + 1]
  <2>1. f[m + 1] = end
    <3> HIDE DEF step, V, end
    <3> QED
      BY <1>3 DEF GoesBack
  <2>2. ASSUME NEW i \in 1..m PROVE f[i] = IF outs[i] # "network" THEN [calls |-> i, out |-> outs[i]] ELSE f[i + 1]
    <3>1. f[i] = step[<<i, f[i + 1]>>] /\ <<i, f[i + 1]>> \in (1..m) \X V
      <4> HIDE DEF step, V
      <4> QED
        BY <1>3 DEF GoesBack
    <3> HIDE DEF V
    <3> QED
      BY <3>1
  <2> QED
    BY <2>1, <2>2
<1>5. f = [i \in 1..attempts |-> RetryStep(outs, attempts, f, i)]
  <2> SUFFICES ASSUME NEW i \in 1..attempts PROVE f[i] = RetryStep(outs, attempts, f, i)
    BY <1>1, <1>3
  <2>1. CASE i = attempts
    BY <1>1, <1>4, <2>1 DEF RetryStep
  <2>2. CASE i # attempts
    <3>1. i \in 1..m
      BY <1>1, <2>2
    <3> QED
      BY <1>4, <2>2, <3>1 DEF RetryStep
  <2> QED
    BY <2>1, <2>2
<1> DEFINE go == CHOOSE go : go = [i \in 1..attempts |-> RetryStep(outs, attempts, go, i)]
<1>6. go = [i \in 1..attempts |-> RetryStep(outs, attempts, go, i)]
  BY <1>5, Zenon
<1>7. RtRetry(n, outs) = go[1]
  BY Zenon DEF RtRetry, RetryStep, attempts
<1>8. ASSUME NEW i \in 1..attempts PROVE go[i] = RetryStep(outs, attempts, go, i)
  BY <1>6, Zenon
<1> HIDE DEF go
<1> QED
  BY <1>7, <1>8, Zenon DEF attempts

\* resilience.go RetryTransient: however many attempts it is given and however each
\* ends, only a network error is tried again, and it is given up on after the last.
THEOREM RetryRightAlways ==
  ASSUME NEW n \in Int, NEW outs \in Seq(Outcomes), n <= Len(outs), 1 <= Len(outs)
  PROVE  RtRetryRight([n |-> n, outs |-> outs])
<1> DEFINE attempts == IF n < 1 THEN 1 ELSE n
           m == attempts - 1
<1>0. m \in Nat /\ attempts = m + 1 /\ attempts \in Nat /\ attempts >= 1 /\ (n >= 1 => attempts = n) /\ n <= attempts
  OBVIOUS
<1>1. PICK go : RtRetry(n, outs) = go[1] /\ \A i \in 1..attempts : go[i] = RetryStep(outs, attempts, go, i)
  BY RetryIs
<1> HIDE DEF attempts, m
<1> DEFINE Ends(i, got) == /\ got.calls \in i..attempts
                           /\ \A k \in i..(got.calls - 1) : outs[k] = "network"
                           /\ got.out = "network" => got.calls = attempts
           P == {i \in 1..(m + 1) : Ends(i, go[i])}
<1>2. m + 1 \in P
  <2>1. go[m + 1] = [calls |-> m + 1, out |-> outs[m + 1]]
    BY <1>0, <1>1 DEF RetryStep
  <2> QED
    BY <1>0, <2>1
<1>3. ASSUME NEW i \in 1..m, i + 1 \in P PROVE i \in P
  <2>1. go[i] = IF outs[i] # "network" THEN [calls |-> i, out |-> outs[i]] ELSE go[i + 1]
    BY <1>0, <1>1 DEF RetryStep
  <2>2. CASE outs[i] = "network"
    <3>1. Ends(i + 1, go[i]) /\ go[i] = go[i + 1]
      BY <1>3, <2>1, <2>2
    <3>2. \A k \in i..(go[i].calls - 1) : k = i \/ k \in (i + 1)..(go[i].calls - 1)
      BY <1>0, <3>1
    <3> QED
      BY <1>0, <2>2, <3>1, <3>2
  <2>3. CASE outs[i] # "network"
    BY <1>0, <2>1, <2>3
  <2> QED
    BY <2>2, <2>3
<1>4. 1..(m + 1) \subseteq P
  <2> HIDE DEF P
  <2> QED
    BY <1>0, <1>2, <1>3, Backwards, P \in SUBSET Nat, ZenonT(60) DEF P
<1>5. Ends(1, go[1])
  BY <1>0, <1>4
<1> QED
  BY <1>0, <1>1, <1>5 DEF RtRetryRight

Events == {"text", "done", "shut", "busy", "refused"}
StreamsOf == [text : BOOLEAN, end : {"done", "shut", "busy", "refused"}]
Seen(n) == [of : 1..n, is : Events]

ChatText(streams, i) == IF streams[i].text THEN <<[of |-> i, is |-> "text"]>> ELSE <<>>

\* What is seen of stream i before rest, what is seen of those after it.
ChatSeen(streams, i, rest) ==
  IF streams[i].end \in {"done", "refused"} \/ (streams[i].end = "busy" /\ i = Len(streams))
  THEN ChatText(streams, i) \o <<[of |-> i, is |-> streams[i].end]>>
  ELSE ChatText(streams, i) \o rest

LEMMA ChatIs ==
  ASSUME NEW streams \in Seq(StreamsOf)
  PROVE  LET n == Len(streams) IN
         \E go : /\ RtChat(streams) = go[1] /\ go[n + 1] = <<>>
                 /\ \A i \in 1..n : go[i] = ChatSeen(streams, i, go[i + 1])
<1> DEFINE n == Len(streams)
           V == Seq(Seen(n))
           Step(i, rest) == ChatSeen(streams, i, rest)
           step == [a \in (1..n) \X V |-> Step(a[1], a[2])]
<1>1. n \in Nat /\ \A i \in 1..n : streams[i] \in StreamsOf
  OBVIOUS
<1>2. ASSUME NEW i \in 1..n, NEW rest \in V PROVE Step(i, rest) \in V
  <2> DEFINE a == [of |-> i, is |-> "text"]
             b == [of |-> i, is |-> streams[i].end]
  <2>1. a \in Seen(n) /\ b \in Seen(n)
    BY <1>1 DEF Seen, Events, StreamsOf
  <2> HIDE DEF a, b
  <2>2. <<a>> \in V /\ <<b>> \in V /\ <<>> \in V
    BY <2>1
  <2>3. ChatText(streams, i) \in V
    BY <2>2 DEF ChatText, a
  <2>4. ChatText(streams, i) \o <<b>> \in V /\ ChatText(streams, i) \o rest \in V
    BY <1>2, <2>2, <2>3
  <2> QED
    BY <2>4 DEF ChatSeen, b
<1>3. StepsBack(n, V, <<>>, step)
  <2>1. <<>> \in V
    OBVIOUS
  <2>2. ASSUME NEW a \in (1..n) \X V PROVE Step(a[1], a[2]) \in V
    <3> HIDE DEF V, Step
    <3> QED
      BY <1>2
  <2> HIDE DEF V, Step
  <2> QED
    BY <2>1, <2>2 DEF StepsBack
<1>4. PICK f \in [1..(n + 1) -> V] : GoesBack(f, n, V, <<>>, step)
  <2> HIDE DEF n, V, step
  <2> QED
    BY <1>1, <1>3, ListRecursion
<1>5. f[n + 1] = <<>> /\ \A i \in 1..n : f[i] = Step(i, f[i + 1])
  <2>1. f[n + 1] = <<>>
    <3> HIDE DEF step, V
    <3> QED
      BY <1>4 DEF GoesBack
  <2>2. ASSUME NEW i \in 1..n PROVE f[i] = Step(i, f[i + 1])
    <3>1. f[i] = step[<<i, f[i + 1]>>] /\ <<i, f[i + 1]>> \in (1..n) \X V
      <4> HIDE DEF step, V
      <4> QED
        BY <1>4 DEF GoesBack
    <3> HIDE DEF V, Step
    <3> QED
      BY <3>1
  <2> QED
    BY <2>1, <2>2
<1> DEFINE Go(g, i) ==
             IF i > n THEN <<>>
             ELSE LET s == streams[i] IN
                  IF s.end \in {"done", "refused"} \/ (s.end = "busy" /\ i = n)
                  THEN ChatText(streams, i) \o <<[of |-> i, is |-> s.end]>>
                  ELSE ChatText(streams, i) \o g[i + 1]
           go == CHOOSE go : go = [i \in 1..(n + 1) |-> Go(go, i)]
<1>6. \A g, i : i \in 1..(n + 1) => Go(g, i) = IF i = n + 1 THEN <<>> ELSE Step(i, g[i + 1])
  <2> SUFFICES ASSUME NEW g, NEW i \in 1..(n + 1) PROVE Go(g, i) = IF i = n + 1 THEN <<>> ELSE Step(i, g[i + 1])
    OBVIOUS
  <2>1. i > n <=> i = n + 1
    BY <1>1
  <2> QED
    BY <2>1, Zenon DEF ChatSeen
<1>7. f = [i \in 1..(n + 1) |-> Go(f, i)]
  <2> SUFFICES ASSUME NEW i \in 1..(n + 1) PROVE f[i] = Go(f, i)
    BY <1>4, Zenon
  <2>1. i = n + 1 \/ i \in 1..n
    BY <1>1
  <2> HIDE DEF Go, Step, n
  <2> QED
    BY <1>5, <1>6, <2>1
<1>8. go = [i \in 1..(n + 1) |-> Go(go, i)]
  BY <1>7, Zenon
<1>9. RtChat(streams) = go[1]
  BY Zenon DEF RtChat, ChatText
<1>10. \A i \in 1..(n + 1) : go[i] = Go(go, i)
  BY <1>8, Zenon
<1> HIDE DEF go, Go
<1>11. go[n + 1] = <<>> /\ \A i \in 1..n : go[i] = Step(i, go[i + 1])
  <2>1. n + 1 \in 1..(n + 1) /\ \A i \in 1..n : i \in 1..(n + 1) /\ i # n + 1
    BY <1>1
  <2> HIDE DEF Step, n
  <2> QED
    BY <1>6, <1>10, <2>1
<1> QED
  BY <1>9, <1>11, Zenon

\* What the reader is told of the streams from i on.
Told(streams, i, got) ==
  LET n == Len(streams) IN
  /\ got \in Seq(Seen(n))
  /\ \A k \in 1..Len(got) : i <= got[k].of
  /\ \A k \in 1..Len(got) : got[k].is # "text" => k = Len(got)
  /\ \A k, l \in 1..Len(got) : k <= l => got[k].of <= got[l].of
  /\ (Len(got) = 0 \/ got[Len(got)].is = "text") /\ i <= n => streams[n].end = "shut"
  /\ \A k \in 1..Len(got) : \A m \in i..(got[k].of - 1) : streams[m].end \in {"busy", "shut"}

\* One item in front of a list.
LEMMA InFront ==
  ASSUME NEW S, NEW a \in S, NEW g \in Seq(S)
  PROVE  /\ <<a>> \o g \in Seq(S) /\ Len(<<a>> \o g) = Len(g) + 1
         /\ (<<a>> \o g)[1] = a
         /\ \A k \in 1..(Len(g) + 1) : k = 1 \/ (k - 1 \in 1..Len(g) /\ (<<a>> \o g)[k] = g[k - 1])
<1>1. <<a>> \in Seq(S) /\ Len(<<a>>) = 1 /\ <<a>>[1] = a /\ Len(g) \in Nat
  OBVIOUS
<1> QED
  BY <1>1, ConcatProperties

\* A stream given up on: what it said stands in front of what the next ones say.
LEMMA TextBefore ==
  ASSUME NEW streams \in Seq(StreamsOf), NEW i \in 1..Len(streams), NEW g, Told(streams, i + 1, g),
         streams[i].end \in {"busy", "shut"}, i = Len(streams) => streams[i].end = "shut"
  PROVE  Told(streams, i, ChatText(streams, i) \o g)
<1> DEFINE n == Len(streams)
           a == [of |-> i, is |-> "text"]
<1>1. n \in Nat /\ i \in Nat /\ i <= n /\ a \in Seen(n) /\ a.of = i /\ a.is = "text"
  BY DEF Seen, Events
<1>2. /\ g \in Seq(Seen(n)) /\ Len(g) \in Nat
      /\ \A k \in 1..Len(g) : g[k].of \in 1..n /\ i + 1 <= g[k].of
      /\ \A k \in 1..Len(g) : g[k].is # "text" => k = Len(g)
      /\ \A k, l \in 1..Len(g) : k <= l => g[k].of <= g[l].of
      /\ (Len(g) = 0 \/ g[Len(g)].is = "text") /\ i + 1 <= n => streams[n].end = "shut"
      /\ \A k \in 1..Len(g) : \A m \in (i + 1)..(g[k].of - 1) : streams[m].end \in {"busy", "shut"}
  <2>1. g \in Seq(Seen(n))
    BY DEF Told
  <2>2. Len(g) \in Nat /\ \A k \in 1..Len(g) : g[k] \in Seen(n)
    BY <2>1
  <2>3. \A k \in 1..Len(g) : g[k].of \in 1..n
    BY <2>2 DEF Seen
  <2> HIDE DEF n
  <2> QED
    BY <2>1, <2>2, <2>3 DEF Told, n
<1>3. \A k \in 1..Len(g) : \A m \in i..(g[k].of - 1) : m = i \/ m \in (i + 1)..(g[k].of - 1)
  BY <1>1, <1>2
<1>4. i = n \/ i + 1 <= n
  BY <1>1
<1> HIDE DEF n, a
<1>5. CASE ~streams[i].text
  <2>1. ChatText(streams, i) \o g = g
    BY <1>2, <1>5, ConcatEmptySeq DEF ChatText
  <2>2. \A k \in 1..Len(g) : i <= g[k].of
    BY <1>1, <1>2
  <2>3. (Len(g) = 0 \/ g[Len(g)].is = "text") => streams[n].end = "shut"
    BY <1>2, <1>4 DEF n
  <2>4. \A k \in 1..Len(g) : \A m \in i..(g[k].of - 1) : streams[m].end \in {"busy", "shut"}
    BY <1>2, <1>3
  <2> QED
    BY <1>2, <2>1, <2>2, <2>3, <2>4, Zenon DEF Told, n
<1>6. CASE streams[i].text
  <2> DEFINE h == <<a>> \o g
  <2>1. ChatText(streams, i) \o g = h
    BY <1>6 DEF ChatText, a
  <2>2. /\ h \in Seq(Seen(n)) /\ Len(h) = Len(g) + 1 /\ h[1] = a
        /\ \A k \in 1..Len(h) : k = 1 \/ (k - 1 \in 1..Len(g) /\ h[k] = g[k - 1])
    BY <1>1, <1>2, InFront
  <2> HIDE DEF h
  <2>3. ASSUME NEW k \in 1..Len(h) PROVE i <= h[k].of
    <3>1. CASE k = 1
      BY <1>1, <2>2, <3>1
    <3>2. CASE k # 1
      <4>1. k - 1 \in 1..Len(g) /\ h[k] = g[k - 1]
        BY <2>2, <3>2
      <4>2. i + 1 <= g[k - 1].of /\ g[k - 1].of \in 1..n
        BY <1>2, <4>1
      <4> QED
        BY <1>1, <4>1, <4>2
    <3> QED
      BY <3>1, <3>2
  <2>4. ASSUME NEW k \in 1..Len(h), h[k].is # "text" PROVE k = Len(h)
    <3>1. k # 1
      BY <1>1, <2>2, <2>4
    <3>2. k - 1 \in 1..Len(g) /\ h[k] = g[k - 1]
      BY <2>2, <3>1
    <3>3. k - 1 = Len(g)
      BY <1>2, <2>4, <3>2
    <3> QED
      BY <1>2, <2>2, <3>3
  <2>5. ASSUME NEW k \in 1..Len(h), NEW l \in 1..Len(h), k <= l PROVE h[k].of <= h[l].of
    <3>1. CASE k = 1
      BY <1>1, <2>2, <2>3, <3>1
    <3>2. CASE k # 1
      <4>1. l # 1 /\ k - 1 <= l - 1
        BY <2>5, <3>2
      <4>2. k - 1 \in 1..Len(g) /\ l - 1 \in 1..Len(g) /\ h[k] = g[k - 1] /\ h[l] = g[l - 1]
        BY <2>2, <3>2, <4>1
      <4> QED
        BY <1>2, <4>1, <4>2
    <3> QED
      BY <3>1, <3>2
  <2>6. h[Len(h)].is = "text" => streams[n].end = "shut"
    <3>1. Len(g) = 0 \/ (Len(g) \in 1..Len(g) /\ h[Len(h)] = g[Len(g)])
      <4>1. Len(h) \in 1..Len(h) /\ Len(h) - 1 = Len(g)
        BY <1>2, <2>2
      <4>2. Len(h) = 1 \/ (Len(h) - 1 \in 1..Len(g) /\ h[Len(h)] = g[Len(h) - 1])
        BY <2>2, <4>1
      <4> QED
        BY <1>2, <4>1, <4>2, SMTT(30)
    <3> QED
      BY <1>2, <1>4, <3>1 DEF n
  <2>7. Len(h) # 0
    BY <1>2, <2>2
  <2>8. \A k \in 1..Len(h) : \A m \in i..(h[k].of - 1) : streams[m].end \in {"busy", "shut"}
    <3> SUFFICES ASSUME NEW k \in 1..Len(h), NEW m \in i..(h[k].of - 1) PROVE streams[m].end \in {"busy", "shut"}
      OBVIOUS
    <3>1. k # 1
      BY <1>1, <2>2
    <3>2. k - 1 \in 1..Len(g) /\ h[k] = g[k - 1]
      BY <2>2, <3>1
    <3> QED
      BY <1>2, <1>3, <3>2
  <2> QED
    BY <2>1, <2>2, <2>3, <2>4, <2>5, <2>6, <2>7, <2>8, Zenon DEF Told, n
<1> QED
  BY <1>5, <1>6

\* A stream whose ending is final: what it said and its ending are the last things told.
LEMMA EndingLast ==
  ASSUME NEW streams \in Seq(StreamsOf), NEW i \in 1..Len(streams), streams[i].end # "shut"
  PROVE  Told(streams, i, ChatText(streams, i) \o <<[of |-> i, is |-> streams[i].end]>>)
<1> DEFINE n == Len(streams)
           a == [of |-> i, is |-> "text"]
           b == [of |-> i, is |-> streams[i].end]
<1>1. /\ n \in Nat /\ i \in Nat /\ i <= n /\ streams[i].end # "text"
      /\ a \in Seen(n) /\ a.of = i /\ a.is = "text"
      /\ b \in Seen(n) /\ b.of = i /\ b.is # "text"
  <2>1. streams[i] \in StreamsOf
    OBVIOUS
  <2> QED
    BY <2>1 DEF Seen, Events, StreamsOf
<1> HIDE DEF n, a, b
<1>2. CASE ~streams[i].text
  <2> DEFINE h == <<b>>
  <2>1. h \in Seq(Seen(n)) /\ Len(h) = 1 /\ h[1] = b
    BY <1>1
  <2>2. ChatText(streams, i) \o <<b>> = h
    BY <1>2, <2>1, ConcatEmptySeq DEF ChatText
  <2> HIDE DEF h
  <2>3. /\ \A k \in 1..Len(h) : k = 1
        /\ ~(Len(h) = 0 \/ h[Len(h)].is = "text")
    BY <1>1, <2>1
  <2>4. \A k \in 1..Len(h) : \A m \in i..(h[k].of - 1) : FALSE
    BY <1>1, <2>1
  <2> QED
    <3>1. /\ \A k \in 1..Len(h) : i <= h[k].of
          /\ \A k, l \in 1..Len(h) : k <= l => h[k].of <= h[l].of
          /\ \A k \in 1..Len(h) : h[k].is # "text" => k = Len(h)
      BY <1>1, <2>1, <2>3
    <3> QED
      BY <2>1, <2>2, <2>3, <2>4, <3>1, Zenon DEF Told, n, b
<1>3. CASE streams[i].text
  <2> DEFINE h == <<a>> \o <<b>>
  <2>1. h \in Seq(Seen(n)) /\ Len(h) = 2 /\ h[1] = a /\ h[2] = b
    <3>1. <<b>> \in Seq(Seen(n)) /\ Len(<<b>>) = 1 /\ <<b>>[1] = b
      BY <1>1
    <3>2. /\ h \in Seq(Seen(n)) /\ Len(h) = Len(<<b>>) + 1 /\ h[1] = a
          /\ \A k \in 1..(Len(<<b>>) + 1) : k = 1 \/ (k - 1 \in 1..Len(<<b>>) /\ h[k] = <<b>>[k - 1])
      BY <1>1, <3>1, InFront
    <3> HIDE DEF h
    <3>3. 2 \in 1..(Len(<<b>>) + 1) /\ 2 # 1 /\ 2 - 1 = 1
      BY <3>1
    <3> QED
      BY <3>1, <3>2, <3>3
  <2>2. ChatText(streams, i) \o <<b>> = h
    BY <1>3 DEF ChatText, a
  <2> HIDE DEF h
  <2>3. /\ \A k \in 1..Len(h) : (k = 1 \/ k = 2) /\ h[k].of = i
        /\ ~(Len(h) = 0 \/ h[Len(h)].is = "text")
    BY <1>1, <2>1
  <2>4. \A k \in 1..Len(h) : \A m \in i..(h[k].of - 1) : FALSE
    BY <1>1, <2>3
  <2> QED
    <3>1. /\ \A k \in 1..Len(h) : i <= h[k].of
          /\ \A k, l \in 1..Len(h) : k <= l => h[k].of <= h[l].of
          /\ \A k \in 1..Len(h) : h[k].is # "text" => k = Len(h)
      BY <1>1, <2>1, <2>3
    <3> QED
      BY <2>1, <2>2, <2>3, <2>4, <3>1, Zenon DEF Told, n, b
<1> QED
  BY <1>2, <1>3

\* fallback.go Chat: however many providers the chain has and however each stream goes, its
\* reader is told of one ending at most, in the order of the providers, and of none only
\* where the last of them stopped without a word.
THEOREM ChatRightAlways == \A streams \in Seq(StreamsOf) : RtChatRight([streams |-> streams])
<1> SUFFICES ASSUME NEW streams \in Seq(StreamsOf) PROVE RtChatRight([streams |-> streams])
  OBVIOUS
<1> DEFINE n == Len(streams)
<1>1. n \in Nat /\ \A i \in 1..n : streams[i] \in StreamsOf
  OBVIOUS
<1>2. PICK go : /\ RtChat(streams) = go[1] /\ go[n + 1] = <<>>
                /\ \A i \in 1..n : go[i] = ChatSeen(streams, i, go[i + 1])
  BY ChatIs
<1> DEFINE P == {i \in 1..(n + 1) : Told(streams, i, go[i])}
<1>3. n + 1 \in P
  <2>1. <<>> \in Seq(Seen(n)) /\ Len(<<>>) = 0
    OBVIOUS
  <2>2. ~(n + 1 <= n) /\ \A k \in 1..0 : FALSE
    BY <1>1
  <2>3. Told(streams, n + 1, <<>>)
    BY <2>1, <2>2 DEF Told
  <2> QED
    BY <1>1, <1>2, <2>3
<1>4. ASSUME NEW i \in 1..n, i + 1 \in P PROVE i \in P
  <2> SUFFICES Told(streams, i, go[i])
    BY <1>1
  <2>1. streams[i].end \in {"done", "shut", "busy", "refused"}
    BY <1>1 DEF StreamsOf
  <2>2. CASE streams[i].end \in {"done", "refused"} \/ (streams[i].end = "busy" /\ i = n)
    <3>1. go[i] = ChatText(streams, i) \o <<[of |-> i, is |-> streams[i].end]>>
      BY <1>2, <2>2 DEF ChatSeen
    <3>2. streams[i].end # "shut"
      BY <2>2
    <3> QED
      BY <3>1, <3>2, EndingLast
  <2>3. CASE ~(streams[i].end \in {"done", "refused"} \/ (streams[i].end = "busy" /\ i = n))
    <3>1. go[i] = ChatText(streams, i) \o go[i + 1]
      BY <1>2, <2>3 DEF ChatSeen
    <3>2. streams[i].end \in {"busy", "shut"} /\ (i = n => streams[i].end = "shut")
      BY <2>1, <2>3
    <3>3. Told(streams, i + 1, go[i + 1])
      BY <1>4
    <3> QED
      BY <3>1, <3>2, <3>3, TextBefore
  <2> QED
    BY <2>2, <2>3
<1>5. 1..(n + 1) \subseteq P
  <2> HIDE DEF P, n
  <2> QED
    BY <1>1, <1>3, <1>4, Backwards, P \in SUBSET Nat DEF P
<1> DEFINE got == RtChat(streams)
<1>6. Told(streams, 1, got)
  BY <1>1, <1>2, <1>5
<1> HIDE DEF got, P
<1>7. /\ got \in Seq(Seen(n)) /\ Len(got) \in Nat /\ DOMAIN got = 1..Len(got) /\ (got = <<>> <=> Len(got) = 0)
      /\ DOMAIN streams = 1..n /\ (streams # <<>> <=> 1 <= n)
  <2>1. got \in Seq(Seen(n))
    BY <1>6 DEF Told
  <2>2. Len(got) \in Nat /\ DOMAIN got = 1..Len(got) /\ (got = <<>> <=> Len(got) = 0)
    BY <2>1
  <2>3. DOMAIN streams = 1..n /\ (streams # <<>> <=> 1 <= n)
    OBVIOUS
  <2> QED
    BY <2>1, <2>2, <2>3
<1>8. /\ \A k \in 1..Len(got) : got[k].is # "text" => k = Len(got)
      /\ \A k, l \in 1..Len(got) : k <= l => got[k].of <= got[l].of
      /\ (Len(got) = 0 \/ got[Len(got)].is = "text") /\ 1 <= n => streams[n].end = "shut"
      /\ \A k \in 1..Len(got) : \A m \in 1..(got[k].of - 1) : streams[m].end \in {"busy", "shut"}
  BY <1>6 DEF Told
<1>9. Last(got) = got[Len(got)] /\ Last(streams) = streams[n]
  BY DEF Last
<1> QED
  BY <1>7, <1>8, <1>9 DEF RtChatRight, got

Headers == [is : {"none", "seconds", "date", "epoch", "millis"}, v : Nat]

\* resilience.go ParseRetryAfter: whatever the two headers say and whenever they are read, a
\* wait ends when the provider said, or at once if that is past; one for a reset given in
\* milliseconds does not end before it.
THEOREM WaitRightAlways ==
  ASSUME NEW after \in Headers, NEW reset \in Headers, NEW now \in Nat
  PROVE  RtWaitRight([after |-> after, reset |-> reset, now |-> now])
<1>1. after.v \in Nat /\ reset.v \in Nat
  BY DEF Headers
<1> DEFINE wait == RtWait(after, reset, now)
<1>2. CASE after.is = "seconds"
  <2>1. wait = after.v
    BY <1>2 DEF RtWait
  <2> QED
    BY <1>1, <1>2, <2>1 DEF RtWaitRight
<1>3. CASE after.is = "date"
  <2>1. wait = IF after.v > now THEN after.v - now ELSE 0
    BY <1>3 DEF RtWait
  <2> QED
    BY <1>1, <1>3, <2>1 DEF RtWaitRight
<1>4. CASE after.is \notin {"seconds", "date"}
  <2>1. wait = IF reset.is \in {"epoch", "millis"} /\ reset.v > now THEN reset.v - now ELSE 0
    BY <1>4 DEF RtWait
  <2>2. reset.v \div 1000 \in Nat /\ reset.v \div 1000 <= reset.v
    BY <1>1
  <2> QED
    BY <1>1, <1>4, <2>1, <2>2 DEF RtWaitRight
<1> QED
  BY <1>2, <1>3, <1>4

\* windows.go Guard: for every window and every use of it, more use is never judged
\* better, and what is judged well leaves room.
THEOREM GuardRightAlways ==
  ASSUME NEW used \in Int, NEW window \in Int
  PROVE  RtGuardRight([used |-> used, window |-> window])
<1> DEFINE w == IF window <= 0 THEN 128000 ELSE window
           hard == IF 4000 > w \div 10 THEN 4000 ELSE w \div 10
           soft == IF 8000 > w \div 5 THEN 8000 ELSE w \div 5
           LeftOf(u) == w - (IF u < 0 THEN 0 ELSE u)
<1>1. w \in Nat /\ hard \in Int /\ soft \in Int /\ soft >= 8000 /\ hard <= soft
  <2>1. w \in Nat
    OBVIOUS
  <2> HIDE DEF w
  <2>2. w \div 10 \in Int /\ w \div 5 \in Int /\ w \div 10 <= w \div 5
    BY <2>1
  <2> QED
    BY <2>1, <2>2
<1>2. \A u \in Int : RtGuard(u, window) = IF LeftOf(u) < hard THEN "block" ELSE IF LeftOf(u) < soft THEN "warn" ELSE "ok"
  BY DEF RtGuard
<1>3. LeftOf(used) \in Int /\ LeftOf(used + 1000) \in Int /\ LeftOf(used + 1000) <= LeftOf(used)
  BY <1>1
<1>4. window > 0 => LeftOf(used) <= window - used
  OBVIOUS
<1> HIDE DEF w, hard, soft, LeftOf
<1>5. RtGuard(used, window) = "ok" => ~(LeftOf(used) < soft)
  BY <1>2
<1>6. /\ RtGuard(used, window) = "warn" => RtGuard(used + 1000, window) \in {"warn", "block"}
      /\ RtGuard(used, window) = "block" => RtGuard(used + 1000, window) = "block"
      /\ {RtGuard(used, window), RtGuard(used + 1000, window)} \subseteq {"ok", "warn", "block"}
  BY <1>1, <1>2, <1>3
<1> HIDE DEF RtGuard
<1> DEFINE worse == [ok |-> 0, warn |-> 1, block |-> 2]
<1>7. worse[RtGuard(used, window)] <= worse[RtGuard(used + 1000, window)]
  <2>1. worse["ok"] = 0 /\ worse["warn"] = 1 /\ worse["block"] = 2
    OBVIOUS
  <2> HIDE DEF worse
  <2> QED
    BY <1>6, <2>1
<1>8. RtGuard(used, window) = "ok" /\ window > 0 => used + 8000 <= window
  BY <1>1, <1>3, <1>4, <1>5
<1> QED
  BY <1>7, <1>8 DEF RtGuardRight

\* heartbeat2.go Runner.Due: for every interval, cooldown and phase below the interval,
\* beats keep their distances, a clock set back silences them, and one is due in time.
THEOREM RunnerRightAlways ==
  ASSUME NEW r \in [every : Int, cooldown : Nat, phase : Nat], r.phase = 0 \/ r.phase < r.every, NEW elapsed \in Int
  PROVE  TtRunnerRight([r |-> r, elapsed |-> elapsed])
  BY DEF TtRunnerRight, TtRunnerDue

\* termux.go ThrottleForBattery: whatever the interval asked for, an emptier battery
\* never makes it shorter, and it is above zero.
THEOREM PaceRightAlways ==
  ASSUME NEW every \in Int, NEW pct \in Nat, NEW account, NEW channel
  PROVE  TtPaceRight([every |-> every, pct |-> pct, account |-> account, channel |-> channel])
<1>1. TtThrottle(pct, TtEvery(every)) > 0 /\ TtThrottle(pct, TtEvery(every)) >= TtThrottle(pct + 1, TtEvery(every))
  BY DEF TtThrottle, TtEvery
<1>2. TtVisible(account, channel, "no") = "yes" => "yes" \in {account, channel}
  BY DEF TtVisible
<1> QED
  BY <1>1, <1>2, Zenon DEF TtPaceRight

\* heartbeat2.go InActiveHours: for every window of hours, it is active for as long as it
\* says, over midnight or not, and never is a day without an active hour.
THEOREM ActiveRightAlways ==
  ASSUME NEW start \in Int, NEW end \in Int
  PROVE  TtActiveRight([start |-> start, end |-> end])
<1> DEFINE on == {h \in 0..23 : TtActive(start, end, h)}
           off == {h \in 0..23 : TtActive(end, start, h)}
           long == (end - start - 1) % 24
<1>1. CASE ~(start \in 0..23 /\ end \in 0..23 /\ start # end)
  <2>1. 0 \in on
    BY <1>1 DEF TtActive, TtHourOk
  <2> QED
    BY <1>1, <2>1 DEF TtActiveRight, TtHourOk
<1>2. CASE start \in 0..23 /\ end \in 0..23 /\ start < end
  <2>1. \A h \in 0..23 : (h \in on <=> start <= h /\ h < end) /\ (h \in off <=> ~(start <= h /\ h < end))
    BY <1>2 DEF TtActive, TtHourOk
  <2>2. long = end - start - 1
    BY <1>2
  <2> HIDE DEF on, off, long
  <2>3. \A k \in 0..long : (start + k) % 24 = start + k
    BY <1>2, <2>2
  <2>4. on = {(start + k) % 24 : k \in 0..long}
    <3>1. ASSUME NEW h \in on PROVE \E k \in 0..long : h = (start + k) % 24
      <4>1. h \in 0..23 /\ start <= h /\ h < end
        BY <2>1 DEF on
      <4>2. h - start \in 0..long /\ start + (h - start) = h
        BY <1>2, <2>2, <4>1
      <4> QED
        BY <2>3, <4>2
    <3>2. ASSUME NEW k \in 0..long PROVE (start + k) % 24 \in on
      BY <1>2, <2>1, <2>2, <2>3
    <3> QED
      BY <3>1, <3>2
  <2>5. on = (0..23) \ off
    BY <2>1 DEF on, off
  <2>6. on # {}
    BY <1>2, <2>1
  <2> QED
    BY <2>4, <2>5, <2>6 DEF TtActiveRight, on, off, long
<1>3. CASE start \in 0..23 /\ end \in 0..23 /\ end < start
  <2>1. \A h \in 0..23 : (h \in on <=> start <= h \/ h < end) /\ (h \in off <=> ~(start <= h \/ h < end))
    BY <1>3 DEF TtActive, TtHourOk
  <2>2. long = end - start + 23
    BY <1>3
  <2> HIDE DEF on, off, long
  <2>3. \A k \in 0..long : (start + k) % 24 = IF start + k < 24 THEN start + k ELSE start + k - 24
    BY <1>3, <2>2
  <2>4. on = {(start + k) % 24 : k \in 0..long}
    <3>1. ASSUME NEW h \in on PROVE \E k \in 0..long : h = (start + k) % 24
      <4>1. h \in 0..23 /\ (start <= h \/ h < end)
        BY <2>1 DEF on
      <4>2. CASE start <= h
        <5>1. h - start \in 0..long /\ start + (h - start) = h
          BY <1>3, <2>2, <4>1, <4>2
        <5> QED
          BY <2>3, <4>1, <5>1
      <4>3. CASE h < end
        <5>1. h + 24 - start \in 0..long /\ start + (h + 24 - start) = h + 24 /\ ~(h + 24 < 24)
          BY <1>3, <2>2, <4>1, <4>3
        <5> QED
          BY <2>3, <4>1, <5>1
      <4> QED
        BY <4>1, <4>2, <4>3
    <3>2. ASSUME NEW k \in 0..long PROVE (start + k) % 24 \in on
      BY <1>3, <2>1, <2>2, <2>3
    <3> QED
      BY <3>1, <3>2
  <2>5. on = (0..23) \ off
    BY <2>1 DEF on, off
  <2>6. on # {}
    BY <1>3, <2>1
  <2> QED
    BY <2>4, <2>5, <2>6 DEF TtActiveRight, on, off, long
<1> QED
  BY <1>1, <1>2, <1>3

Parts == [base : {"*", "range", "value"}, a : Int, b : Int, step : Int]

\* What one part of a field allows.
LEMMA PartIs ==
  ASSUME NEW p \in Parts, NEW min \in Int, NEW max \in Int, min <= max
  PROVE  LET got == TtPart(p, min, max) IN
         /\ got.bad \in BOOLEAN
         /\ ~got.bad => got.set \subseteq min..max
         /\ ~got.bad /\ p.base = "*" /\ p.step = 0 => got.set = min..max
         /\ ~got.bad /\ p.base # "*" => p.a \in got.set \/ (p.base = "value" /\ p.a > max /\ p.step > 0)
<1> DEFINE lo == IF p.base = "*" THEN min ELSE p.a
           hi == CASE p.base = "*" -> max [] p.base = "range" -> p.b [] OTHER -> IF p.step > 0 THEN max ELSE p.a
           step == IF p.step <= 0 THEN 1 ELSE p.step
           bad == p.step < 0 \/ lo < min \/ hi > max \/ (p.base = "range" /\ lo > hi)
           set == {v \in lo..hi : (v - lo) % step = 0}
           got == TtPart(p, min, max)
<1>1. got.bad = bad /\ got.set = set
  BY DEF TtPart
<1>2. p.a \in Int /\ p.b \in Int /\ p.step \in Int /\ p.base \in {"*", "range", "value"}
  BY DEF Parts
<1>3. /\ p.base = "*" => hi = max
      /\ p.base = "range" => hi = p.b
      /\ p.base = "value" => hi = IF p.step > 0 THEN max ELSE p.a
  OBVIOUS
<1>4. lo \in Int /\ hi \in Int /\ step \in Int /\ step >= 1
  <2> HIDE DEF hi
  <2> QED
    BY <1>2, <1>3
<1>5. 0 % step = 0
  BY <1>4
<1> HIDE DEF hi, step, got
<1>6. ~bad => set \subseteq min..max
  BY <1>2, <1>4
<1>7. ~bad /\ p.base = "*" /\ p.step = 0 => set = min..max
  <2> SUFFICES ASSUME p.base = "*", p.step = 0 PROVE set = min..max
    OBVIOUS
  <2>1. lo = min /\ hi = max /\ step = 1
    BY <1>3 DEF step
  <2>2. \A v \in min..max : (v - min) % 1 = 0
    OBVIOUS
  <2> QED
    BY <2>1, <2>2
<1>8. ~bad /\ p.base # "*" => p.a \in set \/ (p.base = "value" /\ p.a > max /\ p.step > 0)
  <2> SUFFICES ASSUME ~bad, p.base # "*" PROVE p.a \in set \/ (p.base = "value" /\ p.a > max /\ p.step > 0)
    OBVIOUS
  <2>1. lo = p.a /\ p.a - lo = 0
    BY <1>2
  <2>2. p.a <= hi => p.a \in set
    BY <1>2, <1>4, <1>5, <2>1
  <2>3. p.a <= hi \/ (p.base = "value" /\ p.a > max /\ p.step > 0)
    BY <1>2, <1>3, <1>4, <2>1
  <2> QED
    BY <2>2, <2>3
<1>9. bad \in BOOLEAN
  OBVIOUS
<1> HIDE DEF bad, set
<1> QED
  BY <1>1, <1>6, <1>7, <1>8, <1>9, Zenon DEF got

\* cron.go parseField: over lists of every length and every range of values, what is
\* accepted allows something and nothing out of range, a star allows everything, each
\* value and the start of each range is allowed but for a value above the range with a
\* step, and what is refused has a part that is refused by itself.
THEOREM FieldRightAlways ==
  ASSUME NEW parts \in Seq(Parts), NEW min \in Int, NEW max \in Int, min <= max
  PROVE  TtFieldRight([parts |-> parts, min |-> min, max |-> max])
<1> DEFINE read == [i \in DOMAIN parts |-> TtPart(parts[i], min, max)]
           all == UNION {read[i].set : i \in DOMAIN read}
           error == all = {} \/ \E i \in DOMAIN read : read[i].bad
           got == TtField(parts, min, max)
           One(p) == LET part == TtPart(p, min, max) IN part.set = {} \/ part.bad
<1>1. /\ got.error = error
      /\ ~error => got.set = all
      /\ ~error /\ got.star => \E i \in DOMAIN parts : parts[i].base = "*" /\ parts[i].step = 0
  BY Zenon DEF TtField
<1>2. DOMAIN read = DOMAIN parts /\ \A i \in DOMAIN parts : read[i] = TtPart(parts[i], min, max) /\ parts[i] \in Parts
  OBVIOUS
<1> HIDE DEF read
<1>3. \A v : v \in all <=> \E i \in DOMAIN parts : v \in read[i].set
  BY <1>2
<1> HIDE DEF all
<1>4. \A p : TtField(<<p>>, min, max).error <=> One(p)
  <2> SUFFICES ASSUME NEW p PROVE TtField(<<p>>, min, max).error <=> One(p)
    OBVIOUS
  <2> DEFINE ps == <<p>>
             r == [i \in DOMAIN ps |-> TtPart(ps[i], min, max)]
             s == UNION {r[i].set : i \in DOMAIN r}
  <2>1. DOMAIN ps = {1} /\ ps[1] = p
    OBVIOUS
  <2>2. TtField(ps, min, max).error = (s = {} \/ \E i \in DOMAIN r : r[i].bad)
    BY Zenon DEF TtField
  <2> HIDE DEF ps
  <2>3. DOMAIN r = {1} /\ r[1] = TtPart(p, min, max)
    BY <2>1
  <2> HIDE DEF r
  <2>4. s = r[1].set
    BY <2>3
  <2> QED
    BY <2>2, <2>3, <2>4 DEF ps
<1>5. \A i \in DOMAIN parts :
        /\ read[i].bad \in BOOLEAN
        /\ ~read[i].bad => read[i].set \subseteq min..max
        /\ ~read[i].bad /\ parts[i].base = "*" /\ parts[i].step = 0 => read[i].set = min..max
        /\ ~read[i].bad /\ parts[i].base # "*" => \/ parts[i].a \in read[i].set
                                                  \/ parts[i].base = "value" /\ parts[i].a > max /\ parts[i].step > 0
  <2> SUFFICES ASSUME NEW i \in DOMAIN parts
        PROVE /\ read[i].bad \in BOOLEAN
              /\ ~read[i].bad => read[i].set \subseteq min..max
              /\ ~read[i].bad /\ parts[i].base = "*" /\ parts[i].step = 0 => read[i].set = min..max
              /\ ~read[i].bad /\ parts[i].base # "*" => \/ parts[i].a \in read[i].set
                                                        \/ parts[i].base = "value" /\ parts[i].a > max /\ parts[i].step > 0
    OBVIOUS
  <2>1. parts[i] \in Parts /\ read[i] = TtPart(parts[i], min, max)
    BY <1>2
  <2> QED
    BY <2>1, PartIs
<1> HIDE DEF got, One
<1>6. ~got.error => got.set # {} /\ got.set \subseteq min..max /\ (got.star => got.set = min..max)
  <2> SUFFICES ASSUME ~got.error PROVE got.set # {} /\ got.set \subseteq min..max /\ (got.star => got.set = min..max)
    OBVIOUS
  <2>1. got.set = all /\ all # {} /\ \A i \in DOMAIN parts : ~read[i].bad
    BY <1>1, <1>2
  <2>2. all \subseteq min..max
    BY <1>3, <1>5, <2>1
  <2>3. got.star => min..max \subseteq all
    BY <1>1, <1>3, <1>5, <2>1
  <2> QED
    BY <2>1, <2>2, <2>3
<1>7. got.error => parts = <<>> \/ \E i \in DOMAIN parts : TtField(<<parts[i]>>, min, max).error
  <2> SUFFICES ASSUME got.error, parts # <<>> PROVE \E i \in DOMAIN parts : TtField(<<parts[i]>>, min, max).error
    OBVIOUS
  <2>1. 1 \in DOMAIN parts
    OBVIOUS
  <2>2. \E i \in DOMAIN parts : read[i].set = {} \/ read[i].bad
    BY <1>1, <1>2, <1>3, <2>1
  <2> QED
    BY <1>2, <1>4, <2>2 DEF One
<1>8. ~got.error => \A i \in DOMAIN parts : parts[i].base # "*" =>
                      parts[i].a \in got.set \/ (parts[i].base = "value" /\ parts[i].a > max /\ parts[i].step > 0)
  <2> SUFFICES ASSUME ~got.error, NEW i \in DOMAIN parts, parts[i].base # "*"
               PROVE  parts[i].a \in got.set \/ (parts[i].base = "value" /\ parts[i].a > max /\ parts[i].step > 0)
    OBVIOUS
  <2>1. got.set = all /\ ~read[i].bad
    BY <1>1, <1>2
  <2> QED
    BY <1>3, <1>5, <2>1
<1> QED
  BY <1>6, <1>7, <1>8, Zenon DEF TtFieldRight, got

----------------------------------------------------------------------------
(* What the runs check of these over the inputs of their bounds holds for   *)
(* every value of the bounds.                                               *)

LEMMA ListsAreSequences == ASSUME NEW S, NEW s \in RtLists(S) PROVE s \in Seq(S) /\ Len(s) \in 0..RtDepth
  BY RtAssumption DEF RtLists

LEMMA CallCases ==
  ASSUME NEW x \in RtCallCases
  PROVE  \/ x.fn = "complete" /\ x.outs \in Seq(Outcomes)
         \/ x.fn = "chat" /\ x.streams \in Seq(StreamsOf)
         \/ x.fn = "retry" /\ x.n \in Int /\ x.outs \in Seq(Outcomes) /\ x.n <= Len(x.outs) /\ 1 <= Len(x.outs)
         \/ x.fn = "wait" /\ x.after \in Headers /\ x.reset \in Headers /\ x.now \in Nat
         \/ x.fn = "guard" /\ x.used \in Int /\ x.window \in Int
<1> DEFINE complete == {[fn |-> "complete", outs |-> o] : o \in RtLists({"ok", "busy", "network", "refused", "ended"})}
           chat == {[fn |-> "chat", streams |-> s] : s \in RtLists([text : BOOLEAN, end : {"done", "shut", "busy", "refused"}])}
           retry == {[fn |-> "retry", n |-> n, outs |-> o] : n \in -1..3, o \in [1..3 -> {"ok", "network", "refused"}]}
           wait == [fn : {"wait"}, after : {[is |-> "none", v |-> 0]} \union [is : {"seconds", "date"}, v : {0, 5, 9}],
                     reset : {[is |-> "none", v |-> 0], [is |-> "epoch", v |-> 6], [is |-> "epoch", v |-> 9], [is |-> "millis", v |-> 9000]}, now : {6}]
           guard == [fn : {"guard"}, used : {-1, 0, 3000, 20000, 22000, 25000, 31000, 40000}, window : {-1, 0, 4000, 32000}]
<1>1. x \in complete \/ x \in chat \/ x \in retry \/ x \in wait \/ x \in guard
  BY DEF RtCallCases
<1>2. CASE x \in complete
  BY <1>2, ListsAreSequences DEF Outcomes
<1>3. CASE x \in chat
  BY <1>3, ListsAreSequences DEF StreamsOf
<1>4. CASE x \in retry
  <2>1. PICK n \in -1..3, o \in [1..3 -> {"ok", "network", "refused"}] : x = [fn |-> "retry", n |-> n, outs |-> o]
    BY <1>4
  <2>2. o \in [1..3 -> Outcomes]
    BY DEF Outcomes
  <2>3. o \in Seq(Outcomes) /\ Len(o) = 3
    <3>1. \A k \in Nat : \A f \in [1..k -> Outcomes] : f \in Seq(Outcomes) /\ Len(f) = k
      OBVIOUS
    <3> QED
      BY <2>2, <3>1
  <2>4. x.fn = "retry" /\ x.n = n /\ x.outs = o
    BY <2>1
  <2>5. n \in Int /\ n <= Len(o) /\ 1 <= Len(o)
    BY <2>3
  <2> HIDE DEF retry
  <2> QED
    BY <2>3, <2>4, <2>5, Zenon
<1>5. CASE x \in wait
  BY <1>5 DEF Headers
<1>6. CASE x \in guard
  BY <1>6
<1> HIDE DEF complete, chat, retry, wait, guard
<1> QED
  BY <1>1, <1>2, <1>3, <1>4, <1>5, <1>6

LEMMA CallCasesRight == ASSUME NEW x \in RtCallCases PROVE RtRight(x)
<1>1. CASE x.fn = "complete" /\ x.outs \in Seq(Outcomes)
  <2>1. RtCompleteRight([outs |-> x.outs])
    BY <1>1, CompleteRightAlways
  <2>2. RtCompleteRight(x)
    BY <2>1 DEF RtCompleteRight
  <2> QED
    BY <1>1, <2>2 DEF RtRight
<1>2. CASE x.fn = "chat" /\ x.streams \in Seq(StreamsOf)
  <2>1. RtChatRight([streams |-> x.streams])
    BY <1>2, ChatRightAlways
  <2>2. RtChatRight(x)
    BY <2>1 DEF RtChatRight
  <2> QED
    BY <1>2, <2>2 DEF RtRight
<1>3. CASE x.fn = "retry" /\ x.n \in Int /\ x.outs \in Seq(Outcomes) /\ x.n <= Len(x.outs) /\ 1 <= Len(x.outs)
  <2>1. RtRetryRight([n |-> x.n, outs |-> x.outs])
    BY <1>3, RetryRightAlways
  <2>2. RtRetryRight(x)
    BY <2>1 DEF RtRetryRight
  <2> QED
    BY <1>3, <2>2 DEF RtRight
<1>4. CASE x.fn = "wait" /\ x.after \in Headers /\ x.reset \in Headers /\ x.now \in Nat
  <2>1. RtWaitRight([after |-> x.after, reset |-> x.reset, now |-> x.now])
    BY <1>4, WaitRightAlways
  <2>2. RtWaitRight(x)
    BY <2>1 DEF RtWaitRight
  <2> QED
    BY <1>4, <2>2 DEF RtRight
<1>5. CASE x.fn = "guard" /\ x.used \in Int /\ x.window \in Int
  <2>1. RtGuardRight([used |-> x.used, window |-> x.window])
    BY <1>5, GuardRightAlways
  <2>2. RtGuardRight(x)
    BY <2>1 DEF RtGuardRight
  <2> QED
    BY <1>5, <2>2 DEF RtRight
<1> QED
  BY <1>1, <1>2, <1>3, <1>4, <1>5, CallCases

MCSpec == MCInit /\ [][MCNext]_input

LEMMA ClockCases ==
  ASSUME NEW x \in TtClockCases
  PROVE  \/ x.fn = "field" /\ x.parts \in Seq(Parts) /\ x.min \in Int /\ x.max \in Int /\ x.min <= x.max
         \/ x.fn = "due" /\ x.last \in Nat /\ x.now \in Nat /\ x.now <= x.last + TtHorizon
         \/ /\ x.fn = "runner" /\ x.r \in [every : Int, cooldown : Nat, phase : Nat]
            /\ x.r.phase = 0 \/ x.r.phase < x.r.every
            /\ x.elapsed \in Int
         \/ x.fn = "active" /\ x.start \in Int /\ x.end \in Int
         \/ x.fn = "pace" /\ x.every \in Int /\ x.pct \in Nat
<1> DEFINE schedules == {s \in TtSchedules : (s.domStar => s.dom = {0, 1, 2}) /\ (s.dowStar => s.dow = {0, 1})}
           runners == {r \in [every : {-1, 0, 3, 4}, cooldown : {0, 2, 9}, phase : 0..3] : r.phase = 0 \/ r.phase < r.every}
           field == [fn : {"field"}, parts : TtTexts(TtParts, 2), min : {0, 1}, max : {4}]
           due == [fn : {"due"}, s : schedules, last : {0, 3, 11}, now : 0..TtHorizon]
           runner == [fn : {"runner"}, r : runners, elapsed : -1..12]
           active == [fn : {"active"}, start : {-1, 0, 9, 22, 23, 24}, end : {-1, 0, 6, 17, 23}]
           pace == [fn : {"pace"}, every : {-1, 0, 30}, pct : 0..25, account : {"unset", "yes", "no"}, channel : {"unset", "yes", "no"}]
<1>1. x \in field \/ x \in due \/ x \in runner \/ x \in active \/ x \in pace
  BY DEF TtClockCases
<1> HIDE DEF schedules, runners
<1>2. CASE x \in field
  <2>1. x.fn = "field" /\ x.parts \in TtTexts(TtParts, 2) /\ x.min \in Int /\ x.max \in Int /\ x.min <= x.max
    BY <1>2
  <2>2. TtTexts(TtParts, 2) \subseteq Seq(TtParts)
    <3>1. \A S, n : n \in Nat => TtTexts(S, n) \subseteq Seq(S)
      BY DEF TtTexts
    <3> QED
      BY <3>1
  <2>3. TtParts \subseteq Parts
    BY DEF TtParts, Parts
  <2>4. x.parts \in Seq(Parts)
    BY <2>1, <2>2, <2>3
  <2> QED
    BY <2>1, <2>4
<1>3. CASE x \in due
  <2>1. x.fn = "due" /\ x.last \in {0, 3, 11} /\ x.now \in 0..TtHorizon
    BY <1>3
  <2> QED
    BY <2>1, TtAssumption
<1>4. CASE x \in runner
  <2>1. x.fn = "runner" /\ x.r \in runners /\ x.elapsed \in Int
    BY <1>4
  <2>2. x.r \in [every : Int, cooldown : Nat, phase : Nat] /\ (x.r.phase = 0 \/ x.r.phase < x.r.every)
    BY <2>1 DEF runners
  <2> QED
    BY <2>1, <2>2
<1>5. CASE x \in active
  BY <1>5
<1>6. CASE x \in pace
  BY <1>6, SMTT(30)
<1> HIDE DEF field, due, runner, active, pace
<1> QED
  BY <1>1, <1>2, <1>3, <1>4, <1>5, <1>6

LEMMA ClockCasesRight == ASSUME NEW x \in TtClockCases PROVE TtRight(x)
<1>1. CASE x.fn = "field" /\ x.parts \in Seq(Parts) /\ x.min \in Int /\ x.max \in Int /\ x.min <= x.max
  <2>1. TtFieldRight([parts |-> x.parts, min |-> x.min, max |-> x.max])
    BY <1>1, FieldRightAlways
  <2>2. TtFieldRight(x)
    BY <2>1 DEF TtFieldRight
  <2> QED
    BY <1>1, <2>2 DEF TtRight
<1>2. CASE x.fn = "due" /\ x.last \in Nat /\ x.now \in Nat /\ x.now <= x.last + TtHorizon
  <2>1. TtDueRight([s |-> x.s, last |-> x.last, now |-> x.now])
    BY <1>2, DueRightAlways
  <2>2. TtDueRight(x)
    BY <2>1 DEF TtDueRight
  <2> QED
    BY <1>2, <2>2 DEF TtRight
<1>3. CASE /\ x.fn = "runner" /\ x.r \in [every : Int, cooldown : Nat, phase : Nat]
           /\ x.r.phase = 0 \/ x.r.phase < x.r.every
           /\ x.elapsed \in Int
  <2>1. TtRunnerRight([r |-> x.r, elapsed |-> x.elapsed])
    BY <1>3, RunnerRightAlways
  <2>2. TtRunnerRight(x)
    BY <2>1 DEF TtRunnerRight
  <2> QED
    BY <1>3, <2>2 DEF TtRight
<1>4. CASE x.fn = "active" /\ x.start \in Int /\ x.end \in Int
  <2> DEFINE y == [start |-> x.start, end |-> x.end]
  <2>1. TtActiveRight(y) /\ y.start = x.start /\ y.end = x.end
    BY <1>4, ActiveRightAlways
  <2> HIDE DEF y
  <2>2. TtActiveRight(x)
    BY <2>1, Zenon DEF TtActiveRight
  <2> QED
    BY <1>4, <2>2 DEF TtRight
<1>5. CASE x.fn = "pace" /\ x.every \in Int /\ x.pct \in Nat
  <2>1. TtPaceRight([every |-> x.every, pct |-> x.pct, account |-> x.account, channel |-> x.channel])
    BY <1>5, PaceRightAlways
  <2>2. TtPaceRight(x)
    BY <2>1 DEF TtPaceRight
  <2> QED
    BY <1>5, <2>2 DEF TtRight
<1> QED
  BY <1>1, <1>2, <1>3, <1>4, <1>5, ClockCases

\* fallback.go, resilience.go, windows.go: failover, streams, retries, waits and the guard
\* of the window keep their promises over every input of the run, for every bound on the
\* lists it tries; cron.go, heartbeat2.go, termux.go: what a schedule and a heartbeat
\* promise about time, for every horizon.
THEOREM NextRightAlways == MCSpec => []NextRight
<1>1. MCInit => NextRight
  BY DEF MCInit, NextRight
<1>2. NextRight /\ [MCNext]_input => NextRight'
  <2> SUFFICES ASSUME NextRight, [MCNext]_input
               PROVE  /\ input'.of = "calls" => RtRight(input'.case)
                      /\ input'.of = "clock" => TtRight(input'.case)
    BY DEF NextRight
  <2>1. CASE UNCHANGED input
    BY <2>1 DEF NextRight
  <2>2. CASE Try("calls", RtCallCases)
    <3>1. input'.of = "calls" /\ input'.case \in RtCallCases
      BY <2>2 DEF Try
    <3> QED
      BY <3>1, CallCasesRight
  <2>3. CASE Try("clock", TtClockCases)
    <3>1. input'.of = "clock" /\ input'.case \in TtClockCases
      BY <2>3 DEF Try
    <3> QED
      BY <3>1, ClockCasesRight
  <2>4. CASE ~UNCHANGED input /\ ~Try("calls", RtCallCases) /\ ~Try("clock", TtClockCases)
    BY <2>4 DEF MCNext, Try
  <2> QED
    BY <2>1, <2>2, <2>3, <2>4
<1> QED
  BY <1>1, <1>2, PTL DEF MCSpec

LEMMA GlobsRight == ASSUME NEW x \in MaGlobs PROVE MaRight(x)
<1> DEFINE L == {"a", "/", "*", "?"}
<1>1. \A S, n : n \in Nat => MaWords(S, n) \subseteq Seq(S)
  BY DEF MaWords
<1>2. PICK p \in MaWords(L, MaPatterns), t \in MaWords({"a", "/", "*"}, MaTargets) : x = [fn |-> "pattern", pattern |-> p, target |-> t]
  BY DEF MaGlobs
<1>3. p \in Seq(L) /\ t \in Seq({"a", "/", "*"})
  BY <1>1, MaAssumption
<1>4. t \in Seq(L)
  BY <1>3
<1>5. MaPatternRight([pattern |-> p, target |-> t])
  BY <1>3, <1>4, PatternMeansWhatItSays
<1>6. MaPatternRight(x)
  BY <1>2, <1>5 DEF MaPatternRight
<1> QED
  BY <1>2, <1>6 DEF MaRight

\* perms.go: a permission rule without a star is for the targets it spells and no others,
\* one with a star for none that differ from it before the star, and no target it means is
\* missed but such as have a star themselves, for every bound on the lengths of both.
THEOREM PatternsRightAlways == MCSpec => []PatternsRight
<1>1. MCInit => PatternsRight
  BY DEF MCInit, PatternsRight
<1>2. PatternsRight /\ [MCNext]_input => PatternsRight'
  <2> SUFFICES ASSUME PatternsRight, [MCNext]_input, input'.of = "patterns" PROVE MaRight(input'.case)
    BY DEF PatternsRight
  <2>1. CASE UNCHANGED input
    BY <2>1 DEF PatternsRight
  <2>2. CASE Try("patterns", MaGlobs)
    <3>1. input'.case \in MaGlobs
      BY <2>2 DEF Try
    <3> QED
      BY <3>1, GlobsRight
  <2>3. CASE ~UNCHANGED input /\ ~Try("patterns", MaGlobs)
    BY <2>3 DEF MCNext, Try
  <2> QED
    BY <2>1, <2>2, <2>3
<1> QED
  BY <1>1, <1>2, PTL DEF MCSpec

=============================================================================
