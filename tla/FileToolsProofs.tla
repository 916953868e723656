--------------------------- MODULE FileToolsProofs ---------------------------
(***************************************************************************)
(* Proofs about the mutation queue, for every finite set of callers and    *)
(* all sets of paths and lock objects, and about edit, apply_patch and     *)
(* write over it, for all calls and contents.  The tools use the queue as  *)
(* it is meant to be used, so all that is proved of the queue holds under  *)
(* them, and what an edit or a patch does to a file is one indivisible     *)
(* change of it.                                                           *)
(***************************************************************************)
EXTENDS FileTools, FiniteSetTheorems, SequenceTheorems, WellFoundedInduction, TLAPS

----------------------------------------------------------------------------
\* The queue.  Exclusive is not inductive: that two callers on a path hold the
\* same object depends on the map entry staying there while either is inside,
\* which depends on the count being exact.

\* A running caller holds the lock of the object it points to.
HolderOK == \A c \in Callers : pc[c] = "running" => holder[lock[c]] = c

\* No object stands for two paths.
Injective == \A p, q \in Paths : locks[p] # NoLock /\ locks[p] = locks[q] => p = q

IInv == TypeOK /\ SameLock /\ HolderOK /\ Injective /\ RefsExact

----------------------------------------------------------------------------
\* The set of active callers is finite, and how it changes when one caller
\* enters or leaves.
LEMMA ActiveFinite == \A p \in Paths : IsFiniteSet(Active(p)) /\ Cardinality(Active(p)) \in Nat
  BY FiniteCallers, FS_Subset, FS_CardinalityType, Active(1) \in SUBSET Callers DEF Active

LEMMA InitIInv == Init => IInv
<1> SUFFICES ASSUME Init PROVE IInv
  OBVIOUS
<1>1. TypeOK
  BY DEF Init, TypeOK, PCs
<1>2. SameLock /\ HolderOK /\ Injective
  BY DEF Init, SameLock, HolderOK, Injective
<1>3. RefsExact
  BY DEF Init, RefsExact, Active
<1> QED
  BY <1>1, <1>2, <1>3 DEF IInv

\* acquire preserves the invariant: the caller joins the active callers of p
\* and its object's count grows by one, from the right value or from nothing.
LEMMA AcquireIInv ==
  ASSUME IInv, NEW c \in Callers, NEW p \in Paths, Acquire(c, p)
  PROVE  IInv'
<1> USE DistinctNulls
<1>1. TypeOK'
  BY DEF IInv, TypeOK, PCs, Acquire, AcquireExisting, AcquireNew
<1>2. Active(p)' = Active(p) \cup {c} /\ c \notin Active(p)
  BY DEF IInv, TypeOK, Active, Acquire
<1>3. \A q \in Paths \ {p} : Active(q)' = Active(q)
  BY DEF IInv, TypeOK, Active, Acquire
<1>4. Cardinality(Active(p)') = Cardinality(Active(p)) + 1
  BY <1>2, ActiveFinite, FS_AddElement
<1>5. CASE AcquireExisting(c, p)
  <2>1. SameLock'
    BY <1>5 DEF IInv, TypeOK, SameLock, Acquire, AcquireExisting
  <2>2. HolderOK'
    BY <1>5 DEF IInv, TypeOK, HolderOK, Acquire, AcquireExisting
  <2>3. Injective'
    BY <1>5 DEF IInv, TypeOK, Injective, AcquireExisting
  <2>4. \A q \in Paths : locks[q] # NoLock /\ q # p => refs'[locks[q]] = refs[locks[q]]
    BY <1>5 DEF IInv, TypeOK, Injective, AcquireExisting
  <2>5. refs'[locks[p]] = refs[locks[p]] + 1 /\ locks[p] # NoLock
    BY <1>5 DEF IInv, TypeOK, AcquireExisting
  <2>6. locks' = locks
    BY <1>5 DEF AcquireExisting
  <2>7. RefsExact'
    <3> SUFFICES ASSUME NEW q \in Paths
                 PROVE  IF locks[q] = NoLock THEN Active(q)' = {}
                        ELSE refs'[locks[q]] = Cardinality(Active(q)') /\ Active(q)' # {}
      BY <2>6 DEF RefsExact
    <3>1. CASE q = p
      BY <3>1, <1>2, <1>4, <2>5 DEF IInv, RefsExact
    <3>2. CASE q # p
      BY <3>2, <1>3, <2>4 DEF IInv, RefsExact
    <3> QED
      BY <3>1, <3>2
  <2> QED
    BY <1>1, <2>1, <2>2, <2>3, <2>7 DEF IInv
<1>6. CASE AcquireNew(c, p)
  <2> PICK l \in Locks :
         /\ Fresh(l)
         /\ locks'  = [locks EXCEPT ![p] = l]
         /\ lock'   = [lock EXCEPT ![c] = l]
         /\ refs'   = [refs EXCEPT ![l] = 1]
         /\ holder' = [holder EXCEPT ![l] = NoCaller]
    BY <1>6 DEF AcquireNew
  <2>1. locks[p] = NoLock /\ Active(p) = {}
    BY <1>6 DEF AcquireNew, IInv, RefsExact
  <2>2. SameLock'
    <3> SUFFICES ASSUME NEW d \in Callers, pc'[d] # "idle"
                 PROVE  lock'[d] = locks'[path'[d]] /\ lock'[d] # NoLock
      BY DEF SameLock
    <3>1. CASE d = c
      BY <3>1 DEF IInv, TypeOK, Acquire
    <3>2. CASE d # c
      <4>1. pc[d] # "idle" /\ path'[d] = path[d] /\ path[d] # p
        BY <3>2, <2>1 DEF Acquire, Active, IInv, TypeOK
      <4> QED
        BY <3>2, <4>1 DEF IInv, TypeOK, SameLock
    <3> QED
      BY <3>1, <3>2
  <2>3. HolderOK'
    <3> SUFFICES ASSUME NEW d \in Callers, pc'[d] = "running"
                 PROVE  holder'[lock'[d]] = d
      BY DEF HolderOK
    <3>1. d # c /\ pc[d] = "running"
      BY DEF Acquire, IInv, TypeOK
    <3>2. lock[d] # l /\ lock[d] \in Locks
      BY <3>1 DEF Fresh, IInv, TypeOK, SameLock
    <3> QED
      BY <3>1, <3>2 DEF IInv, TypeOK, HolderOK
  <2>4. Injective'
    BY DEF IInv, TypeOK, Injective, Fresh
  <2>5. RefsExact'
    <3> SUFFICES ASSUME NEW q \in Paths
                 PROVE  IF locks'[q] = NoLock THEN Active(q)' = {}
                        ELSE refs'[locks'[q]] = Cardinality(Active(q)') /\ Active(q)' # {}
      BY DEF RefsExact
    <3>1. CASE q = p
      <4>1. locks'[q] = l /\ refs'[l] = 1
        BY <3>1 DEF IInv, TypeOK
      <4> QED
        BY <3>1, <4>1, <1>2, <1>4, <2>1, FS_EmptySet
    <3>2. CASE q # p
      <4>1. locks'[q] = locks[q] /\ locks[q] # l
        BY <3>2 DEF IInv, TypeOK, Fresh
      <4>2. locks[q] # NoLock => refs'[locks[q]] = refs[locks[q]]
        BY <4>1 DEF IInv, TypeOK
      <4> QED
        BY <3>2, <1>3, <4>1, <4>2 DEF IInv, RefsExact
    <3> QED
      BY <3>1, <3>2
  <2> QED
    BY <1>1, <2>2, <2>3, <2>4, <2>5 DEF IInv
<1> QED
  BY <1>5, <1>6 DEF Acquire

\* Taking and giving back l.mu changes neither the map nor the counts.
LEMMA LockIInv ==
  ASSUME IInv, NEW c \in Callers, Lock(c)
  PROVE  IInv'
<1> USE DistinctNulls
<1>1. TypeOK' /\ SameLock'
  BY DEF IInv, TypeOK, PCs, SameLock, Lock
<1>2. HolderOK'
  BY DEF IInv, TypeOK, SameLock, HolderOK, Lock
<1>3. \A p \in Paths : Active(p)' = Active(p)
  BY DEF IInv, TypeOK, Active, Lock
<1>4. Injective' /\ RefsExact'
  BY <1>3 DEF IInv, Injective, RefsExact, Lock
<1> QED
  BY <1>1, <1>2, <1>4 DEF IInv

LEMMA UnlockIInv ==
  ASSUME IInv, NEW c \in Callers, Unlock(c)
  PROVE  IInv'
<1> USE DistinctNulls
<1>1. TypeOK' /\ SameLock'
  BY DEF IInv, TypeOK, PCs, SameLock, Unlock
<1>2. HolderOK'
  BY DEF IInv, TypeOK, SameLock, HolderOK, Unlock
<1>3. \A p \in Paths : Active(p)' = Active(p)
  BY DEF IInv, TypeOK, Active, Unlock
<1>4. Injective' /\ RefsExact'
  BY <1>3 DEF IInv, Injective, RefsExact, Unlock
<1> QED
  BY <1>1, <1>2, <1>4 DEF IInv

\* release deletes the entry only when the caller leaving is the last one
\* inside, because the count it decrements is the number of callers inside.
LEMMA ReleaseIInv ==
  ASSUME IInv, NEW c \in Callers, NEW p \in Paths, path[c] = p, Release(c)
  PROVE  IInv'
<1> USE DistinctNulls
<1> DEFINE l == locks[p]
           n == Cardinality(Active(p))
<1>1. /\ p \in Paths /\ l \in Locks
      /\ c \in Active(p)
      /\ refs[l] = n
  BY DEF IInv, TypeOK, Release, SameLock, Active, RefsExact
<1>2. Active(p)' = Active(p) \ {c}
  BY <1>1 DEF IInv, TypeOK, Active, Release
<1>3. \A q \in Paths \ {p} : Active(q)' = Active(q)
  BY DEF IInv, TypeOK, Active, Release
<1>4. Cardinality(Active(p)') = n - 1 /\ n \in Nat
  BY <1>1, <1>2, ActiveFinite, FS_RemoveElement
<1>4a. n - 1 \in Nat
  BY <1>1, <1>4, ActiveFinite, FS_EmptySet
<1>5. n - 1 <= 0 <=> Active(p) \ {c} = {}
  BY <1>1, <1>2, <1>4, ActiveFinite, FS_RemoveElement, FS_EmptySet, FS_CardinalityType
<1>6. /\ refs' = [refs EXCEPT ![l] = n - 1]
      /\ locks' = IF n - 1 <= 0 THEN [locks EXCEPT ![p] = NoLock] ELSE locks
  BY <1>1 DEF Release, LastOut, IInv, TypeOK
<1>7. TypeOK'
  BY <1>1, <1>4a, <1>6 DEF IInv, TypeOK, PCs, Release
<1>8. SameLock'
  <2> SUFFICES ASSUME NEW d \in Callers, pc'[d] # "idle"
               PROVE  lock'[d] = locks'[path'[d]] /\ lock'[d] # NoLock
    BY DEF SameLock
  <2>1. d # c /\ pc[d] # "idle" /\ path'[d] = path[d] /\ lock'[d] = lock[d]
    BY DEF Release, IInv, TypeOK
  <2>2. CASE path[d] = p
    <3>1. d \in Active(p) \ {c}
      BY <2>1, <2>2 DEF Active
    <3>2. locks' = locks
      BY <3>1, <1>5, <1>6
    <3> QED
      BY <2>1, <3>2 DEF IInv, SameLock
  <2>3. CASE path[d] # p
    <3>1. locks'[path[d]] = locks[path[d]]
      BY <2>3, <1>1, <1>6 DEF IInv, TypeOK
    <3> QED
      BY <2>1, <3>1 DEF IInv, SameLock
  <2> QED
    BY <2>2, <2>3
<1>9. HolderOK'
  BY DEF IInv, TypeOK, HolderOK, Release
<1>10. Injective'
  BY <1>1, <1>6 DEF IInv, TypeOK, Injective
<1>11. RefsExact'
  <2> SUFFICES ASSUME NEW q \in Paths
               PROVE  IF locks'[q] = NoLock THEN Active(q)' = {}
                      ELSE refs'[locks'[q]] = Cardinality(Active(q)') /\ Active(q)' # {}
    BY DEF RefsExact
  <2>1. CASE q = p
    <3>1. CASE n - 1 <= 0
      <4>1. locks'[q] = NoLock
        BY <2>1, <3>1, <1>1, <1>6 DEF IInv, TypeOK
      <4> QED
        BY <2>1, <3>1, <4>1, <1>2, <1>5
    <3>2. CASE ~(n - 1 <= 0)
      <4>1. locks'[q] = l /\ refs'[l] = n - 1 /\ l # NoLock
        BY <2>1, <3>2, <1>1, <1>6 DEF IInv, TypeOK
      <4> QED
        BY <2>1, <3>2, <4>1, <1>2, <1>4, <1>5
    <3> QED
      BY <3>1, <3>2
  <2>2. CASE q # p
    <3>1. locks'[q] = locks[q]
      BY <2>2, <1>1, <1>6 DEF IInv, TypeOK
    <3>2. locks[q] # NoLock => refs'[locks[q]] = refs[locks[q]]
      BY <2>2, <1>1, <1>6 DEF IInv, TypeOK, Injective
    <3> QED
      BY <2>2, <3>1, <3>2, <1>3 DEF IInv, RefsExact
  <2> QED
    BY <2>1, <2>2
<1> QED
  BY <1>7, <1>8, <1>9, <1>10, <1>11 DEF IInv

LEMMA StepIInv == IInv /\ [Next]_vars => IInv'
<1> SUFFICES ASSUME IInv, [Next]_vars PROVE IInv'
  OBVIOUS
<1>1. CASE \E c \in Callers, p \in Paths : Acquire(c, p)
  BY <1>1, AcquireIInv
<1>2. CASE \E c \in Callers : Lock(c)
  BY <1>2, LockIInv
<1>3. CASE \E c \in Callers : Unlock(c)
  BY <1>3, UnlockIInv
<1>4. CASE \E c \in Callers : Release(c)
  <2>1. PICK c \in Callers : Release(c)
    BY <1>4
  <2>2. path[c] \in Paths
    BY <2>1 DEF IInv, TypeOK, Release
  <2>3. PICK p \in Paths : path[c] = p
    BY <2>2
  <2> QED
    BY <2>1, <2>3, ReleaseIInv
<1>5. CASE UNCHANGED vars
  <2>1. \A p \in Paths : Active(p)' = Active(p)
    BY <1>5 DEF vars, Active
  <2>2. (TypeOK /\ SameLock /\ HolderOK /\ Injective)'
    BY <1>5 DEF vars, IInv, TypeOK, SameLock, HolderOK, Injective
  <2>3. RefsExact'
    BY <1>5, <2>1 DEF vars, IInv, RefsExact
  <2> QED
    BY <2>2, <2>3 DEF IInv
<1> QED
  BY <1>1, <1>2, <1>3, <1>4, <1>5 DEF Next

----------------------------------------------------------------------------
THEOREM Inductive == Spec => []IInv
  BY InitIInv, StepIInv, PTL DEF Spec

\* A lock that is taken is held by a caller who runs his function on it, and a
\* caller outside Run points to none.
HeldByRunning ==
  /\ \A l \in Locks : holder[l] # NoCaller => pc[holder[l]] = "running" /\ lock[holder[l]] = l
  /\ \A c \in Callers : pc[c] = "idle" => lock[c] = NoLock

LEMMA HeldByRunningNext ==
  ASSUME IInv, HeldByRunning, [Next]_vars
  PROVE  HeldByRunning'
<1> USE DistinctNulls DEF HeldByRunning, IInv, TypeOK
<1>1. ASSUME NEW c \in Callers, NEW p \in Paths, Acquire(c, p) PROVE HeldByRunning'
  <2>1. pc[c] = "idle" /\ pc' = [pc EXCEPT ![c] = "queued"]
    BY <1>1 DEF Acquire
  <2>2. CASE AcquireExisting(c, p)
    BY <2>1, <2>2 DEF AcquireExisting
  <2>3. CASE AcquireNew(c, p)
    <3>1. PICK l \in Locks : Fresh(l) /\ lock' = [lock EXCEPT ![c] = l] /\ holder' = [holder EXCEPT ![l] = NoCaller]
      BY <2>3 DEF AcquireNew
    <3> QED
      BY <2>1, <3>1
  <2> QED
    BY <1>1, <2>2, <2>3 DEF Acquire
<1>2. ASSUME NEW c \in Callers, Lock(c) PROVE HeldByRunning'
  BY <1>2 DEF Lock
<1>3. ASSUME NEW c \in Callers, Unlock(c) PROVE HeldByRunning'
  BY <1>3 DEF Unlock
<1>4. ASSUME NEW c \in Callers, Release(c) PROVE HeldByRunning'
  BY <1>4 DEF Release
<1>5. CASE UNCHANGED vars
  BY <1>5 DEF vars
<1> QED
  BY <1>1, <1>2, <1>3, <1>4, <1>5 DEF Next

LEMMA HeldByRunningAlways == Spec => []HeldByRunning
<1>1. Init => HeldByRunning
  BY DEF Init, HeldByRunning
<1> QED
  BY <1>1, HeldByRunningNext, Inductive, PTL DEF Spec

\* Whoever enters finds an object: the map's, or a fresh one.
LEMMA ObjectFound ==
  ASSUME IInv, NEW c \in Callers, pc[c] = "idle", HeldByRunning
  PROVE  \E l \in Locks : Fresh(l)
<1> DEFINE held == [d \in Callers |-> IF pc[d] = "idle" THEN NoLock ELSE lock[d]]
<1>1. PICK l \in Locks : \A d \in Callers \ {c} : held[d] # l
  <2>1. held \in [Callers -> Locks \cup {NoLock}]
    BY DEF IInv, TypeOK
  <2> HIDE DEF held
  <2> QED
    BY <2>1, LocksSuffice
<1>2. ASSUME NEW q \in Paths, locks[q] = l PROVE FALSE
  <2>1. locks[q] # NoLock
    BY <1>2, DistinctNulls
  <2>2. PICK d \in Callers : pc[d] # "idle" /\ path[d] = q
    BY <2>1 DEF IInv, RefsExact, Active
  <2>3. lock[d] = l /\ d # c
    BY <1>2, <2>2 DEF IInv, SameLock
  <2> QED
    BY <1>1, <2>2, <2>3
<1>3. ASSUME NEW d \in Callers, lock[d] = l PROVE FALSE
  <2>1. CASE pc[d] = "idle"
    BY <1>3, <2>1, DistinctNulls DEF HeldByRunning
  <2>2. CASE pc[d] # "idle"
    BY <1>1, <1>3, <2>2
  <2> QED
    BY <2>1, <2>2
<1> QED
  BY <1>2, <1>3 DEF Fresh

\* The queue's state is well typed in every reachable state.
THEOREM TypeCorrect == Spec => []TypeOK
<1>1. IInv => TypeOK
  BY DEF IInv
<1> QED
  BY <1>1, Inductive, PTL

\* Run's callback never runs twice at once for one path: two callers of one
\* path hold the same lock object, and it has one holder.
THEOREM MutualExclusion == Spec => []Exclusive
<1>1. IInv => Exclusive
  BY DEF IInv, SameLock, HolderOK, Exclusive, Running
<1> QED
  BY <1>1, Inductive, PTL

\* The count of each entry is the number of callers inside Run for its path,
\* so the map never drops an entry in use and never keeps one that is not.
THEOREM ReferenceCounts == Spec => [](RefsExact /\ SameLock)
<1>1. IInv => RefsExact /\ SameLock
  BY DEF IInv
<1> QED
  BY <1>1, Inductive, PTL

\* queue.go Run: what its callers rely on, for any callers, paths and lock objects.
THEOREM QueueSafeAlways == Spec => []QueueSafe
<1> QED
  BY MutualExclusion, ReferenceCounts, PTL DEF QueueSafe

----------------------------------------------------------------------------
\* The queue implements the abstract serializer: acquire is Join, the grant
\* of the lock is Enter, the unlock is Leave, and release is a stutter.
LEMMA StepSimulates ==
  ASSUME IInv, [Next]_vars
  PROVE  [Serializer!Next]_(Serializer!vars)
<1> USE DistinctNulls
<1>1. CASE \E c \in Callers, p \in Paths : Acquire(c, p)
  <2> PICK c \in Callers, p \in Paths : Acquire(c, p)
    BY <1>1
  <2>1. \A q \in Paths : c \notin Waiting[q] \cup Owner[q]
    BY DEF Acquire, Waiting, Queued, Owner, Running
  <2>2. Owner' = Owner
    BY DEF Acquire, Owner, Running, IInv, TypeOK
  <2>3. Waiting' = [Waiting EXCEPT ![p] = @ \cup {c}]
    <3>1. Queued(p)' = Queued(p) \cup {c}
      BY DEF Acquire, Queued, IInv, TypeOK
    <3>2. \A q \in Paths : q # p => Queued(q)' = Queued(q)
      BY DEF Queued, Acquire, IInv, TypeOK
    <3> QED
      BY <3>1, <3>2 DEF Waiting
  <2>4. Serializer!Join(c, p)
    BY <2>1, <2>2, <2>3 DEF Serializer!Join, Serializer!Busy
  <2> QED
    BY <2>4 DEF Serializer!Next
<1>2. CASE \E c \in Callers : Lock(c)
  <2> PICK c \in Callers, p \in Paths : Lock(c) /\ path[c] = p
    BY <1>2 DEF Lock, IInv, TypeOK
  <2>1. c \in Waiting[p]
    BY DEF Lock, Waiting, Queued
  <2>2. Owner[p] = {}
    BY <2>1 DEF Lock, Owner, Running, IInv, TypeOK, SameLock, HolderOK
  <2>3. Waiting' = [Waiting EXCEPT ![p] = @ \ {c}]
    <3>1. Queued(p)' = Queued(p) \ {c}
      BY <2>1 DEF Lock, Queued, IInv, TypeOK
    <3>2. \A q \in Paths : q # p => Queued(q)' = Queued(q)
      BY DEF Queued, Lock, IInv, TypeOK
    <3> QED
      BY <3>1, <3>2 DEF Waiting, Lock
  <2>4. Owner' = [Owner EXCEPT ![p] = {c}]
    <3>1. Running(p)' = {c}
      BY <2>1, <2>2 DEF Lock, Owner, Running, IInv, TypeOK
    <3>2. \A q \in Paths : q # p => Running(q)' = Running(q)
      BY DEF Lock, Running, IInv, TypeOK
    <3> QED
      BY <3>1, <3>2 DEF Owner, Lock
  <2>5. Serializer!Enter(c, p)
    BY <2>1, <2>2, <2>3, <2>4 DEF Serializer!Enter
  <2> QED
    BY <2>5 DEF Serializer!Next
<1>3. CASE \E c \in Callers : Unlock(c)
  <2> PICK c \in Callers, p \in Paths : Unlock(c) /\ path[c] = p
    BY <1>3 DEF Unlock, IInv, TypeOK
  <2>1. c \in Owner[p]
    BY DEF Unlock, Owner, Running
  <2>2. \A d \in Owner[p] : d = c
    BY <2>1 DEF Owner, Running, IInv, SameLock, HolderOK
  <2>3. Waiting' = Waiting
    BY DEF Unlock, Waiting, Queued, IInv, TypeOK
  <2>4. Owner' = [Owner EXCEPT ![p] = {}]
    <3>1. Running(p)' = {}
      BY <2>1, <2>2 DEF Unlock, Owner, Running, IInv, TypeOK
    <3>2. \A q \in Paths : q # p => Running(q)' = Running(q)
      BY DEF Unlock, Running, IInv, TypeOK
    <3> QED
      BY <3>1, <3>2 DEF Owner, Unlock
  <2>5. Serializer!Leave(c, p)
    BY <2>1, <2>3, <2>4 DEF Serializer!Leave
  <2> QED
    BY <2>5 DEF Serializer!Next
<1>4. CASE \E c \in Callers : Release(c)
  <2>1. Waiting' = Waiting /\ Owner' = Owner
    BY <1>4 DEF Release, Waiting, Queued, Owner, Running, IInv, TypeOK
  <2> QED
    BY <2>1 DEF Serializer!vars
<1>5. CASE UNCHANGED vars
  BY <1>5 DEF vars, Serializer!vars, Waiting, Queued, Owner, Running
<1> QED
  BY <1>1, <1>2, <1>3, <1>4, <1>5 DEF Next

THEOREM Implements == Spec => ImplementsSerializer
<1>1. Init => Serializer!Init
  BY DEF Init, Serializer!Init, Waiting, Queued, Owner, Running
<1> QED
  BY <1>1, StepSimulates, Inductive, PTL DEF Spec, ImplementsSerializer, Serializer!Spec

----------------------------------------------------------------------------
\* The tools.

Phases   == {"idle", "enqueue", "lock", "look", "open", "fill", "leave", "drop"}
Inside   == {"look", "open", "fill", "leave"}
Statuses == {"new", "running", "ok", "error"}

ToolsTyped ==
  /\ files  \in [Paths -> Texts]
  /\ job    \in [Callers -> Jobs \cup {NoJob}]
  /\ at     \in [Callers -> Nat]
  /\ phase  \in [Callers -> Phases]
  /\ body   \in [Callers -> SUBSET Fragments]
  /\ status \in [Jobs -> Statuses]
  /\ done   \in [Jobs -> SUBSET Nat]

\* Where a caller is in its tool says where it is in the queue: a write is
\* never in it, the others are between Acquire and Release from "lock" on, for
\* the path of the operation at hand.
Place(c) ==
  IF phase[c] = "idle" THEN job[c] = NoJob /\ pc[c] = "idle"
  ELSE /\ job[c] \in Jobs /\ at[c] \in DOMAIN job[c].ops
       /\ status[job[c]] = "running" \/ (status[job[c]] = "error" /\ phase[c] \in {"leave", "drop"})
       /\ phase[c] = "fill" => at[c] \in done[job[c]]
       /\ job[c].tool = "write" => phase[c] \in {"open", "fill"}
       /\ job[c].tool = "write" \/ phase[c] = "enqueue" => pc[c] = "idle"
       /\ job[c].tool # "write" =>
            /\ phase[c] # "enqueue" => path[c] = Op(c).path
            /\ phase[c] = "lock"    => pc[c] = "queued"
            /\ phase[c] \in Inside  => pc[c] = "running"
            /\ phase[c] = "drop"    => pc[c] = "unlocked"

\* A call is executed by one caller, and what it has done are operations of it.
OneCaller  == \A c, d \in Callers : job[c] # NoJob /\ job[c] = job[d] => c = d
DoneFormed == \A j \in Jobs : done[j] \subseteq DOMAIN j.ops /\ (status[j] = "new" => done[j] = {})

\* A fragment put into p is there, or about to be, or somebody took it away.
Held(f, p) ==
  \/ Consumed(f, p)
  \/ ~MidWrite(p) /\ files[p] # NoFile /\ f \in files[p]
  \/ \E c \in Callers : phase[c] = "fill" /\ Op(c).path = p /\ f \in body[c]

KeptFor(p) ==
  \A j \in Jobs : \A i \in done[j] :
    j.ops[i].kind = "update" /\ j.ops[i].path = p =>
      \A k \in DOMAIN j.ops[i].subs : Held(j.ops[i].subs[k][2], p)

Kept == \A p \in Paths : QueueOnly(p) => KeptFor(p)

Placed   == ToolsTyped /\ OneCaller /\ DoneFormed /\ \A c \in Callers : Place(c)
ToolsInv == IInv /\ Placed /\ WriteBasedOnCurrent /\ Kept

----------------------------------------------------------------------------
(* The replacements: what they make of a text.                              *)

LEMMA Least ==
  ASSUME NEW S \in SUBSET Nat, S # {}
  PROVE  \E q \in S : \A r \in S : q <= r
<1>1. PICK q \in S : \A r \in S : ~(<<r, q>> \in OpToRel(<, Nat))
  BY NatLessThanWellFounded, WFMin
<1>2. \A r \in S : ~(r < q)
  BY <1>1 DEF OpToRel
<1> QED
  BY <1>2

\* A property of 0 that passes from each number to the next holds up to n.
LEMMA UpTo ==
  ASSUME NEW n \in Nat, NEW P \in SUBSET Nat, 0 \in P, \A i \in 0..(n - 1) : i \in P => i + 1 \in P
  PROVE  n \in P
<1> DEFINE B == {i \in 0..n : i \notin P}
<1>0. SUFFICES ASSUME B # {} PROVE FALSE
  OBVIOUS
<1>1. B \in SUBSET Nat
  OBVIOUS
<1>2. PICK q \in B : \A r \in B : q <= r
  <2> HIDE DEF B
  <2> QED
    BY <1>0, <1>1, Least
<1>3. q \in 0..n /\ q \notin P /\ q # 0
  BY <1>2
<1>4. q - 1 \in 0..(n - 1) /\ q - 1 \in 0..n /\ (q - 1) + 1 = q /\ ~(q <= q - 1)
  BY <1>3
<1>5. q - 1 \notin P
  BY <1>3, <1>4
<1>6. q - 1 \in B
  BY <1>4, <1>5
<1> QED
  BY <1>2, <1>4, <1>6

SubStep(text, subs, after, i) ==
  IF i = 0 THEN [ok |-> TRUE, text |-> text]
  ELSE IF after[i - 1].ok /\ subs[i][1] \in after[i - 1].text
       THEN [ok |-> TRUE, text |-> (after[i - 1].text \ {subs[i][1]}) \cup {subs[i][2]}]
       ELSE [ok |-> FALSE, text |-> after[i - 1].text]

After(text, subs) == CHOOSE after : after = [i \in 0..Len(subs) |-> SubStep(text, subs, after, i)]

\* The recursive function is what its equation says.
LEMMA AfterIsDefined ==
  ASSUME NEW text, NEW subs, Len(subs) \in Nat
  PROVE  /\ Substitute(text, subs) = After(text, subs)[Len(subs)]
         /\ \A i \in 0..Len(subs) : After(text, subs)[i] = SubStep(text, subs, After(text, subs), i)
<1>1. Substitute(text, subs) = After(text, subs)[Len(subs)]
  BY DEF Substitute, After, SubStep
<1> DEFINE P == {n \in Nat : \E after : after = [i \in 0..n |-> SubStep(text, subs, after, i)]}
<1>2. 0 \in P
  <2> DEFINE after == [i \in 0..0 |-> [ok |-> TRUE, text |-> text]]
  <2>1. after = [i \in 0..0 |-> SubStep(text, subs, after, i)]
    BY DEF SubStep
  <2> HIDE DEF after
  <2> QED
    BY <2>1
<1>3. ASSUME NEW n \in 0..(Len(subs) - 1), n \in P PROVE n + 1 \in P
  <2> PICK old : old = [i \in 0..n |-> SubStep(text, subs, old, i)]
    BY <1>3
  <2> DEFINE after == [i \in 0..(n + 1) |-> IF i = n + 1 THEN SubStep(text, subs, old, i) ELSE old[i]]
  <2>1. ASSUME NEW i \in 0..(n + 1) PROVE after[i] = SubStep(text, subs, after, i)
    <3>1. CASE i = 0
      BY <3>1 DEF SubStep
    <3>2. CASE i # 0
      <4>1. i - 1 \in 0..n /\ i - 1 # n + 1 /\ after[i - 1] = old[i - 1]
        BY <3>2
      <4>2. SubStep(text, subs, after, i) = SubStep(text, subs, old, i)
        BY <3>2, <4>1 DEF SubStep
      <4>3. CASE i = n + 1
        BY <4>2, <4>3
      <4>4. CASE i # n + 1
        <5>1. i \in 0..n
          BY <4>4
        <5>2. after[i] = old[i] /\ old[i] = SubStep(text, subs, old, i)
          BY <4>4, <5>1
        <5> QED
          BY <4>2, <5>2
      <4> QED
        BY <4>3, <4>4
    <3> QED
      BY <3>1, <3>2
  <2>2. after = [i \in 0..(n + 1) |-> after[i]]
    OBVIOUS
  <2> HIDE DEF after
  <2>3. after = [i \in 0..(n + 1) |-> SubStep(text, subs, after, i)]
    BY <2>1, <2>2
  <2> QED
    BY <2>3
<1>4. Len(subs) \in P
  <2>1. P \in SUBSET Nat
    OBVIOUS
  <2> HIDE DEF P
  <2>2. \A i \in 0..(Len(subs) - 1) : i \in P => i + 1 \in P
    BY <1>3
  <2> QED
    BY <1>2, <2>1, <2>2, UpTo
<1>5. After(text, subs) = [i \in 0..Len(subs) |-> SubStep(text, subs, After(text, subs), i)]
  BY <1>4, Zenon DEF After
<1>6. ASSUME NEW i \in 0..Len(subs) PROVE After(text, subs)[i] = SubStep(text, subs, After(text, subs), i)
  <2> DEFINE after == After(text, subs)
  <2>1. after = [j \in 0..Len(subs) |-> SubStep(text, subs, after, j)]
    BY <1>5
  <2> HIDE DEF after
  <2>2. after[i] = SubStep(text, subs, after, i)
    BY <2>1
  <2> QED
    BY <2>2 DEF after
<1> QED
  BY <1>1, <1>6

\* A text stays a text.  When all replacements apply, a fragment that was there
\* or was put is there in the end, or one of them took it away.
LEMMA SubstituteKeeps ==
  ASSUME NEW text \in SUBSET Fragments, NEW subs \in Subs
  PROVE  /\ Substitute(text, subs).text \in SUBSET Fragments
         /\ Substitute(text, subs).ok =>
              \A f \in text \cup {subs[k][2] : k \in DOMAIN subs} :
                f \in Substitute(text, subs).text \/ \E k \in DOMAIN subs : subs[k][1] = f
<1>1. PICK n, after :
        /\ n \in Nat /\ n = Len(subs) /\ DOMAIN subs = 1..n
        /\ Substitute(text, subs) = after[n]
        /\ \A i \in 0..n : after[i] = SubStep(text, subs, after, i)
  <2>1. Len(subs) \in Nat /\ DOMAIN subs = 1..Len(subs)
    BY DEF Subs
  <2> QED
    BY SMTT(30), <2>1, AfterIsDefined
<1>0. n \in Nat
  BY <1>1
<1>2. \A k \in 1..n : subs[k][1] \in Fragments /\ subs[k][2] \in Fragments
  BY <1>1 DEF Subs
<1> DEFINE Good(i) == /\ after[i].text \in SUBSET Fragments
                      /\ after[i].ok => \A f : f \in text \/ (\E k \in 1..i : subs[k][2] = f) =>
                           f \in after[i].text \/ \E k \in 1..i : subs[k][1] = f
           P == {i \in Nat : i \in 0..n => Good(i)}
<1>3. Good(0)
  <2>1. after[0] = [ok |-> TRUE, text |-> text]
    <3>1. 0 \in 0..n
      BY <1>0
    <3> QED
      BY <1>1, <3>1, Zenon DEF SubStep
  <2>2. after[0].text = text /\ 1..0 = {}
    BY <2>1
  <2> QED
    BY <2>2
<1>4. ASSUME NEW i \in 0..(n - 1), Good(i) PROVE Good(i + 1)
  <2>1. i + 1 \in 1..n /\ i + 1 \in 0..n /\ (i + 1) - 1 = i /\ i + 1 # 0 /\ 1..(i + 1) = 1..i \cup {i + 1}
    BY <1>1
  <2>2. PICK a, b, s, m : a = after[i] /\ b = after[i + 1] /\ s = subs[i + 1] /\ m = i + 1
    OBVIOUS
  <2>3. b = IF a.ok /\ s[1] \in a.text THEN [ok |-> TRUE, text |-> (a.text \ {s[1]}) \cup {s[2]}]
                                       ELSE [ok |-> FALSE, text |-> a.text]
    <3>1. after[m] = SubStep(text, subs, after, m) /\ m - 1 = i /\ m # 0
      BY <1>1, <2>1, <2>2
    <3> QED
      BY <2>2, <3>1, Zenon DEF SubStep
  <2>4. a.text \in SUBSET Fragments /\ s[2] \in Fragments
    BY <1>2, <1>4, <2>1, <2>2
  <2>5. CASE a.ok /\ s[1] \in a.text
    <3>1. b.ok /\ b.text = (a.text \ {s[1]}) \cup {s[2]}
      BY <2>3, <2>5
    <3>2. b.text \in SUBSET Fragments
      BY <2>4, <3>1
    <3>3. ASSUME NEW f, f \in text \/ \E k \in 1..m : subs[k][2] = f
          PROVE  f \in b.text \/ \E k \in 1..m : subs[k][1] = f
      <4>1. CASE f = s[2]
        BY <3>1, <4>1
      <4>2. CASE f = s[1]
        BY <2>1, <2>2, <4>2
      <4>3. CASE f # s[1] /\ f # s[2]
        <5>1. f \in text \/ \E k \in 1..i : subs[k][2] = f
          BY <2>1, <2>2, <3>3, <4>3
        <5>2. f \in a.text \/ \E k \in 1..i : subs[k][1] = f
          BY <1>4, <2>2, <2>5, <5>1
        <5> QED
          BY <2>1, <2>2, <3>1, <4>3, <5>2
      <4> QED
        BY <4>1, <4>2, <4>3
    <3> QED
      BY <2>2, <3>2, <3>3
  <2>6. CASE ~(a.ok /\ s[1] \in a.text)
    <3>1. b.ok = FALSE /\ b.text = a.text
      BY <2>3, <2>6
    <3> QED
      BY <2>2, <2>4, <3>1
  <2> QED
    BY <2>5, <2>6
<1>5. n \in P
  <2> HIDE DEF Good
  <2>1. P \in SUBSET Nat /\ 0 \in P
    BY <1>3
  <2>2. ASSUME NEW i \in 0..(n - 1), i \in P PROVE i + 1 \in P
    <3>1. i \in 0..n /\ i + 1 \in Nat
      BY <1>0
    <3> QED
      BY <1>4, <2>2, <3>1
  <2> HIDE DEF P
  <2> QED
    BY <1>0, <2>1, <2>2, UpTo
<1>6. Good(n)
  BY <1>5
<1> QED
  BY <1>1, <1>6

----------------------------------------------------------------------------
(* What holds of the operation at hand, and who else may be at its path.    *)

LEMMA OpAtHand ==
  ASSUME Placed, NEW c \in Callers, phase[c] # "idle"
  PROVE  /\ job[c] \in Jobs /\ job[c] # NoJob /\ at[c] \in DOMAIN job[c].ops /\ status[job[c]] # "new"
         /\ Op(c) \in FileOps /\ Op(c).path \in Paths
         /\ Op(c).kind = "put" <=> job[c].tool = "write"
         /\ job[c].tool = "write" => at[c] = 1
<1>1. job[c] \in Jobs /\ at[c] \in DOMAIN job[c].ops /\ status[job[c]] # "new" /\ job[c] # NoJob
  BY JobsFormed DEF Placed, Place
<1>2. PICK j, i : j \in Jobs /\ i \in DOMAIN j.ops /\ j = job[c] /\ i = at[c]
  BY <1>1
<1>3. j.ops \in Seq(FileOps) /\ (j.ops[i].kind = "put" <=> j.tool = "write") /\ (j.tool = "write" => Len(j.ops) = 1)
  BY <1>2, JobsFormed
<1>4. j.ops[i] \in FileOps
  BY <1>2, <1>3
<1>5. j.ops[i].path \in Paths
  BY <1>4 DEF FileOps
<1>6. j.tool = "write" => i = 1
  BY <1>2, <1>3
<1> QED
  BY <1>1, <1>2, <1>3, <1>4, <1>5, <1>6 DEF Op

\* Of the callers between the lock and its release, or in a write, no two are
\* at one path that only tools with the lock have touched.
LEMMA Apart ==
  ASSUME IInv, Placed, NEW c \in Callers, NEW d \in Callers, phase[c] \in Inside, phase[d] \in Inside,
         Op(c).path = Op(d).path, QueueOnly(Op(c).path)
  PROVE  c = d
<1>1. phase[c] # "idle" /\ phase[d] # "idle" /\ phase[c] # "enqueue" /\ phase[d] # "enqueue"
      /\ phase[c] # "lock" /\ phase[d] # "lock"
  BY DEF Inside
<1>2. ASSUME NEW e \in Callers, e \in {c, d} PROVE job[e].tool # "write"
  <2>1. /\ job[e] \in Jobs /\ status[job[e]] # "new"
        /\ job[e].tool = "write" => at[e] = 1
        /\ Op(e).path = Op(c).path
    BY <1>1, <1>2, OpAtHand
  <2>2. ASSUME job[e].tool = "write" PROVE Op(e) = job[e].ops[1]
    BY <2>1, <2>2 DEF Op
  <2> QED
    BY <2>1, <2>2 DEF QueueOnly
<1>3. pc[c] = "running" /\ pc[d] = "running" /\ path[c] = Op(c).path /\ path[d] = Op(d).path
  <2>1. ASSUME NEW e \in Callers, e \in {c, d} PROVE pc[e] = "running" /\ path[e] = Op(e).path
    <3>1. Place(e) /\ job[e].tool # "write" /\ phase[e] # "idle" /\ phase[e] # "enqueue" /\ phase[e] # "lock"
          /\ phase[e] \in Inside
      BY <1>1, <1>2, <2>1 DEF Placed
    <3> QED
      BY <3>1 DEF Place, Inside
  <2> QED
    BY <2>1
<1>4. Op(c).path \in Paths
  BY <1>1, OpAtHand
<1>5. Exclusive
  BY DEF IInv, SameLock, HolderOK, Exclusive, Running
<1> QED
  BY <1>3, <1>4, <1>5 DEF Exclusive, Running

----------------------------------------------------------------------------
(* One caller moves.                                                        *)

OnlyMoves(c) ==
  \A d \in Callers \ {c} : /\ job'[d] = job[d] /\ at'[d] = at[d] /\ phase'[d] = phase[d] /\ body'[d] = body[d]
                           /\ pc'[d] = pc[d] /\ path'[d] = path[d]

\* What has been done, and what has failed, stays so.
Grows ==
  \A j \in Jobs : /\ done[j] \subseteq done'[j]
                  /\ status[j] = "error" => status'[j] = "error"
                  /\ status[j] # "new" => status'[j] # "new"

LEMMA QueueOnlyBefore ==
  ASSUME Grows, NEW p, QueueOnly(p)'
  PROVE  QueueOnly(p)
BY DEF Grows, QueueOnly

LEMMA ConsumedStays ==
  ASSUME Grows, NEW f, NEW p, Consumed(f, p)
  PROVE  Consumed(f, p)'
BY DEF Grows, Consumed

LEMMA PlacedStep ==
  ASSUME Placed, NEW c \in Callers, OnlyMoves(c), Grows, ToolsTyped', DoneFormed', Place(c)',
         \A j \in Jobs : j # job[c] /\ status[j] # "new" => status'[j] = status[j],
         job'[c] \in {job[c], NoJob} \/ status[job'[c]] = "new"
  PROVE  Placed'
<1>1. ASSUME NEW d \in Callers \ {c} PROVE Place(d)'
  <2>1. /\ job'[d] = job[d] /\ at'[d] = at[d] /\ phase'[d] = phase[d] /\ pc'[d] = pc[d] /\ path'[d] = path[d]
        /\ Op(d)' = Op(d)
    BY DEF OnlyMoves, Op
  <2>2. CASE phase[d] = "idle"
    BY <2>1, <2>2 DEF Placed, Place
  <2>3. CASE phase[d] # "idle"
    <3>1. job[d] \in Jobs /\ job[d] # NoJob /\ status[job[d]] # "new"
      BY <2>3, OpAtHand
    <3>2. job[d] # job[c]
      BY <3>1 DEF Placed, OneCaller
    <3>3. status'[job[d]] = status[job[d]] /\ done[job[d]] \subseteq done'[job[d]]
      BY <3>1, <3>2 DEF Grows
    <3>4. Place(d)
      BY DEF Placed
    <3>5. /\ job'[d] \in Jobs /\ at'[d] \in DOMAIN job'[d].ops
          /\ status'[job'[d]] = "running" \/ (status'[job'[d]] = "error" /\ phase'[d] \in {"leave", "drop"})
          /\ phase'[d] = "fill" => at'[d] \in done'[job'[d]]
      BY <2>1, <2>3, <3>3, <3>4 DEF Place
    <3> QED
      BY <2>1, <2>3, <3>4, <3>5, Zenon DEF Place
  <2> QED
    BY <2>2, <2>3
<1>2. OneCaller'
  <2>1. ASSUME NEW d \in Callers \ {c}, job'[d] # NoJob, job'[c] = job'[d] PROVE FALSE
    <3>1. job[d] # NoJob /\ job'[c] = job[d]
      BY <2>1 DEF OnlyMoves
    <3>2. phase[d] # "idle"
      BY <3>1 DEF Placed, Place
    <3>3. status[job[d]] # "new"
      BY <3>2, OpAtHand
    <3>4. job[c] = job[d]
      BY <3>1, <3>3
    <3> QED
      BY <3>1, <3>4 DEF Placed, OneCaller
  <2>2. ASSUME NEW d \in Callers \ {c}, NEW e \in Callers \ {c}, job'[d] # NoJob, job'[d] = job'[e] PROVE d = e
    BY <2>2 DEF Placed, OneCaller, OnlyMoves
  <2> QED
    BY <2>1, <2>2 DEF OneCaller
<1> QED
  BY <1>1, <1>2 DEF Placed

\* What the others have read is still there, and so is what c has.
LEMMA BasedStep ==
  ASSUME WriteBasedOnCurrent, NEW c \in Callers, OnlyMoves(c), Grows,
         \A d \in Callers \ {c} :
           phase[d] = "open" /\ QueueOnly(Op(d).path) => files'[Op(d).path] = files[Op(d).path],
         phase'[c] = "open" /\ job'[c].tool # "write" =>
           Applicable(Op(c)', files'[Op(c)'.path]) /\ body'[c] = NewText(Op(c)', files'[Op(c)'.path])
  PROVE  WriteBasedOnCurrent'
<1>1. ASSUME NEW d \in Callers \ {c}, phase'[d] = "open", job'[d].tool # "write", QueueOnly(Op(d).path)'
      PROVE  Applicable(Op(d)', files'[Op(d)'.path]) /\ body'[d] = NewText(Op(d)', files'[Op(d)'.path])
  <2>1. Op(d)' = Op(d) /\ phase[d] = "open" /\ job[d].tool # "write" /\ body'[d] = body[d]
    BY <1>1 DEF OnlyMoves, Op
  <2>2. QueueOnly(Op(d).path)
    <3>1. PICK p : p = Op(d).path
      OBVIOUS
    <3>2. QueueOnly(p)'
      BY <1>1, <2>1, <3>1 DEF QueueOnly
    <3> QED
      BY <3>1, <3>2, QueueOnlyBefore
  <2>3. files'[Op(d).path] = files[Op(d).path]
    BY <2>1, <2>2
  <2> QED
    BY <2>1, <2>2, <2>3 DEF WriteBasedOnCurrent
<1> QED
  BY <1>1 DEF WriteBasedOnCurrent

\* At a path the step leaves alone, what is held is held.
LEMMA KeptAt ==
  ASSUME Kept, NEW c \in Callers, OnlyMoves(c), Grows, NEW q \in Paths, QueueOnly(q)', files'[q] = files[q],
         phase[c] = "fill" => Op(c).path # q,
         phase'[c] = "fill" => Op(c)'.path # q,
         \A j \in Jobs : \A i \in done'[j] : i \in done[j] \/ j.ops[i].path # q
  PROVE  KeptFor(q)'
<1>1. KeptFor(q)
  BY QueueOnlyBefore DEF Kept
<1>2. \A d \in Callers : phase'[d] = "fill" /\ Op(d)'.path = q <=> phase[d] = "fill" /\ Op(d).path = q
  BY DEF OnlyMoves, Op
<1>3. ASSUME NEW f, Held(f, q) PROVE Held(f, q)'
  <2>1. CASE Consumed(f, q)
    BY <2>1, ConsumedStays DEF Held
  <2>2. CASE ~MidWrite(q) /\ files[q] # NoFile /\ f \in files[q]
    BY <1>2, <2>2 DEF Held, MidWrite
  <2>3. ASSUME NEW d \in Callers, phase[d] = "fill" /\ Op(d).path = q /\ f \in body[d] PROVE Held(f, q)'
    <3>1. d # c /\ body'[d] = body[d] /\ phase'[d] = "fill" /\ Op(d)'.path = q
      BY <1>2, <2>3 DEF OnlyMoves
    <3> QED
      BY <2>3, <3>1 DEF Held
  <2> QED
    BY <1>3, <2>1, <2>2, <2>3 DEF Held
<1>4. ASSUME NEW j \in Jobs, NEW i \in done'[j], j.ops[i].kind = "update" /\ j.ops[i].path = q,
             NEW k \in DOMAIN j.ops[i].subs
      PROVE  Held(j.ops[i].subs[k][2], q)'
  <2>1. i \in done[j]
    BY <1>4
  <2>2. Held(j.ops[i].subs[k][2], q)
    BY <1>1, <1>4, <2>1 DEF KeptFor
  <2> QED
    BY <1>3, <2>2
<1> QED
  BY <1>4 DEF KeptFor

\* A step that touches no file.
LEMMA QuietStep ==
  ASSUME ToolsInv, NEW c \in Callers, OnlyMoves(c), Grows, UNCHANGED <<files, done>>,
         phase[c] # "fill", phase'[c] # "fill",
         phase'[c] = "open" /\ job'[c].tool # "write" =>
           Applicable(Op(c)', files[Op(c)'.path]) /\ body'[c] = NewText(Op(c)', files[Op(c)'.path])
  PROVE  WriteBasedOnCurrent' /\ Kept'
<1>1. WriteBasedOnCurrent'
  BY BasedStep DEF ToolsInv
<1>2. ASSUME NEW q \in Paths, QueueOnly(q)' PROVE KeptFor(q)'
  BY <1>2, KeptAt DEF ToolsInv
<1> QED
  BY <1>1, <1>2 DEF Kept

----------------------------------------------------------------------------
(* The steps.  Each is one of the queue's, or leaves the queue alone.       *)

ToolsRest == Placed /\ WriteBasedOnCurrent /\ Kept

LEMMA CallStep ==
  ASSUME ToolsInv, NEW c \in Callers, NEW j \in Jobs, Call(c, j)
  PROVE  UNCHANGED vars /\ ToolsRest'
<1>1. /\ phase[c] = "idle" /\ status[j] = "new" /\ job' = [job EXCEPT ![c] = j] /\ at' = [at EXCEPT ![c] = 1]
      /\ status' = [status EXCEPT ![j] = "running"]
      /\ phase' = [phase EXCEPT ![c] = IF j.tool = "write" THEN "open" ELSE "enqueue"]
      /\ body' = [body EXCEPT ![c] = IF j.tool = "write" THEN j.ops[1].text ELSE {}]
      /\ UNCHANGED vars /\ UNCHANGED <<files, done>>
  BY DEF Call, To
<1>2. ToolsTyped /\ Placed /\ Place(c)
  BY DEF ToolsInv, Placed
<1>3. pc' = pc /\ path' = path /\ pc[c] = "idle" /\ j # NoJob
  BY <1>1, <1>2, JobsFormed DEF vars, Place
<1>4. 1 \in DOMAIN j.ops /\ j.ops[1].text \in SUBSET Fragments
  <2>1. PICK ops \in Seq(FileOps) : ops = j.ops /\ ops # <<>>
    BY JobsFormed
  <2>2. 1 \in DOMAIN ops /\ ops[1] \in FileOps
    BY <2>1
  <2>3. ops[1].text \in SUBSET Fragments
    BY <2>2 DEF FileOps
  <2> QED
    BY <2>1, <2>2, <2>3
<1>5. ToolsTyped'
  <2>1. at' \in [Callers -> Nat]
    BY <1>1, <1>2 DEF ToolsTyped
  <2>2. body' \in [Callers -> SUBSET Fragments]
    BY <1>1, <1>2, <1>4 DEF ToolsTyped
  <2> QED
    BY <1>1, <1>2, <2>1, <2>2 DEF ToolsTyped, Phases, Statuses
<1>6. /\ job'[c] = j /\ at'[c] = 1 /\ status'[j] = "running" /\ phase'[c] = (IF j.tool = "write" THEN "open" ELSE "enqueue")
      /\ \A i \in Jobs : i # j => status'[i] = status[i]
  BY <1>1, <1>2 DEF ToolsTyped
<1>7. OnlyMoves(c) /\ Grows
  BY <1>1, <1>2, <1>3, <1>6 DEF ToolsTyped, OnlyMoves, Grows
<1>8. Place(c)'
  BY <1>3, <1>4, <1>6 DEF Place, Inside
<1>9. DoneFormed'
  BY <1>1, <1>2, <1>6 DEF Placed, DoneFormed
<1>10. Placed'
  <2>1. \A i \in Jobs : i # job[c] /\ status[i] # "new" => status'[i] = status[i]
    BY <1>1, <1>6
  <2> QED
    BY <1>1, <1>2, <1>5, <1>6, <1>7, <1>8, <1>9, <2>1, PlacedStep
<1>11. WriteBasedOnCurrent' /\ Kept'
  <2>1. phase[c] # "fill" /\ phase'[c] # "fill" /\ ~(phase'[c] = "open" /\ job'[c].tool # "write")
    BY <1>1, <1>6
  <2> QED
    BY <1>1, <1>7, <2>1, QuietStep
<1> QED
  BY <1>1, <1>10, <1>11 DEF ToolsRest

\* The tool returns outside of the queue.
LEMMA ReturnPlaced ==
  ASSUME ToolsInv, NEW c \in Callers, phase[c] # "idle", NEW result \in {"ok", "error"}, Return(c, result),
         status[job[c]] = "error" => result = "error",
         pc'[c] = "idle", \A d \in Callers \ {c} : pc'[d] = pc[d] /\ path'[d] = path[d],
         files' \in [Paths -> Texts], UNCHANGED done
  PROVE  /\ Placed' /\ OnlyMoves(c) /\ Grows /\ phase'[c] = "idle"
         /\ status'[job[c]] = result
<1>1. /\ status' = [status EXCEPT ![job[c]] = result] /\ job' = [job EXCEPT ![c] = NoJob]
      /\ phase' = [phase EXCEPT ![c] = "idle"] /\ at' = [at EXCEPT ![c] = 0] /\ body' = [body EXCEPT ![c] = {}]
  BY DEF Return
<1>2. ToolsTyped /\ Placed
  BY DEF ToolsInv, Placed
<1>3. job[c] \in Jobs /\ job[c] # NoJob /\ status[job[c]] # "new"
  BY <1>2, OpAtHand
<1>4. PICK j \in Jobs : j = job[c]
  BY <1>3
<1>5. ToolsTyped'
  <2>1. at' \in [Callers -> Nat]
    BY <1>1, <1>2 DEF ToolsTyped
  <2> QED
    BY <1>1, <1>2, <2>1 DEF ToolsTyped, Phases, Statuses
<1>6. /\ job'[c] = NoJob /\ phase'[c] = "idle" /\ status'[j] = result
      /\ \A i \in Jobs : i # j => status'[i] = status[i]
  BY <1>1, <1>2, <1>4 DEF ToolsTyped
<1>7. OnlyMoves(c)
  BY <1>1, <1>2 DEF ToolsTyped, OnlyMoves
<1>8. Grows
  BY <1>3, <1>4, <1>6 DEF Grows
<1>9. Place(c)'
  BY <1>6 DEF Place
<1>10. DoneFormed'
  <2>1. \A i \in Jobs : status'[i] = "new" => status[i] = "new"
    BY <1>4, <1>6
  <2> QED
    BY <1>2, <2>1 DEF Placed, DoneFormed
<1>11. Placed'
  BY <1>2, <1>4, <1>5, <1>6, <1>7, <1>8, <1>9, <1>10, PlacedStep
<1> QED
  BY <1>4, <1>6, <1>7, <1>8, <1>11

LEMMA CancelledStep ==
  ASSUME ToolsInv, NEW c \in Callers, Cancelled(c)
  PROVE  UNCHANGED vars /\ ToolsRest'
<1>1. phase[c] \in {"enqueue", "open"} /\ Return(c, "error") /\ UNCHANGED vars /\ UNCHANGED <<files, done>>
      /\ (phase[c] = "enqueue" \/ job[c].tool = "write")
  BY DEF Cancelled
<1>2. pc' = pc /\ path' = path /\ pc[c] = "idle" /\ files' \in [Paths -> Texts]
  BY <1>1 DEF ToolsInv, Placed, ToolsTyped, Place, vars
<1>3. Placed' /\ OnlyMoves(c) /\ Grows /\ phase'[c] = "idle"
  BY <1>1, <1>2, ReturnPlaced
<1>4. WriteBasedOnCurrent' /\ Kept'
  BY <1>1, <1>3, QuietStep
<1> QED
  BY <1>1, <1>3, <1>4 DEF ToolsRest

\* A step of a call that goes on: its place in the tool moves, and the status
\* may turn to an error on the way out.
LEMMA GoesOn ==
  ASSUME ToolsInv, NEW c \in Callers, phase[c] # "idle", NEW ph \in Phases, To(c, ph), ph # "idle",
         UNCHANGED <<job, at>>, body' \in [Callers -> SUBSET Fragments], \A d \in Callers \ {c} : body'[d] = body[d],
         files' \in [Paths -> Texts],
         status' = status \/ (status' = [status EXCEPT ![job[c]] = "error"] /\ ph \in {"leave", "drop"}),
         status[job[c]] = "error" => ph \in {"leave", "drop"},
         done' = done \/ done' = [done EXCEPT ![job[c]] = @ \cup {at[c]}],
         ph = "fill" => at[c] \in done'[job[c]],
         \A d \in Callers \ {c} : pc'[d] = pc[d] /\ path'[d] = path[d],
         job[c].tool = "write" => ph \in {"open", "fill"},
         job[c].tool = "write" \/ ph = "enqueue" => pc'[c] = "idle",
         job[c].tool # "write" => /\ ph # "enqueue" => path'[c] = Op(c).path
                                  /\ ph = "lock"    => pc'[c] = "queued"
                                  /\ ph \in Inside  => pc'[c] = "running"
                                  /\ ph = "drop"    => pc'[c] = "unlocked"
  PROVE  /\ Placed' /\ OnlyMoves(c) /\ Grows /\ phase'[c] = ph /\ Op(c)' = Op(c)
         /\ \A i \in Jobs : \A k \in done'[i] : k \in done[i] \/ (i = job[c] /\ k = at[c])
<1>1. phase' = [phase EXCEPT ![c] = ph] /\ job' = job /\ at' = at
  BY DEF To
<1>2. ToolsTyped /\ Placed
  BY DEF ToolsInv, Placed
<1>3. job[c] \in Jobs /\ job[c] # NoJob /\ status[job[c]] # "new" /\ at[c] \in DOMAIN job[c].ops /\ at[c] \in Nat
  BY <1>2, OpAtHand DEF ToolsTyped
<1>4. PICK j, n : j \in Jobs /\ j = job[c] /\ n = at[c] /\ n \in DOMAIN j.ops /\ n \in Nat
  BY <1>3
<1>5. phase'[c] = ph /\ Op(c)' = Op(c) /\ job'[c] = j /\ at'[c] = n
  BY <1>1, <1>2, <1>4 DEF ToolsTyped, Op
<1>6. /\ \A i \in Jobs : i # j => status'[i] = status[i] /\ done'[i] = done[i]
      /\ status'[j] = status[j] \/ (status'[j] = "error" /\ ph \in {"leave", "drop"})
      /\ done'[j] = done[j] \/ done'[j] = done[j] \cup {n}
  BY <1>2, <1>4 DEF ToolsTyped
<1>7. ToolsTyped'
  <2>1. status' \in [Jobs -> Statuses]
    BY <1>2 DEF ToolsTyped, Statuses
  <2>2. done' \in [Jobs -> SUBSET Nat]
    BY <1>2, <1>3 DEF ToolsTyped
  <2> QED
    BY <1>1, <1>2, <2>1, <2>2 DEF ToolsTyped
<1>8. OnlyMoves(c)
  BY <1>1, <1>2 DEF ToolsTyped, OnlyMoves
<1>9. Grows
  BY <1>3, <1>4, <1>6 DEF Grows
<1>10. Place(c)'
  <2>1. status[j] = "running" \/ status[j] = "error"
    BY <1>2, <1>4 DEF Placed, Place
  <2>2. status'[j] = "running" \/ (status'[j] = "error" /\ ph \in {"leave", "drop"})
    BY <1>4, <1>6, <2>1
  <2>3. /\ ph = "fill" => n \in done'[j]
        /\ j.tool = "write" => ph \in {"open", "fill"}
        /\ j.tool = "write" \/ ph = "enqueue" => pc'[c] = "idle"
        /\ j.tool # "write" => /\ ph # "enqueue" => path'[c] = Op(c)'.path
                               /\ ph = "lock"    => pc'[c] = "queued"
                               /\ ph \in Inside  => pc'[c] = "running"
                               /\ ph = "drop"    => pc'[c] = "unlocked"
    BY <1>4, <1>5
  <2> QED
    BY <1>4, <1>5, <2>2, <2>3 DEF Place
<1>11. DoneFormed'
  BY <1>2, <1>3, <1>4, <1>6 DEF Placed, DoneFormed
<1>12. Placed'
  BY <1>1, <1>2, <1>4, <1>6, <1>7, <1>8, <1>9, <1>10, <1>11, PlacedStep
<1> QED
  BY <1>4, <1>5, <1>6, <1>8, <1>9, <1>12

LEMMA EnqueueStep ==
  ASSUME ToolsInv, NEW c \in Callers, Enqueue(c)
  PROVE  [Next]_vars /\ ToolsRest'
<1>1. phase[c] = "enqueue" /\ Acquire(c, Op(c).path) /\ To(c, "lock") /\ UNCHANGED <<files, job, at, body, status, done>>
  BY DEF Enqueue
<1>2. Op(c).path \in Paths
  BY <1>1, OpAtHand DEF ToolsInv
<1>3. PICK p \in Paths : p = Op(c).path
  BY <1>2
<1>4. Next
  BY <1>1, <1>3 DEF Next
<1>5. pc' = [pc EXCEPT ![c] = "queued"] /\ path' = [path EXCEPT ![c] = Op(c).path]
  BY <1>1 DEF Acquire
<1>6. pc'[c] = "queued" /\ path'[c] = Op(c).path /\ \A d \in Callers \ {c} : pc'[d] = pc[d] /\ path'[d] = path[d]
  BY <1>5 DEF ToolsInv, IInv, TypeOK
<1>7. /\ body' \in [Callers -> SUBSET Fragments] /\ files' \in [Paths -> Texts] /\ job[c].tool # "write"
      /\ status[job[c]] # "error"
  BY <1>1 DEF ToolsInv, Placed, ToolsTyped, Place
<1>8. Placed' /\ OnlyMoves(c) /\ Grows /\ phase'[c] = "lock"
  BY <1>1, <1>6, <1>7, GoesOn DEF Phases, Inside
<1>9. WriteBasedOnCurrent' /\ Kept'
  BY <1>1, <1>8, QuietStep
<1> QED
  BY <1>4, <1>8, <1>9 DEF ToolsRest

LEMMA TakeLockStep ==
  ASSUME ToolsInv, NEW c \in Callers, TakeLock(c)
  PROVE  [Next]_vars /\ ToolsRest'
<1>1. phase[c] = "lock" /\ Lock(c) /\ To(c, "look") /\ UNCHANGED <<files, job, at, body, status, done>>
  BY DEF TakeLock
<1>2. Next
  BY <1>1 DEF Next
<1>3. pc' = [pc EXCEPT ![c] = "running"] /\ path' = path
  BY <1>1 DEF Lock
<1>4. pc'[c] = "running" /\ path'[c] = path[c] /\ \A d \in Callers \ {c} : pc'[d] = pc[d] /\ path'[d] = path[d]
  BY <1>3 DEF ToolsInv, IInv, TypeOK
<1>5. /\ body' \in [Callers -> SUBSET Fragments] /\ files' \in [Paths -> Texts] /\ job[c].tool # "write"
      /\ status[job[c]] # "error" /\ path[c] = Op(c).path
  BY <1>1 DEF ToolsInv, Placed, ToolsTyped, Place
<1>6. Placed' /\ OnlyMoves(c) /\ Grows /\ phase'[c] = "look"
  BY <1>1, <1>4, <1>5, GoesOn DEF Phases, Inside
<1>7. WriteBasedOnCurrent' /\ Kept'
  BY <1>1, <1>6, QuietStep
<1> QED
  BY <1>2, <1>6, <1>7 DEF ToolsRest

LEMMA LeaveStep ==
  ASSUME ToolsInv, NEW c \in Callers, Leave(c)
  PROVE  [Next]_vars /\ ToolsRest'
<1>1. phase[c] = "leave" /\ Unlock(c) /\ To(c, "drop") /\ UNCHANGED <<files, job, at, body, status, done>>
  BY DEF Leave
<1>2. Next
  BY <1>1 DEF Next
<1>3. pc' = [pc EXCEPT ![c] = "unlocked"] /\ path' = path
  BY <1>1 DEF Unlock
<1>4. pc'[c] = "unlocked" /\ path'[c] = path[c] /\ \A d \in Callers \ {c} : pc'[d] = pc[d] /\ path'[d] = path[d]
  BY <1>3 DEF ToolsInv, IInv, TypeOK
<1>5. /\ body' \in [Callers -> SUBSET Fragments] /\ files' \in [Paths -> Texts] /\ job[c].tool # "write"
      /\ path[c] = Op(c).path
  BY <1>1 DEF ToolsInv, Placed, ToolsTyped, Place
<1>6. Placed' /\ OnlyMoves(c) /\ Grows /\ phase'[c] = "drop"
  BY <1>1, <1>4, <1>5, GoesOn DEF Phases, Inside
<1>7. WriteBasedOnCurrent' /\ Kept'
  BY <1>1, <1>6, QuietStep
<1> QED
  BY <1>2, <1>6, <1>7 DEF ToolsRest

\* Run returns: the call ends, or goes on to its next operation.
LEMMA DropStep ==
  ASSUME ToolsInv, NEW c \in Callers, Drop(c)
  PROVE  [Next]_vars /\ ToolsRest'
<1>1. phase[c] = "drop" /\ Release(c) /\ UNCHANGED <<files, done>>
  BY DEF Drop
<1>2. Next
  BY <1>1 DEF Next
<1>3. pc' = [pc EXCEPT ![c] = "idle"] /\ path' = [path EXCEPT ![c] = NoPath]
  BY <1>1 DEF Release
<1>4. pc'[c] = "idle" /\ \A d \in Callers \ {c} : pc'[d] = pc[d] /\ path'[d] = path[d]
  BY <1>3 DEF ToolsInv, IInv, TypeOK
<1>5. files' \in [Paths -> Texts] /\ job[c].tool # "write"
  BY <1>1 DEF ToolsInv, Placed, ToolsTyped, Place
<1>6. ASSUME NEW result \in {"ok", "error"}, Return(c, result), status[job[c]] = "error" => result = "error"
      PROVE  ToolsRest'
  <2>1. Placed' /\ OnlyMoves(c) /\ Grows /\ phase'[c] = "idle"
    BY <1>1, <1>4, <1>5, <1>6, ReturnPlaced
  <2>2. WriteBasedOnCurrent' /\ Kept'
    BY <1>1, <2>1, QuietStep
  <2> QED
    BY <2>1, <2>2 DEF ToolsRest
<1>7. ASSUME status[job[c]] # "error", ~LastOp(c), at' = [at EXCEPT ![c] = @ + 1], To(c, "enqueue"),
             body' = [body EXCEPT ![c] = {}], UNCHANGED <<job, status>>
      PROVE  ToolsRest'
  <2>1. phase' = [phase EXCEPT ![c] = "enqueue"] /\ ToolsTyped /\ Placed
    BY <1>7 DEF To, ToolsInv, Placed
  <2>2. PICK j, n : j \in Jobs /\ j = job[c] /\ n = at[c] /\ n \in DOMAIN j.ops /\ n # Len(j.ops)
    BY <1>1, <1>7, <2>1, OpAtHand DEF LastOp
  <2>3. n + 1 \in DOMAIN j.ops /\ n + 1 \in Nat
    <3>1. PICK ops \in Seq(FileOps) : ops = j.ops
      BY <2>2, JobsFormed
    <3>2. n \in 1..Len(ops) /\ n # Len(ops) /\ DOMAIN ops = 1..Len(ops) /\ Len(ops) \in Nat
      BY <2>2, <3>1
    <3>3. n + 1 \in 1..Len(ops)
      <4>1. \A l \in Nat : \A i \in 1..l : i # l => i + 1 \in 1..l
        OBVIOUS
      <4> QED
        BY <3>2, <4>1, Zenon
    <3> QED
      BY <3>1, <3>2, <3>3
  <2>4. phase'[c] = "enqueue" /\ job'[c] = j /\ at'[c] = n + 1
    BY <1>7, <2>1, <2>2 DEF ToolsTyped
  <2>5. ToolsTyped'
    <3>1. at' \in [Callers -> Nat]
      BY <1>7, <2>1 DEF ToolsTyped
    <3> QED
      BY <1>1, <1>7, <2>1, <3>1 DEF ToolsTyped, Phases
  <2>6. OnlyMoves(c) /\ Grows
    BY <1>1, <1>4, <1>7, <2>1 DEF ToolsTyped, OnlyMoves, Grows
  <2>7. status[j] = "running"
    BY <1>1, <1>7, <2>1, <2>2 DEF Placed, Place
  <2>8. Place(c)'
    BY <1>4, <1>5, <1>7, <2>2, <2>3, <2>4, <2>7 DEF Place, Inside
  <2>9. DoneFormed'
    BY <1>1, <1>7, <2>1 DEF Placed, DoneFormed
  <2>10. Placed'
    BY <1>7, <2>1, <2>5, <2>6, <2>8, <2>9, PlacedStep
  <2>11. WriteBasedOnCurrent' /\ Kept'
    BY <1>1, <2>4, <2>6, QuietStep
  <2> QED
    BY <2>10, <2>11 DEF ToolsRest
<1>8. ToolsRest'
  BY <1>6, <1>7 DEF Drop
<1> QED
  BY <1>2, <1>8

\* What is computed from a text is a text again.
LEMMA NewTextTyped ==
  ASSUME NEW op \in FileOps, op.kind # "delete", NEW text \in Texts, Applicable(op, text)
  PROVE  NewText(op, text) \in SUBSET Fragments
<1>1. op.subs \in Subs /\ op.text \in SUBSET Fragments
  BY DEF FileOps
<1>2. CASE op.kind = "update"
  <2>1. text \in SUBSET Fragments
    BY <1>2 DEF Applicable, Texts
  <2>2. Substitute(text, op.subs).text \in SUBSET Fragments
    BY <1>1, <2>1, SubstituteKeeps
  <2> QED
    BY <1>2, <2>2 DEF NewText
<1>3. CASE op.kind # "update"
  BY <1>1, <1>3 DEF NewText
<1> QED
  BY <1>2, <1>3

LEMMA LookStep ==
  ASSUME ToolsInv, NEW c \in Callers, Look(c)
  PROVE  UNCHANGED vars /\ ToolsRest'
<1> DEFINE text == files[Op(c).path]
<1>1. phase[c] = "look" /\ UNCHANGED vars /\ UNCHANGED <<job, at>>
  BY DEF Look
<1>2. ToolsTyped /\ Placed
  BY DEF ToolsInv, Placed
<1>3. /\ Op(c) \in FileOps /\ Op(c).path \in Paths /\ job[c] \in Jobs /\ at[c] \in Nat
  BY <1>1, <1>2, OpAtHand DEF ToolsTyped
<1>4. /\ pc' = pc /\ path' = path /\ pc[c] = "running" /\ path[c] = Op(c).path /\ job[c].tool # "write"
      /\ status[job[c]] # "error"
  BY <1>1, <1>2 DEF Placed, Place, vars, Inside
<1>5. CASE /\ UNCHANGED <<files, body, done>> /\ To(c, "leave")
           /\ status' = status \/ status' = [status EXCEPT ![job[c]] = "error"]
  <2>1. body' \in [Callers -> SUBSET Fragments] /\ files' \in [Paths -> Texts]
    BY <1>2, <1>5 DEF ToolsTyped
  <2>2. Placed' /\ OnlyMoves(c) /\ Grows /\ phase'[c] = "leave"
    BY <1>1, <1>4, <1>5, <2>1, GoesOn DEF Phases, Inside
  <2>3. WriteBasedOnCurrent' /\ Kept'
    BY <1>1, <1>5, <2>2, QuietStep
  <2> QED
    BY <1>1, <2>2, <2>3 DEF ToolsRest
<1>6. CASE /\ Op(c).kind = "delete" /\ files' = [files EXCEPT ![Op(c).path] = NoFile]
           /\ done' = [done EXCEPT ![job[c]] = @ \cup {at[c]}] /\ To(c, "leave") /\ UNCHANGED <<body, status>>
  <2>1. body' \in [Callers -> SUBSET Fragments] /\ files' \in [Paths -> Texts]
    BY <1>2, <1>6 DEF ToolsTyped, Texts
  <2>2. /\ Placed' /\ OnlyMoves(c) /\ Grows /\ phase'[c] = "leave" /\ Op(c)' = Op(c)
        /\ \A i \in Jobs : \A k \in done'[i] : k \in done[i] \/ (i = job[c] /\ k = at[c])
    BY <1>1, <1>4, <1>6, <2>1, GoesOn DEF Phases, Inside
  <2>3. \A q \in Paths : q # Op(c).path => files'[q] = files[q]
    BY <1>2, <1>6 DEF ToolsTyped
  <2>4. ASSUME NEW d \in Callers \ {c}, phase[d] = "open", QueueOnly(Op(d).path)
        PROVE  files'[Op(d).path] = files[Op(d).path]
    <3>1. Op(d).path # Op(c).path
      BY <1>1, <1>2, <2>4, Apart DEF Inside, ToolsInv
    <3>2. Op(d).path \in Paths
      BY <1>2, <2>4, OpAtHand
    <3> QED
      BY <2>3, <3>1, <3>2
  <2>5. WriteBasedOnCurrent'
    BY <2>2, <2>4, BasedStep DEF ToolsInv
  <2>6. ASSUME NEW q \in Paths, QueueOnly(q)' PROVE KeptFor(q)'
    <3>1. CASE q = Op(c).path
      <4>1. at[c] \in done'[job[c]] /\ Op(c) = job[c].ops[at[c]]
        BY <1>2, <1>3, <1>6 DEF ToolsTyped, Op
      <4>2. \A f : Consumed(f, q)'
        BY <1>3, <1>6, <3>1, <4>1 DEF Consumed
      <4> QED
        BY <4>2 DEF KeptFor, Held
    <3>2. CASE q # Op(c).path
      <4>1. \A j \in Jobs : \A i \in done'[j] : i \in done[j] \/ j.ops[i].path # q
        BY <2>2, <3>2 DEF Op
      <4>2. files'[q] = files[q] /\ phase[c] # "fill" /\ phase'[c] # "fill"
        BY <1>1, <2>2, <2>3, <3>2
      <4> QED
        BY <2>2, <2>6, <4>1, <4>2, KeptAt DEF ToolsInv
    <3> QED
      BY <3>1, <3>2
  <2>7. Kept'
    BY <2>6 DEF Kept
  <2> QED
    BY <1>1, <2>2, <2>5, <2>7 DEF ToolsRest
<1>7. CASE /\ Op(c).kind # "delete" /\ Applicable(Op(c), text) /\ body' = [body EXCEPT ![c] = NewText(Op(c), text)]
           /\ To(c, "open") /\ UNCHANGED <<files, status, done>>
  <2>1. NewText(Op(c), text) \in SUBSET Fragments
    <3>1. text \in Texts
      BY <1>2, <1>3 DEF ToolsTyped
    <3> HIDE DEF text
    <3> QED
      BY <1>3, <1>7, <3>1, NewTextTyped
  <2>2. /\ body' \in [Callers -> SUBSET Fragments] /\ body'[c] = NewText(Op(c), text) /\ files' \in [Paths -> Texts]
        /\ \A d \in Callers \ {c} : body'[d] = body[d]
    BY <1>2, <1>7, <2>1 DEF ToolsTyped
  <2>3. Placed' /\ OnlyMoves(c) /\ Grows /\ phase'[c] = "open" /\ Op(c)' = Op(c)
    BY <1>1, <1>4, <1>7, <2>2, GoesOn DEF Phases, Inside
  <2>4. WriteBasedOnCurrent' /\ Kept'
    BY <1>1, <1>7, <2>2, <2>3, QuietStep
  <2> QED
    BY <1>1, <2>3, <2>4 DEF ToolsRest
<1> QED
  BY <1>5, <1>6, <1>7 DEF Look, Fails

\* What a replacement leaves of what is held: it stays, or is taken away by it.
LEMMA NewTextKeeps ==
  ASSUME NEW op \in FileOps, NEW text \in Texts, Applicable(op, text), op.kind = "update"
  PROVE  /\ text # NoFile
         /\ \A f : f \in text \/ (\E k \in DOMAIN op.subs : op.subs[k][2] = f) =>
              f \in NewText(op, text) \/ \E k \in DOMAIN op.subs : op.subs[k][1] = f
<1>1. op.subs \in Subs
  BY DEF FileOps
<1>2. text # NoFile /\ text \in SUBSET Fragments /\ Substitute(text, op.subs).ok
  BY DEF Applicable, Texts
<1>3. \A f \in text \cup {op.subs[k][2] : k \in DOMAIN op.subs} :
        f \in Substitute(text, op.subs).text \/ \E k \in DOMAIN op.subs : op.subs[k][1] = f
  BY <1>1, <1>2, SubstituteKeeps
<1> QED
  BY <1>2, <1>3 DEF NewText

LEMMA OpenStep ==
  ASSUME ToolsInv, NEW c \in Callers, Open(c)
  PROVE  UNCHANGED vars /\ ToolsRest'
<1>1. /\ phase[c] = "open" /\ files' = [files EXCEPT ![Op(c).path] = {}]
      /\ done' = [done EXCEPT ![job[c]] = @ \cup {at[c]}] /\ To(c, "fill")
      /\ UNCHANGED vars /\ UNCHANGED <<job, at, body, status>>
  BY DEF Open
<1>2. ToolsTyped /\ Placed
  BY DEF ToolsInv, Placed
<1>3. /\ Op(c) \in FileOps /\ Op(c).path \in Paths /\ job[c] \in Jobs /\ at[c] \in Nat
      /\ job[c].tool = "write" => at[c] = 1
      /\ status[job[c]] # "new"
  BY <1>1, <1>2, OpAtHand DEF ToolsTyped
<1>4. /\ pc' = pc /\ path' = path /\ status[job[c]] # "error"
      /\ job[c].tool = "write" => pc[c] = "idle"
      /\ job[c].tool # "write" => pc[c] = "running" /\ path[c] = Op(c).path
  BY <1>1, <1>2 DEF Placed, Place, vars, Inside
<1>5. body' \in [Callers -> SUBSET Fragments] /\ files' \in [Paths -> Texts] /\ at[c] \in done'[job[c]]
  <2>1. {} \in Texts
    BY DEF Texts
  <2> QED
    BY <1>1, <1>2, <1>3, <2>1 DEF ToolsTyped
<1>6. /\ Placed' /\ OnlyMoves(c) /\ Grows /\ phase'[c] = "fill" /\ Op(c)' = Op(c)
      /\ \A i \in Jobs : \A k \in done'[i] : k \in done[i] \/ (i = job[c] /\ k = at[c])
  BY <1>1, <1>4, <1>5, GoesOn DEF Phases, Inside
<1>7. \A q \in Paths : q # Op(c).path => files'[q] = files[q]
  BY <1>1, <1>2 DEF ToolsTyped
<1>8. ASSUME NEW d \in Callers \ {c}, phase[d] = "open", QueueOnly(Op(d).path)
      PROVE  files'[Op(d).path] = files[Op(d).path]
  <2>1. Op(d).path # Op(c).path
    BY <1>1, <1>2, <1>8, Apart DEF Inside, ToolsInv
  <2>2. Op(d).path \in Paths
    BY <1>2, <1>8, OpAtHand
  <2> QED
    BY <1>7, <2>1, <2>2
<1>9. WriteBasedOnCurrent'
  BY <1>6, <1>8, BasedStep DEF ToolsInv
<1>10. ASSUME NEW q \in Paths, QueueOnly(q)' PROVE KeptFor(q)'
  <2>1. CASE q # Op(c).path
    <3>1. \A j \in Jobs : \A i \in done'[j] : i \in done[j] \/ j.ops[i].path # q
      BY <1>6, <2>1 DEF Op
    <3>2. files'[q] = files[q] /\ Op(c)'.path # q
      BY <1>6, <1>7, <2>1
    <3> QED
      BY <1>6, <1>10, <2>1, <3>1, <3>2, KeptAt DEF ToolsInv
  <2>2. CASE q = Op(c).path
    <3>1. QueueOnly(q)
      BY <1>6, <1>10, QueueOnlyBefore
    <3>2. job[c].tool # "write"
      BY <1>3, <2>2, <3>1 DEF QueueOnly, Op
    <3>3. PICK text \in Texts : text = files[q]
      BY <1>2 DEF ToolsTyped
    <3>4. Applicable(Op(c), text) /\ body[c] = NewText(Op(c), text)
      BY <1>1, <2>2, <3>1, <3>2, <3>3 DEF ToolsInv, WriteBasedOnCurrent
    <3>5. ~MidWrite(q)
      BY <1>1, <1>2, <2>2, <3>1, Apart DEF Inside, ToolsInv, MidWrite
    <3>6. PICK j, n : j \in Jobs /\ j = job[c] /\ n = at[c] /\ n \in done'[j] /\ j.ops[n] = Op(c)
      BY <1>3, <1>5 DEF Op
    <3>7. ASSUME NEW f, f \in body[c] \/ \E k \in DOMAIN Op(c).subs : Op(c).subs[k][1] = f
          PROVE  Held(f, q)'
      <4>1. CASE f \in body[c]
        BY <1>1, <1>6, <2>2, <4>1 DEF Held
      <4>2. CASE \E k \in DOMAIN Op(c).subs : Op(c).subs[k][1] = f
        <5>1. Consumed(f, q)'
          BY <2>2, <3>6, <4>2 DEF Consumed
        <5> QED
          BY <5>1 DEF Held
      <4> QED
        BY <3>7, <4>1, <4>2
    <3>8. ASSUME NEW f, Held(f, q) PROVE Held(f, q)'
      <4>1. CASE Consumed(f, q)
        BY <1>6, <4>1, ConsumedStays DEF Held
      <4>2. CASE text # NoFile /\ f \in text
        <5>1. CASE Op(c).kind = "update"
          <6>1. f \in NewText(Op(c), text) \/ \E k \in DOMAIN Op(c).subs : Op(c).subs[k][1] = f
            BY <1>3, <3>4, <4>2, <5>1, NewTextKeeps
          <6> QED
            BY <3>4, <3>7, <6>1
        <5>2. CASE Op(c).kind = "delete"
          <6>1. Consumed(f, q)'
            BY <2>2, <3>6, <5>2 DEF Consumed
          <6> QED
            BY <6>1 DEF Held
        <5> QED
          BY <3>4, <4>2, <5>1, <5>2 DEF Applicable
      <4> QED
        BY <3>3, <3>5, <3>8, <4>1, <4>2 DEF Held, MidWrite
    <3>9. ASSUME NEW i \in Jobs, NEW m \in done'[i], i.ops[m].kind = "update" /\ i.ops[m].path = q,
                 NEW k \in DOMAIN i.ops[m].subs
          PROVE  Held(i.ops[m].subs[k][2], q)'
      <4>1. CASE m \in done[i]
        <5>1. Held(i.ops[m].subs[k][2], q)
          BY <3>1, <3>9, <4>1 DEF ToolsInv, Kept, KeptFor
        <5> QED
          BY <3>8, <5>1
      <4>2. CASE i = job[c] /\ m = at[c]
        <5>1. i.ops[m] = Op(c)
          BY <4>2 DEF Op
        <5>2. PICK f : f = i.ops[m].subs[k][2]
          OBVIOUS
        <5>3. f \in NewText(Op(c), text) \/ \E l \in DOMAIN Op(c).subs : Op(c).subs[l][1] = f
          BY <1>3, <3>4, <3>9, <5>1, <5>2, NewTextKeeps
        <5> QED
          BY <3>4, <3>7, <5>2, <5>3
      <4> QED
        BY <1>6, <4>1, <4>2
    <3> QED
      BY <3>9 DEF KeptFor
  <2> QED
    BY <2>1, <2>2
<1> QED
  BY <1>1, <1>6, <1>9, <1>10 DEF ToolsRest, Kept

LEMMA FillStep ==
  ASSUME ToolsInv, NEW c \in Callers, Fill(c)
  PROVE  UNCHANGED vars /\ ToolsRest'
<1>1. phase[c] = "fill" /\ UNCHANGED vars /\ UNCHANGED done
      /\ (files' = [files EXCEPT ![Op(c).path] = body[c]] \/ files' = files)
  BY DEF Fill
<1>2. ToolsTyped /\ Placed
  BY DEF ToolsInv, Placed
<1>3. /\ Op(c) \in FileOps /\ Op(c).path \in Paths /\ job[c] \in Jobs
      /\ job[c].tool = "write" => at[c] = 1
      /\ status[job[c]] # "new" /\ body[c] \in SUBSET Fragments
  BY <1>1, <1>2, OpAtHand DEF ToolsTyped
<1>4. /\ pc' = pc /\ path' = path /\ status[job[c]] # "error" /\ at[c] \in done[job[c]]
      /\ job[c].tool = "write" => pc[c] = "idle"
      /\ job[c].tool # "write" => pc[c] = "running" /\ path[c] = Op(c).path
  BY <1>1, <1>2 DEF Placed, Place, vars, Inside
<1>5. files' \in [Paths -> Texts]
  <2>1. body[c] \in Texts
    BY <1>3 DEF Texts
  <2> QED
    BY <1>1, <1>2, <2>1 DEF ToolsTyped
<1>6. \A q \in Paths : q # Op(c).path => files'[q] = files[q]
  BY <1>1, <1>2 DEF ToolsTyped
<1>7. ASSUME NEW d \in Callers \ {c}, phase[d] = "open", QueueOnly(Op(d).path)
      PROVE  files'[Op(d).path] = files[Op(d).path]
  <2>1. Op(d).path # Op(c).path
    BY <1>1, <1>2, <1>7, Apart DEF Inside, ToolsInv
  <2>2. Op(d).path \in Paths
    BY <1>2, <1>7, OpAtHand
  <2> QED
    BY <1>6, <2>1, <2>2
<1>8. ASSUME OnlyMoves(c), Grows, phase'[c] # "fill", phase'[c] # "open" PROVE WriteBasedOnCurrent'
  BY <1>7, <1>8, BasedStep DEF ToolsInv
<1>9. ASSUME OnlyMoves(c), Grows, phase'[c] # "fill", NEW q \in Paths, q # Op(c).path, QueueOnly(q)' PROVE KeptFor(q)'
  BY <1>1, <1>6, <1>9, KeptAt DEF ToolsInv
<1>10. CASE job[c].tool = "write"
  <2>1. PICK result \in {"ok", "error"} : Return(c, result)
    BY <1>10 DEF Fill
  <2>2. Placed' /\ OnlyMoves(c) /\ Grows /\ phase'[c] = "idle"
    BY <1>1, <1>4, <1>5, <1>10, <2>1, ReturnPlaced
  <2>3. ASSUME NEW q \in Paths, QueueOnly(q)' PROVE q # Op(c).path
    <3>1. QueueOnly(q)
      BY <2>2, <2>3, QueueOnlyBefore
    <3> QED
      BY <1>3, <1>10, <3>1 DEF QueueOnly, Op
  <2>4. Kept'
    BY <1>9, <2>2, <2>3 DEF Kept
  <2> QED
    BY <1>1, <1>8, <2>2, <2>4 DEF ToolsRest
<1>11. CASE job[c].tool # "write"
  <2>1. /\ To(c, "leave") /\ UNCHANGED <<job, at, body>>
        /\ \/ files' = [files EXCEPT ![Op(c).path] = body[c]] /\ status' = status
           \/ DiskFails /\ files' = files /\ status' = [status EXCEPT ![job[c]] = "error"]
    BY <1>11 DEF Fill, Fails
  <2>2. body' \in [Callers -> SUBSET Fragments]
    BY <1>2, <2>1 DEF ToolsTyped
  <2>3. Placed' /\ OnlyMoves(c) /\ Grows /\ phase'[c] = "leave"
    BY <1>1, <1>4, <1>5, <1>11, <2>1, <2>2, GoesOn DEF Phases, Inside
  <2>4. ASSUME NEW q \in Paths, QueueOnly(q)', q = Op(c).path PROVE KeptFor(q)'
    <3>1. QueueOnly(q)
      BY <2>3, <2>4, QueueOnlyBefore
    <3>2. \A d \in Callers : phase[d] = "fill" /\ Op(d).path = q => d = c
      BY <1>1, <1>2, <2>4, <3>1, Apart DEF Inside, ToolsInv
    <3>3. ~MidWrite(q)'
      BY <2>3, <3>2 DEF MidWrite, OnlyMoves, Op
    <3>4. ASSUME NEW f, Held(f, q) PROVE Held(f, q)'
      <4>1. CASE files' = [files EXCEPT ![Op(c).path] = body[c]]
        <5>1. files'[q] = body[c] /\ files'[q] # NoFile
          BY <1>2, <1>3, <2>4, <4>1, FilesFormed DEF ToolsTyped
        <5>2. Consumed(f, q) \/ f \in body[c]
          BY <1>1, <2>4, <3>2, <3>4 DEF Held, MidWrite
        <5> QED
          BY <2>3, <3>3, <5>1, <5>2, ConsumedStays DEF Held
      <4>2. CASE DiskFails /\ status' = [status EXCEPT ![job[c]] = "error"]
        <5>1. status'[job[c]] = "error" /\ at[c] \in done'[job[c]] /\ job[c].ops[at[c]].path = q
          BY <1>1, <1>2, <1>3, <1>4, <2>4, <4>2 DEF ToolsTyped, Op
        <5>2. Consumed(f, q)'
          BY <1>3, <4>2, <5>1 DEF Consumed
        <5> QED
          BY <5>2 DEF Held
      <4> QED
        BY <2>1, <4>1, <4>2
    <3>5. KeptFor(q)
      BY <3>1 DEF ToolsInv, Kept
    <3> QED
      BY <1>1, <3>4, <3>5 DEF KeptFor
  <2>5. Kept'
    BY <1>9, <2>3, <2>4 DEF Kept
  <2> QED
    BY <1>1, <1>8, <2>3, <2>5 DEF ToolsRest
<1> QED
  BY <1>10, <1>11

----------------------------------------------------------------------------
LEMMA ToolsStart == FInit => ToolsInv
<1> SUFFICES ASSUME FInit PROVE ToolsInv
  OBVIOUS
<1>1. IInv
  BY InitIInv DEF FInit
<1>2. ToolsTyped
  BY FilesFormed DEF FInit, ToolsTyped, Phases, Statuses
<1>3. \A c \in Callers : phase[c] = "idle" /\ job[c] = NoJob /\ pc[c] = "idle"
  BY DEF FInit, Init
<1>4. \A j \in Jobs : status[j] = "new" /\ done[j] = {}
  BY DEF FInit
<1>5. Placed
  BY <1>2, <1>3, <1>4 DEF Placed, OneCaller, DoneFormed, Place
<1>6. WriteBasedOnCurrent /\ Kept
  BY <1>3, <1>4 DEF WriteBasedOnCurrent, Kept, KeptFor
<1> QED
  BY <1>1, <1>5, <1>6 DEF ToolsInv

LEMMA ToolsNext ==
  ASSUME ToolsInv, [FNext]_fvars
  PROVE  [Next]_vars /\ ToolsInv'
<1>1. CASE UNCHANGED fvars
  <2>1. UNCHANGED vars /\ UNCHANGED <<files, job, at, phase, body, status, done>>
    BY <1>1 DEF fvars, toolVars
  <2>2. pc' = pc /\ path' = path
    BY <2>1 DEF vars
  <2>3. Placed'
    BY <2>1, <2>2 DEF ToolsInv, Placed, ToolsTyped, OneCaller, DoneFormed, Place, Op
  <2>4. WriteBasedOnCurrent' /\ Kept'
    <3>1. WriteBasedOnCurrent'
      BY <2>1 DEF ToolsInv, WriteBasedOnCurrent, QueueOnly, Op
    <3>2. \A p \in Paths : QueueOnly(p)' = QueueOnly(p) /\ MidWrite(p)' = MidWrite(p)
      BY <2>1 DEF QueueOnly, MidWrite, Op
    <3>3. \A f, p : Consumed(f, p)' = Consumed(f, p)
      BY <2>1 DEF Consumed
    <3>4. \A p \in Paths : \A f : Held(f, p)' = Held(f, p)
      BY <2>1, <3>2, <3>3 DEF Held, Op
    <3>5. Kept'
      BY <2>1, <3>2, <3>4 DEF ToolsInv, Kept, KeptFor
    <3> QED
      BY <3>1, <3>5
  <2>5. IInv'
    BY <2>1, StepIInv DEF ToolsInv
  <2> QED
    BY <2>1, <2>3, <2>4, <2>5 DEF ToolsInv
<1>2. ASSUME NEW c \in Callers,
             (\E j \in Jobs : Call(c, j)) \/ Cancelled(c) \/ Enqueue(c) \/ TakeLock(c) \/ Look(c)
               \/ Open(c) \/ Fill(c) \/ Leave(c) \/ Drop(c)
      PROVE  [Next]_vars /\ ToolsInv'
  <2>1. [Next]_vars /\ ToolsRest'
    BY <1>2, CallStep, CancelledStep, EnqueueStep, TakeLockStep, LookStep, OpenStep, FillStep, LeaveStep, DropStep
  <2>2. IInv'
    BY <2>1, StepIInv DEF ToolsInv
  <2> QED
    BY <2>1, <2>2 DEF ToolsInv, ToolsRest
<1> QED
  BY <1>1, <1>2 DEF FNext

THEOREM ToolsInductive == FSpec => []ToolsInv
<1>1. ToolsInv /\ [FNext]_fvars => ToolsInv'
  BY ToolsNext
<1> QED
  BY <1>1, ToolsStart, PTL DEF FSpec

LEMMA ToolsKeepUpdates == ToolsInv => NoLostUpdate
<1> SUFFICES ASSUME ToolsInv, NEW j \in Jobs, NEW i \in done[j], j.ops[i].kind = "update",
                    QueueOnly(j.ops[i].path), ~MidWrite(j.ops[i].path), NEW k \in DOMAIN j.ops[i].subs
             PROVE  j.ops[i].subs[k][2] \in files[j.ops[i].path] \/ Consumed(j.ops[i].subs[k][2], j.ops[i].path)
  BY DEF NoLostUpdate
<1>1. i \in DOMAIN j.ops
  BY DEF ToolsInv, Placed, DoneFormed
<1>2. PICK op, p, f : op \in FileOps /\ op = j.ops[i] /\ p = op.path /\ f = op.subs[k][2]
  BY <1>1, JobsFormed
<1>3. p \in Paths
  BY <1>2 DEF FileOps
<1>4. Held(f, p)
  BY <1>2, <1>3 DEF ToolsInv, Kept, KeptFor
<1> QED
  BY <1>2, <1>4 DEF Held, MidWrite

\* edit.go, patch.go and fs.go over queue.go, for all calls, callers, paths and
\* contents: the tools call Run as it prescribes, no change that was reported
\* by an edit or a patch is overwritten by another that read the file earlier,
\* and what either writes was computed from what the file then still holds.
THEOREM EditsSerializedAlways == FSpec => EditsSerialized
<1>1. FInit => Init
  BY DEF FInit
<1>2. ToolsInv /\ [FNext]_fvars => [Next]_vars
  BY ToolsNext
<1>3. ToolsInv => WriteBasedOnCurrent
  BY DEF ToolsInv
<1> QED
  BY <1>1, <1>2, <1>3, ToolsInductive, ToolsKeepUpdates, PTL DEF FSpec, Spec, EditsSerialized, UsesQueue

\* What is proved of the queue holds under the tools: for one path one caller
\* at a time, counts that are exact, and the abstract serializer.
THEOREM ToolsUseTheQueue == FSpec => [](TypeOK /\ QueueSafe) /\ ImplementsSerializer
<1>1. FSpec => Spec
  BY EditsSerializedAlways, PTL DEF EditsSerialized, UsesQueue
<1> QED
  BY <1>1, TypeCorrect, QueueSafeAlways, Implements, PTL

\* queue.go under edit.go and patch.go, for all calls, callers, paths and lock
\* objects: a caller that cannot go on waits for a lock, and its holder can, so
\* there is no circle of callers who wait for each other.
THEOREM NoCircularWaitAlways == FSpec => []NoCircularWait
<1>1. FSpec => []HeldByRunning
  BY EditsSerializedAlways, HeldByRunningAlways, PTL DEF EditsSerialized, UsesQueue
<1>2. ToolsInv /\ HeldByRunning => NoCircularWait
  <2> SUFFICES ASSUME ToolsInv, HeldByRunning, NEW c \in Callers, phase[c] # "idle", ~CanGoOn(c)
               PROVE  phase[c] = "lock" /\ holder[lock[c]] \in Callers \ {c} /\ CanGoOn(holder[lock[c]])
    BY DEF NoCircularWait
  <2>1. IInv /\ Placed /\ phase[c] \in Phases /\ Place(c)
    BY DEF ToolsInv, Placed, ToolsTyped
  <2>2. phase[c] # "enqueue"
    <3> SUFFICES ASSUME phase[c] = "enqueue" PROVE FALSE
      OBVIOUS
    <3>1. pc[c] = "idle"
      BY <2>1 DEF Place
    <3>2. \E l \in Locks : Fresh(l)
      BY <2>1, <3>1, ObjectFound
    <3> QED
      BY <3>1, <3>2 DEF CanGoOn
  <2>3. phase[c] = "lock" /\ pc[c] = "queued"
    BY <2>1, <2>2 DEF Place, Phases, Inside, CanGoOn
  <2> DEFINE l == lock[c]
             d == holder[l]
  <2>4. l \in Locks /\ d # NoCaller
    BY <2>1, <2>3 DEF CanGoOn, IInv, TypeOK, SameLock
  <2>5. d \in Callers /\ pc[d] = "running" /\ Place(d) /\ phase[d] \in Phases
    BY <2>1, <2>4 DEF HeldByRunning, IInv, TypeOK, Placed, ToolsTyped
  <2>6. phase[d] \in Inside
    BY <2>5 DEF Place, Phases, Inside
  <2> QED
    BY <2>3, <2>5, <2>6 DEF Inside, CanGoOn
<1> QED
  BY <1>1, <1>2, ToolsInductive, PTL

=============================================================================
