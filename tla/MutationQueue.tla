--------------------------- MODULE MutationQueue ---------------------------
(***************************************************************************)
(* internal/tools/queue.go: per-path serialization of file mutations.      *)
(*                                                                         *)
(* A caller of Run looks the lock object of its path up in a map (creating *)
(* and counting a reference under the queue's own mutex), takes the lock,  *)
(* runs its function, unlocks and drops the reference; the last reference  *)
(* deletes the map entry.  The two critical sections on q.mu are atomic    *)
(* steps; everything between them interleaves with other callers.  A lock  *)
(* object outlives its map entry as long as some caller points to it.      *)
(***************************************************************************)
EXTENDS Integers, FiniteSets

CONSTANTS Callers,   \* goroutines that call Run, each any number of times
          Paths,     \* paths mutated
          Locks,     \* addresses of *pathLock objects
          NoLock,    \* the nil *pathLock
          NoCaller,  \* "l.mu is unlocked"
          NoPath     \* the path of a caller outside Run

ASSUME DistinctNulls == /\ NoLock \notin Locks /\ NoCaller \notin Callers
                        /\ NoPath \notin Paths
ASSUME FiniteCallers == IsFiniteSet(Callers)

\* Memory does not run out: whatever objects the other callers point to, the
\* allocator finds one more for a caller.
ASSUME LocksSuffice ==
  \A held \in [Callers -> Locks \cup {NoLock}] : \A c \in Callers :
    \E l \in Locks : \A d \in Callers \ {c} : held[d] # l

VARIABLES locks,     \* q.locks: path |-> lock object, NoLock when no entry
          refs,      \* lock object |-> refs field
          holder,    \* lock object |-> caller holding l.mu
          pc,        \* caller |-> where it is in Run
          path,      \* caller |-> argument path of the call it is in
          lock       \* caller |-> local variable l

vars == <<locks, refs, holder, pc, path, lock>>

PCs == {"idle", "queued", "running", "unlocked"}

TypeOK ==
  /\ locks  \in [Paths -> Locks \cup {NoLock}]
  /\ refs   \in [Locks -> Nat]
  /\ holder \in [Locks -> Callers \cup {NoCaller}]
  /\ pc     \in [Callers -> PCs]
  /\ path   \in [Callers -> Paths \cup {NoPath}]
  /\ lock   \in [Callers -> Locks \cup {NoLock}]
  /\ \A c \in Callers : pc[c] = "idle" <=> path[c] = NoPath

Init ==
  /\ locks  = [p \in Paths |-> NoLock]
  /\ refs   = [l \in Locks |-> 0]
  /\ holder = [l \in Locks |-> NoCaller]
  /\ pc     = [c \in Callers |-> "idle"]
  /\ path   = [c \in Callers |-> NoPath]
  /\ lock   = [c \in Callers |-> NoLock]

----------------------------------------------------------------------------
\* An object nobody points to: what the allocator may hand out next.
Fresh(l) == /\ \A p \in Paths : locks[p] # l
            /\ \A c \in Callers : lock[c] # l

\* acquire finds an entry: one more reference to the same object.
AcquireExisting(c, p) ==
  /\ locks[p] # NoLock
  /\ lock' = [lock EXCEPT ![c] = locks[p]]
  /\ refs' = [refs EXCEPT ![locks[p]] = @ + 1]
  /\ UNCHANGED <<locks, holder>>

\* Mutant: a new entry that does not count its creator.
AcquireNewUncounted(c, p) ==
  /\ locks[p] = NoLock
  /\ \E l \in Locks :
       /\ Fresh(l)
       /\ locks'  = [locks EXCEPT ![p] = l]
       /\ lock'   = [lock EXCEPT ![c] = l]
       /\ refs'   = [refs EXCEPT ![l] = 0]
       /\ holder' = [holder EXCEPT ![l] = NoCaller]

\* acquire finds no entry: a new unlocked object enters the map.
AcquireNew(c, p) ==
  /\ locks[p] = NoLock
  /\ \E l \in Locks :
       /\ Fresh(l)
       /\ locks'  = [locks EXCEPT ![p] = l]
       /\ lock'   = [lock EXCEPT ![c] = l]
       /\ refs'   = [refs EXCEPT ![l] = 1]
       /\ holder' = [holder EXCEPT ![l] = NoCaller]

\* acquire(path), under q.mu.
Acquire(c, p) ==
  /\ pc[c] = "idle"
  /\ AcquireExisting(c, p) \/ AcquireNew(c, p)
  /\ pc'   = [pc EXCEPT ![c] = "queued"]
  /\ path' = [path EXCEPT ![c] = p]

\* l.mu.Lock() returns: sync.Mutex hands the lock to any of its waiters.
Lock(c) ==
  /\ pc[c] = "queued"
  /\ holder[lock[c]] = NoCaller
  /\ holder' = [holder EXCEPT ![lock[c]] = c]
  /\ pc'     = [pc EXCEPT ![c] = "running"]
  /\ UNCHANGED <<locks, refs, path, lock>>

\* fn returns, fails or panics; the deferred l.mu.Unlock() runs first.
Unlock(c) ==
  /\ pc[c] = "running"
  /\ holder' = [holder EXCEPT ![lock[c]] = NoCaller]
  /\ pc'     = [pc EXCEPT ![c] = "unlocked"]
  /\ UNCHANGED <<locks, refs, path, lock>>

\* Mutants: release deletes the entry whoever else uses it; or keeps it.
AlwaysLast(n) == TRUE
NeverLast(n)  == n < 0

\* The entry goes with its last reference.
LastOut(n) == n <= 0

\* release(path): looks the path up again and drops one reference of
\* whatever object it finds, under q.mu.  Run then returns.
Release(c) ==
  /\ pc[c] = "unlocked"
  /\ LET l == locks[path[c]] IN
       IF l = NoLock
       THEN UNCHANGED <<locks, refs>>
       ELSE /\ refs'  = [refs EXCEPT ![l] = @ - 1]
            /\ locks' = IF LastOut(refs[l] - 1)
                       THEN [locks EXCEPT ![path[c]] = NoLock] ELSE locks
  /\ pc'   = [pc EXCEPT ![c] = "idle"]
  /\ lock' = [lock EXCEPT ![c] = NoLock]
  /\ path' = [path EXCEPT ![c] = NoPath]
  /\ UNCHANGED holder

Next == \E c \in Callers :
          \/ \E p \in Paths : Acquire(c, p)
          \/ Lock(c)
          \/ Unlock(c)
          \/ Release(c)

Spec == Init /\ [][Next]_vars

----------------------------------------------------------------------------
Active(p)  == {c \in Callers : pc[c] # "idle" /\ path[c] = p}
Queued(p)  == {c \in Callers : pc[c] = "queued" /\ path[c] = p}
Running(p) == {c \in Callers : pc[c] = "running" /\ path[c] = p}

\* No two callers run their functions on the same path at once, although the
\* lock object of a path is deleted and created again between calls.
Exclusive == \A p \in Paths : \A c, d \in Running(p) : c = d

\* Every caller between acquire and release points to the object the map
\* holds for its path: no caller waits on an object the map has forgotten.
SameLock == \A c \in Callers : pc[c] # "idle" => lock[c] = locks[path[c]] /\ lock[c] # NoLock

\* The reference count is the number of callers inside Run for that path, so
\* an entry is there exactly while somebody needs it and Len() returns to 0.
RefsExact ==
  \A p \in Paths :
     IF locks[p] = NoLock THEN Active(p) = {}
     ELSE refs[locks[p]] = Cardinality(Active(p)) /\ Active(p) # {}

\* What the callers of Run rely on: Exclusive and RefsExact.
QueueSafe == Exclusive /\ RefsExact

\* The state of the abstract serializer this queue implements.
Waiting == [p \in Paths |-> Queued(p)]
Owner   == [p \in Paths |-> Running(p)]
Serializer == INSTANCE PathSerializer WITH waiting <- Waiting, owner <- Owner

\* The queue implements one mutual-exclusion section per path: joining,
\* entering and leaving, with different paths independent of each other.
ImplementsSerializer == Serializer!Spec
=============================================================================
