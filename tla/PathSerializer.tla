--------------------------- MODULE PathSerializer ---------------------------
(***************************************************************************)
(* What the mutation queue promises (internal/tools/queue.go:11-12, 28-29): *)
(* operations on one path run one at a time, operations on different paths  *)
(* are independent.  No order is promised among the waiting.                *)
(***************************************************************************)
CONSTANTS Callers, Paths

VARIABLES waiting,   \* path |-> callers waiting to mutate it
          owner      \* path |-> the callers mutating it (at most one)

vars == <<waiting, owner>>

Init == /\ waiting = [p \in Paths |-> {}]
        /\ owner   = [p \in Paths |-> {}]

Busy(c) == \E p \in Paths : c \in waiting[p] \cup owner[p]

Join(c, p) ==
  /\ ~Busy(c)
  /\ waiting' = [waiting EXCEPT ![p] = @ \cup {c}]
  /\ UNCHANGED owner

Enter(c, p) ==
  /\ c \in waiting[p]
  /\ owner[p] = {}
  /\ waiting' = [waiting EXCEPT ![p] = @ \ {c}]
  /\ owner'   = [owner EXCEPT ![p] = {c}]

Leave(c, p) ==
  /\ c \in owner[p]
  /\ owner' = [owner EXCEPT ![p] = {}]
  /\ UNCHANGED waiting

Next == \E c \in Callers, p \in Paths : Join(c, p) \/ Enter(c, p) \/ Leave(c, p)

Spec == Init /\ [][Next]_vars
=============================================================================
