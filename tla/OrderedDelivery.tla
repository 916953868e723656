--------------------------- MODULE OrderedDelivery ---------------------------
(***************************************************************************)
(* What a poller of numbered messages promises (internal/gateway/          *)
(* telegram.go:604-617: each message in turn, the offset behind it): they  *)
(* are handled in the order they were sent, none is overtaken, and the     *)
(* sender forgets a message only when it was handled.  Until then it may   *)
(* be handed out again: at least once, not exactly once.                   *)
(***************************************************************************)
EXTENDS Naturals

VARIABLES sent,      \* how many messages were sent
          handled,   \* those that were handled to their end, by number
          kept       \* the sender keeps the messages from this number on

vars == <<sent, handled, kept>>

Init == sent = 0 /\ handled = {} /\ kept = 1

HandledBelow(n) == \A m \in 1..(n - 1) : m \in handled

Send == sent' = sent + 1 /\ UNCHANGED <<handled, kept>>

\* A message that is handled a second time changes nothing here.
Handle(m) ==
  /\ m >= kept /\ HandledBelow(m)
  /\ handled' = handled \cup {m}
  /\ UNCHANGED <<sent, kept>>

Forget(n) ==
  /\ n > kept /\ HandledBelow(n)
  /\ kept' = n
  /\ UNCHANGED <<sent, handled>>

Next == Send \/ (\E m \in 1..sent : Handle(m)) \/ (\E n \in 1..(sent + 1) : Forget(n))

Spec == Init /\ [][Next]_vars
=============================================================================
