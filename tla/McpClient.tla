------------------------------ MODULE McpClient ------------------------------
(***************************************************************************)
(* The MCP clients (pkg/mcp/client.go over a child's stdio, sse.go over an *)
(* HTTP event stream) against a server that may answer late, out of order, *)
(* twice, with noise, not at all, or go away.  Over stdio one call holds   *)
(* the lock from its request to its answer and reads the child's output    *)
(* itself; over SSE every call waits on a channel of its own that the pump *)
(* goroutine fills.  A request is its id; the answer to it carries the id. *)
(***************************************************************************)
EXTENDS Naturals, Sequences, FiniteSets, SequencesExt

CONSTANTS
  McCalls,     \* the goroutines that call a tool
  McTransports,\* the transports tried: a subset of {"stdio", "sse"}
  McNoise      \* bound on stray lines and second answers

ASSUME McAssumption ==
  /\ IsFiniteSet(McCalls) /\ "free" \notin McCalls
  /\ McTransports \subseteq {"stdio", "sse"} /\ McNoise \in Nat

McIds == 1..Cardinality(McCalls)

VARIABLES
  mcKind,      \* the transport
  mcPc,        \* where each call stands
  mcId,        \* [McCalls -> the id of its request, 0 before]
  mcGot,       \* [McCalls -> what it returned: 0 nothing yet, an id, or McError]
  mcExpired,   \* the calls whose context has ended
  mcNext,      \* nextID
  mcLock,      \* who holds the stdio client's lock: a call, "close" or "free"
  mcOpen,      \* the requests the server has and may still answer
  mcWire,      \* answers on their way, in the order they were written
  mcBox,       \* [McCalls -> its channel, capacity one: 0 empty, an id or McError]
  mcServer,    \* "up", "silent" (never answers again) or "down"
  mcPump,      \* the SSE pump still runs
  mcClose,     \* Close: "no", "asked" or "done"
  mcStray      \* stray answers so far

mcVars == <<mcKind, mcPc, mcId, mcGot, mcExpired, mcNext, mcLock, mcOpen, mcWire, mcBox, mcServer,
            mcPump, mcClose, mcStray>>

McError == Cardinality(McCalls) + 1

McInit ==
  /\ mcKind \in McTransports
  /\ mcPc = [c \in McCalls |-> "new"] /\ mcId = [c \in McCalls |-> 0] /\ mcGot = [c \in McCalls |-> 0]
  /\ mcExpired = {} /\ mcNext = 1 /\ mcLock = "free"
  /\ mcOpen = {} /\ mcWire = <<>> /\ mcBox = [c \in McCalls |-> 0]
  /\ mcServer = "up" /\ mcPump = (mcKind = "sse") /\ mcClose = "no" /\ mcStray = 0

-----------------------------------------------------------------------------
\* The server and the clock.
McAnswer ==
  /\ mcServer = "up"
  /\ \E i \in mcOpen :
       /\ mcOpen' = mcOpen \ {i}
       /\ mcWire' = Append(mcWire, i)
  /\ UNCHANGED <<mcKind, mcPc, mcId, mcGot, mcExpired, mcNext, mcLock, mcBox, mcServer, mcPump, mcClose, mcStray>>

\* A log line or a notification (0), or an old answer once more.
McStrayLine ==
  /\ mcServer = "up" /\ mcStray < McNoise
  /\ \E i \in {0} \union ((1..(mcNext - 1)) \ mcOpen) : mcWire' = Append(mcWire, i)
  /\ mcStray' = mcStray + 1
  /\ UNCHANGED <<mcKind, mcPc, mcId, mcGot, mcExpired, mcNext, mcLock, mcOpen, mcBox, mcServer, mcPump, mcClose>>

McServerFails ==
  /\ mcServer = "up"
  /\ mcServer' \in {"silent", "down"}
  /\ UNCHANGED <<mcKind, mcPc, mcId, mcGot, mcExpired, mcNext, mcLock, mcOpen, mcWire, mcBox, mcPump, mcClose, mcStray>>

McExpire(c) ==
  /\ mcPc[c] # "done" /\ c \notin mcExpired
  /\ mcExpired' = mcExpired \union {c}
  /\ UNCHANGED <<mcKind, mcPc, mcId, mcGot, mcNext, mcLock, mcOpen, mcWire, mcBox, mcServer, mcPump, mcClose, mcStray>>

-----------------------------------------------------------------------------
McReturn(c, got) == mcPc' = [mcPc EXCEPT ![c] = "done"] /\ mcGot' = [mcGot EXCEPT ![c] = got]

\* The request is numbered and written; writing to a server that is gone fails.
McRequest(c) ==
  /\ mcId' = [mcId EXCEPT ![c] = mcNext]
  /\ mcNext' = mcNext + 1
  /\ IF mcServer = "down"
       THEN McReturn(c, McError) /\ UNCHANGED mcOpen
       ELSE /\ mcPc' = [mcPc EXCEPT ![c] = "sent"] /\ UNCHANGED mcGot
            /\ mcOpen' = mcOpen \union {mcNext}

\* call takes the lock; a context that ended while it waited for it ends the call.
McSendStdio(c) ==
  /\ mcKind = "stdio" /\ mcPc[c] = "new" /\ mcLock = "free"
  /\ IF c \in mcExpired \/ mcClose = "done"
       THEN McReturn(c, McError) /\ UNCHANGED <<mcId, mcNext, mcOpen, mcLock>>
       ELSE McRequest(c) /\ mcLock' = IF mcServer = "down" THEN "free" ELSE c
  /\ UNCHANGED <<mcKind, mcExpired, mcWire, mcBox, mcServer, mcPump, mcClose, mcStray>>

\* nextLine looks at the context before it reads, not while it reads: a call that
\* waits inside Scan notices nothing until a line comes or the child ends.
McLook(c) ==
  /\ mcKind = "stdio" /\ mcPc[c] = "sent"
  /\ IF c \in mcExpired THEN McReturn(c, McError) /\ mcLock' = "free"
                         ELSE mcPc' = [mcPc EXCEPT ![c] = "scan"] /\ UNCHANGED <<mcGot, mcLock>>
  /\ UNCHANGED <<mcKind, mcId, mcExpired, mcNext, mcOpen, mcWire, mcBox, mcServer, mcPump, mcClose, mcStray>>

\* mutant: the first answer ends the call, whichever request it is to
McLineAny(c) ==
  /\ mcPc[c] = "scan" /\ mcWire # <<>>
  /\ mcWire' = Tail(mcWire)
  /\ IF Head(mcWire) # 0
       THEN McReturn(c, Head(mcWire)) /\ mcLock' = "free"
       ELSE mcPc' = [mcPc EXCEPT ![c] = "sent"] /\ UNCHANGED <<mcGot, mcLock>>
  /\ UNCHANGED <<mcKind, mcId, mcExpired, mcNext, mcOpen, mcBox, mcServer, mcPump, mcClose, mcStray>>

\* One line: the answer to the request ends the call, anything else is skipped.
McLine(c) ==
  /\ mcPc[c] = "scan" /\ mcWire # <<>>
  /\ mcWire' = Tail(mcWire)
  /\ IF Head(mcWire) = mcId[c]
       THEN McReturn(c, Head(mcWire)) /\ mcLock' = "free"
       ELSE mcPc' = [mcPc EXCEPT ![c] = "sent"] /\ UNCHANGED <<mcGot, mcLock>>
  /\ UNCHANGED <<mcKind, mcId, mcExpired, mcNext, mcOpen, mcBox, mcServer, mcPump, mcClose, mcStray>>

McEOF(c) ==
  /\ mcPc[c] = "scan" /\ mcWire = <<>> /\ mcServer = "down"
  /\ McReturn(c, McError)
  /\ mcLock' = "free"
  /\ UNCHANGED <<mcKind, mcId, mcExpired, mcNext, mcOpen, mcWire, mcBox, mcServer, mcPump, mcClose, mcStray>>

\* Close takes the same lock, then kills the child and waits for it.
McAskClose ==
  /\ mcClose = "no"
  /\ mcClose' = "asked"
  /\ UNCHANGED <<mcKind, mcPc, mcId, mcGot, mcExpired, mcNext, mcLock, mcOpen, mcWire, mcBox, mcServer, mcPump, mcStray>>

McCloseStdio ==
  /\ mcKind = "stdio" /\ mcClose = "asked" /\ mcLock = "free"
  /\ mcClose' = "done" /\ mcServer' = "down"
  /\ UNCHANGED <<mcKind, mcPc, mcId, mcGot, mcExpired, mcNext, mcLock, mcOpen, mcWire, mcBox, mcPump, mcStray>>

-----------------------------------------------------------------------------
\* SSE: the channel is registered before the request is posted.
McSendSse(c) ==
  /\ mcKind = "sse" /\ mcPc[c] = "new"
  /\ IF c \in mcExpired THEN McReturn(c, McError) /\ UNCHANGED <<mcId, mcNext, mcOpen>> ELSE McRequest(c)
  /\ UNCHANGED <<mcKind, mcExpired, mcLock, mcWire, mcBox, mcServer, mcPump, mcClose, mcStray>>

\* The server may answer in the body of the post.
McInline(c) ==
  /\ mcKind = "sse" /\ mcPc[c] = "sent" /\ mcServer = "up" /\ mcId[c] \in mcOpen
  /\ mcOpen' = mcOpen \ {mcId[c]}
  /\ McReturn(c, mcId[c])
  /\ UNCHANGED <<mcKind, mcId, mcExpired, mcNext, mcLock, mcWire, mcBox, mcServer, mcPump, mcClose, mcStray>>

\* The pump hands an answer to the call that is registered for its id, if it still
\* waits and its channel is empty; anything else is dropped.
McWaits(c, i) == mcPc[c] = "sent" /\ mcId[c] = i

McPump ==
  /\ mcPump /\ mcWire # <<>>
  /\ mcBox' = [c \in McCalls |-> IF McWaits(c, Head(mcWire)) /\ mcBox[c] = 0 THEN Head(mcWire) ELSE mcBox[c]]
  /\ mcWire' = Tail(mcWire)
  /\ UNCHANGED <<mcKind, mcPc, mcId, mcGot, mcExpired, mcNext, mcLock, mcOpen, mcServer, mcPump, mcClose, mcStray>>

\* The stream ends, because the server did or Close cancelled it: who waits is told.
McPumpEnds ==
  /\ mcPump /\ mcWire = <<>> /\ (mcServer = "down" \/ mcClose = "done")
  /\ mcPump' = FALSE
  /\ mcBox' = [c \in McCalls |-> IF mcPc[c] = "sent" /\ mcBox[c] = 0 THEN McError ELSE mcBox[c]]
  /\ UNCHANGED <<mcKind, mcPc, mcId, mcGot, mcExpired, mcNext, mcLock, mcOpen, mcWire, mcServer, mcClose, mcStray>>

McTake(c) ==
  /\ mcKind = "sse" /\ mcPc[c] = "sent" /\ mcBox[c] # 0
  /\ McReturn(c, mcBox[c])
  /\ UNCHANGED <<mcKind, mcId, mcExpired, mcNext, mcLock, mcOpen, mcWire, mcBox, mcServer, mcPump, mcClose, mcStray>>

McTimeout(c) ==
  /\ mcKind = "sse" /\ mcPc[c] = "sent" /\ c \in mcExpired
  /\ McReturn(c, McError)
  /\ UNCHANGED <<mcKind, mcId, mcExpired, mcNext, mcLock, mcOpen, mcWire, mcBox, mcServer, mcPump, mcClose, mcStray>>

McCloseSse ==
  /\ mcKind = "sse" /\ mcClose = "asked"
  /\ mcClose' = "done"
  /\ UNCHANGED <<mcKind, mcPc, mcId, mcGot, mcExpired, mcNext, mcLock, mcOpen, mcWire, mcBox, mcServer, mcPump, mcStray>>

McCallStep(c) ==
  \/ McSendStdio(c) \/ McLook(c) \/ McLine(c) \/ McEOF(c)
  \/ McSendSse(c) \/ McInline(c) \/ McTake(c) \/ McTimeout(c)

McNextStep ==
  \/ McAnswer \/ McStrayLine \/ McServerFails \/ McAskClose \/ McCloseStdio \/ McCloseSse \/ McPump \/ McPumpEnds
  \/ \E c \in McCalls : McExpire(c) \/ McCallStep(c)

-----------------------------------------------------------------------------
McTypeOK ==
  /\ mcKind \in McTransports
  /\ mcPc \in [McCalls -> {"new", "sent", "scan", "done"}]
  /\ mcId \in [McCalls -> 0..Cardinality(McCalls)]
  /\ mcGot \in [McCalls -> 0..McError] /\ mcBox \in [McCalls -> 0..McError]
  /\ mcExpired \subseteq McCalls /\ mcNext \in 1..McError
  /\ mcLock \in McCalls \union {"free"}
  /\ mcOpen \subseteq McIds /\ mcWire \in Seq(0..Cardinality(McCalls))
  /\ mcServer \in {"up", "silent", "down"} /\ mcPump \in BOOLEAN
  /\ mcClose \in {"no", "asked", "done"} /\ mcStray \in 0..McNoise

\* A call returns the answer to its own request or an error, whatever the server
\* writes and whenever earlier calls gave up; the lock is held exactly by a call
\* that waits for its answer.
McOwnAnswer ==
  /\ \A c \in McCalls : mcGot[c] \in {0, McError, mcId[c]}
  /\ \A c \in McCalls : (mcLock = c) = (mcKind = "stdio" /\ mcPc[c] \in {"sent", "scan"})

\* A call that was sent waits: over SSE until its deadline at the latest, which is
\* waited for beside its channel; over stdio for ever if the child falls silent.
McOwed(c) == mcPc[c] \in {"sent", "scan"} /\ ~(mcKind = "stdio" /\ mcServer = "silent")

\* Close waits for the calls before it, and so for the same silent child.
McClosing == mcClose = "asked" /\ ~(mcKind = "stdio" /\ mcServer = "silent")
=============================================================================
