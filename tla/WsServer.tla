------------------------------ MODULE WsServer ------------------------------
(***************************************************************************)
(* One connection of the JSON-RPC websocket (internal/gateway/wsserver.go):*)
(* a read loop that answers each request before it reads the next, a       *)
(* goroutine that pings, and a read deadline of three ping intervals that  *)
(* starts anew with every read.  Time passes in ping intervals; a request  *)
(* is its number.  The framing itself is in Wire.                          *)
(***************************************************************************)
EXTENDS Naturals, Sequences, SequencesExt

CONSTANTS
  WsRequests,   \* bound on the requests of the peer
  WsInFlight,   \* bound on the frames sent and not read
  WsFactor      \* wsReadTimeoutFactor (3 in the code)

\* With a factor of 1 a deadline would fall together with the ping that averts it.
ASSUME WsAssumption == WsRequests \in Nat /\ WsInFlight \in Nat \ {0} /\ WsFactor \in Nat \ {0, 1}

VARIABLES
  wsPc,      \* "upgrade", "read", "work", "write", "closed"
  wsIn,      \* frames of the peer not yet read
  wsAsked,   \* requests the peer has sent
  wsOut,     \* the requests answered, in order
  wsNow,     \* the frame being dealt with
  wsQuiet,   \* intervals since the read deadline was set
  wsPeer,    \* "there" (answers every ping), "silent" or "gone" (silent, and writes to it fail)
  wsPings,   \* the ping goroutine still runs
  wsLate     \* ghost: the deadline dropped a peer that was there

wsVars == <<wsPc, wsIn, wsAsked, wsOut, wsNow, wsQuiet, wsPeer, wsPings, wsLate>>

WsNothing == [op |-> "none", n |-> 0]

WsInit ==
  /\ wsPc = "upgrade" /\ wsIn = <<>> /\ wsAsked = 0 /\ wsOut = <<>> /\ wsNow = WsNothing
  /\ wsQuiet = 0 /\ wsPeer = "there" /\ wsPings = FALSE /\ wsLate = FALSE

\* HandleConn: a token, the upgrade headers, version 13 and a key, or an HTTP error.
WsUpgrade ==
  /\ wsPc = "upgrade"
  /\ \/ wsPc' = "read" /\ wsPings' = TRUE
     \/ wsPc' = "closed" /\ UNCHANGED wsPings
  /\ UNCHANGED <<wsIn, wsAsked, wsOut, wsNow, wsQuiet, wsPeer, wsLate>>

\* The peer: requests, pings, pongs nobody asked for, a close, a frame that is refused.
WsPeerSends ==
  /\ wsPc \in {"read", "work", "write"} /\ wsPeer = "there" /\ Len(wsIn) < WsInFlight
  /\ \/ /\ wsAsked < WsRequests /\ wsAsked' = wsAsked + 1
        /\ wsIn' = Append(wsIn, [op |-> "text", n |-> wsAsked'])
     \/ /\ \E op \in {"ping", "close", "binary"} : wsIn' = Append(wsIn, [op |-> op, n |-> 0])
        /\ UNCHANGED wsAsked
  /\ UNCHANGED <<wsPc, wsOut, wsNow, wsQuiet, wsPeer, wsPings, wsLate>>

WsPeerLost ==
  /\ wsPeer = "there" /\ wsPc # "upgrade"
  /\ wsPeer' \in {"silent", "gone"}
  /\ UNCHANGED <<wsPc, wsIn, wsAsked, wsOut, wsNow, wsQuiet, wsPings, wsLate>>

\* An interval passes: a ping is written, and a peer that is there answers it at
\* once.  A read that has waited for WsFactor intervals fails.  A ping that cannot
\* be written ends the goroutine, not the connection.
WsTick ==
  /\ wsPc \in {"read", "work"}
  /\ wsPings' = (wsPings /\ wsPeer # "gone")
  /\ IF wsPeer = "there" /\ wsPings /\ Len(wsIn) < WsInFlight
       THEN wsIn' = Append(wsIn, [op |-> "pong", n |-> 0]) ELSE UNCHANGED wsIn
  /\ IF wsPc = "read" /\ wsIn = <<>>
       THEN IF wsQuiet + 1 >= WsFactor
              THEN wsPc' = "closed" /\ wsLate' = (wsLate \/ wsPeer = "there") /\ UNCHANGED wsQuiet
              ELSE wsQuiet' = wsQuiet + 1 /\ UNCHANGED <<wsPc, wsLate>>
       ELSE UNCHANGED <<wsPc, wsQuiet, wsLate>>
  /\ UNCHANGED <<wsAsked, wsOut, wsNow, wsPeer>>

\* The loop sets the deadline and reads one message.  A close is echoed, a binary or
\* unknown frame is answered with a close; both end the connection.
WsRead ==
  /\ wsPc = "read" /\ wsIn # <<>>
  /\ wsNow' = Head(wsIn)
  /\ wsIn' = Tail(wsIn)
  /\ wsQuiet' = 0
  /\ wsPc' = CASE wsNow'.op = "text" -> "work"
               [] wsNow'.op \in {"close", "binary"} -> "closed"
               [] OTHER -> "read"
  /\ UNCHANGED <<wsAsked, wsOut, wsPeer, wsPings, wsLate>>

\* handleMessage and dispatch: a chat runs the engine, up to 120 seconds; everything
\* else, a request that cannot be parsed included, is answered from memory.
WsDispatch ==
  /\ wsPc = "work"
  /\ wsPc' = "write"
  /\ UNCHANGED <<wsIn, wsAsked, wsOut, wsNow, wsQuiet, wsPeer, wsPings, wsLate>>

WsWrite ==
  /\ wsPc = "write"
  /\ IF wsPeer = "gone" THEN wsPc' = "closed" /\ UNCHANGED wsOut
                        ELSE wsPc' = "read" /\ wsOut' = Append(wsOut, wsNow.n)
  /\ wsNow' = WsNothing /\ wsQuiet' = 0
  /\ UNCHANGED <<wsIn, wsAsked, wsPeer, wsPings, wsLate>>

WsStep == WsUpgrade \/ WsTick \/ WsRead \/ WsDispatch \/ WsWrite
WsNext == WsStep \/ WsPeerSends \/ WsPeerLost

-----------------------------------------------------------------------------
WsTypeOK ==
  /\ wsPc \in {"upgrade", "read", "work", "write", "closed"}
  /\ wsIn \in Seq([op : {"text", "ping", "pong", "close", "binary"}, n : 0..WsRequests]) /\ Len(wsIn) <= WsInFlight
  /\ wsAsked \in 0..WsRequests /\ wsOut \in Seq(1..WsRequests)
  /\ wsNow \in [op : {"none", "text", "ping", "pong", "close", "binary"}, n : 0..WsRequests]
  /\ wsQuiet \in 0..WsFactor /\ wsPeer \in {"there", "silent", "gone"}
  /\ wsPings \in BOOLEAN /\ wsLate \in BOOLEAN

\* Requests are answered in the order they were sent, each once, and a peer that
\* answers its pings is not dropped for silence, however long its chats take: while
\* one runs nothing is read, and the deadline starts anew behind it.
WsServesLivePeer ==
  /\ Len(wsOut) <= wsAsked /\ \A i \in DOMAIN wsOut : wsOut[i] = i
  /\ ~wsLate

\* The server is held by a peer that has fallen silent or gone.
WsHeld == wsPeer # "there" /\ wsPc # "closed"
=============================================================================
