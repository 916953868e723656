-------------------------------- MODULE Wire --------------------------------
(***************************************************************************)
(* Messages cut, framed and put together again: WebSocket frames           *)
(* (internal/gateway/discord_ws.go, used by wsserver.go too), the pieces a *)
(* long text is sent in (telegram.go, discord.go), and requests on a pipe  *)
(* (pkg/mcp/serve.go, client.go).  WiCases are the inputs tried, WiRight   *)
(* what is promised of them.                                               *)
(***************************************************************************)
EXTENDS Integers, Sequences, FiniteSets, SequencesExt

CONSTANTS
  WiFrames,    \* bound on the frames of a stream and the lines of a pipe
  WiText       \* bound on the length of the texts cut

ASSUME WiAssumption == WiFrames \in Nat /\ WiText \in Nat

WiTexts(S, n) == UNION {[1..k -> S] : k \in 0..n}

-----------------------------------------------------------------------------
\* The length of a payload as wsWriteRaw writes it, after the mask bit, and as
\* wsReadFrame reads it: seven bits, or a mark and two or eight bytes.
WiWriteLength(n) ==
  IF n < 126 THEN <<n>>
  ELSE IF n <= 65535 THEN <<126, n \div 256, n % 256>>
  ELSE <<127, 0, 0, 0, 0, n \div 16777216, (n \div 65536) % 256, (n \div 256) % 256, n % 256>>

WiReadLength(bytes) ==
  LET ext == CASE bytes[1] = 126 -> SubSeq(bytes, 2, 3) [] bytes[1] = 127 -> SubSeq(bytes, 2, 9) [] OTHER -> <<bytes[1]>> IN
  FoldLeft(LAMBDA n, b : n * 256 + b, 0, ext)

WiLengthRight(x) ==
  LET wire == WiWriteLength(x.n) IN
  /\ WiReadLength(wire) = x.n
  /\ \A i \in DOMAIN wire : wire[i] \in 0..255 /\ wire[1] <= 127
  /\ \A m \in {x.n + 1, x.n + 256} : WiWriteLength(m) # wire

\* wsReadFrame on the frames that come: fragments are gathered in the call, a control
\* frame ends it at once.  [op, text, next]; "short" when the stream ends first.
WiControl == {"close", "ping", "pong"}
WiReadFrame(frames, from) ==
  LET Error(i) == [op |-> "error", text |-> <<>>, next |-> i]
      Read[i \in Nat, started \in {"no", "text", "binary"}, text \in Seq(Nat)] ==
        LET f == frames[i]
            op == IF f.op = "cont" THEN started ELSE f.op IN
        CASE i > Len(frames) -> [op |-> "short", text |-> <<>>, next |-> i]
          [] f.rsv -> Error(i + 1)
          [] f.op \in WiControl -> IF f.fin THEN [op |-> f.op, text |-> f.text, next |-> i + 1] ELSE Error(i + 1)
          [] f.op = "cont" /\ started = "no" -> Error(i + 1)
          [] f.op # "cont" /\ started # "no" -> Error(i + 1)
          [] f.op \notin {"cont", "text", "binary"} -> Error(i + 1)
          [] f.fin -> [op |-> op, text |-> text \o f.text, next |-> i + 1]
          [] OTHER -> Read[i + 1, op, text \o f.text] IN
  Read[from, "no", <<>>]

\* What a reader that reads until an error gets.
WiReadAll(frames) ==
  LET All[i \in Nat] ==
        LET m == WiReadFrame(frames, i) IN
        IF m.op \in {"error", "short"} THEN <<[op |-> m.op, text |-> <<>>]>> ELSE <<[op |-> m.op, text |-> m.text]>> \o All[m.next] IN
  All[1]

\* A message is its fragments and nothing else, in order, whatever comes around it; a
\* stream that breaks the rules is an error at the frame that does.  (A control frame
\* between two fragments loses those before it, and the next is the error.)
WiFramesRight(x) ==
  LET got == WiReadAll(x.frames)
      n == Len(x.frames)
      Ends(i) == x.frames[i].fin
      Begin(i) == LET earlier == {k \in 1..(i-1) : Ends(k)} IN 1 + (IF earlier = {} THEN 0 ELSE CHOOSE k \in earlier : \A j \in earlier : j <= k)
      Whole(i) == FlattenSeq([k \in 1..(i - Begin(i) + 1) |-> x.frames[Begin(i) + k - 1].text])
      ends == SelectSeq([i \in 1..n |-> i], LAMBDA i : Ends(i))
      legal == \A i \in 1..n : ~x.frames[i].rsv /\ x.frames[i].op # "reserved" /\ (x.frames[i].op \in WiControl => x.frames[i].fin)
                 /\ (x.frames[i].op = "cont") = (Begin(i) < i) IN
  /\ Last(got).op \in {"error", "short"}
  /\ legal => Front(got) = [k \in DOMAIN ends |-> [op |-> x.frames[Begin(ends[k])].op, text |-> Whole(ends[k])]]
  /\ legal => Last(got).op = "short"
  /\ ~legal => Len(Front(got)) <= Len(ends)

\* wsReadHandshake over the lines of the answer: the status, headers, a blank line.
WiHandshake(lines) ==
  LET end == {i \in 2..Len(lines) : lines[i] = "blank"}
      head == {i \in 2..Len(lines) : \A j \in 2..i : lines[j] # "blank"} IN
  IF lines = <<>> \/ lines[1] # "101" THEN "failed"
  ELSE IF end = {} THEN "failed"
  ELSE IF \E i \in head : lines[i] = "accept" THEN "accepted" ELSE "failed"

WiHandshakeRight(x) ==
  WiHandshake(x.lines) = "accepted" => \E i, j \in DOMAIN x.lines : 1 < i /\ i < j /\ x.lines[i] = "accept" /\ x.lines[j] = "blank"

-----------------------------------------------------------------------------
\* chunkMessage and chunkDiscord: pieces of up to limit bytes, cut at the last newline
\* there is, and the newline at the cut dropped.
WiChunk(text, limit) ==
  LET n == Len(text)
      Cut(from) == LET at == {i \in (from+1)..(from+limit-1) : text[i] = "nl"} IN
                     IF at = {} THEN from + limit ELSE CHOOSE i \in at : \A j \in at : i >= j
      Loop[from \in Nat] ==
        IF n - from < limit THEN IF from > n THEN <<>> ELSE <<SubSeq(text, from, n)>>
        ELSE LET cut == Cut(from) IN
             <<SubSeq(text, from, cut - 1)>> \o Loop[IF text[cut] = "nl" THEN cut + 1 ELSE cut] IN
  IF n <= limit THEN <<text>> ELSE Loop[1]

\* Nothing but newlines is lost and nothing moved, no piece is too long, and none is
\* empty unless the text is: the receiver would refuse it.
WiChunkRight(x) ==
  LET got == WiChunk(x.text, x.limit)
      Ink(s) == SelectSeq(s, LAMBDA c : c # "nl") IN
  /\ Ink(FlattenSeq(got)) = Ink(x.text)
  /\ \A i \in DOMAIN got : Len(got[i]) <= x.limit /\ (got[i] = <<>> => x.text = <<>>)
  /\ Len(FlattenSeq(got)) + Len(got) >= Len(x.text)

\* Discord.Send: the pieces one by one, stopped by a failure or the end of its context.
WiSent(pieces, fails) ==
  LET bad == {i \in DOMAIN pieces : i \in fails}
      n == IF bad = {} THEN Len(pieces) ELSE (CHOOSE i \in bad : \A j \in bad : i <= j) - 1 IN
  SubSeq(pieces, 1, n)

WiSentRight(x) == LET got == WiSent(x.pieces, x.fails) IN
  /\ IsPrefix(got, x.pieces)
  /\ x.fails \intersect DOMAIN x.pieces = {} => got = x.pieces

-----------------------------------------------------------------------------
\* ServeStdio over the lines that come in: requests, noise, blank lines, the header of a
\* framed body, and a body that no newline separates from the next header ("glued").
\* A framed body is read line by line until it is JSON; headers end with a blank line.
WiServe(lines) ==
  LET Step(s, l) ==
        CASE s.mode = "headers" -> [s EXCEPT !.mode = IF l.is = "blank" THEN "body" ELSE "headers"]
          [] s.mode = "body" /\ l.is = "request" /\ ~s.spoilt -> [mode |-> "plain", spoilt |-> FALSE, handled |-> Append(s.handled, l)]
          [] s.mode = "body" -> [s EXCEPT !.spoilt = @ \/ l.is # "blank"]
          [] l.is = "request" -> [s EXCEPT !.handled = Append(@, l)]
          [] l.is = "header" -> [s EXCEPT !.mode = "headers", !.spoilt = FALSE]
          [] OTHER -> s IN
  FoldLeft(Step, [mode |-> "plain", spoilt |-> FALSE, handled |-> <<>>], lines).handled

\* handle: the answers to a request, of which an unknown method without an id has none
\* and a known one has its own even then.
WiHandle(r, tools) ==
  CASE r.method \in {"initialize", "list"} -> <<[id |-> r.id, is |-> "result"]>>
    [] r.method = "initialized" -> <<>>
    [] r.method = "call" -> <<[id |-> r.id, is |-> IF r.tool \in tools THEN IF r.fails THEN "failed" ELSE "result" ELSE "error"]>>
    [] OTHER -> IF r.id = "nil" THEN <<>> ELSE <<[id |-> r.id, is |-> "error"]>>

\* Every request on a line of its own, framed or not, is answered once and in order,
\* and nothing else is; after a glued body nothing is answered any more.
WiServeRight(x) ==
  LET handled == WiServe(x.lines)
      answers == FlattenSeq([i \in DOMAIN handled |-> WiHandle(handled[i], {"read"})])
      n == Len(x.lines)
      Plain(i) == \A j \in 1..i : x.lines[j].is \in {"request", "noise", "blank"}
      Framed(i) == i >= 3 /\ x.lines[i-1].is = "blank" /\ x.lines[i-2].is = "header"
      clean == \A i \in 1..n : (x.lines[i].is = "header") => i + 2 <= n /\ Framed(i + 2) /\ x.lines[i+2].is = "request"
      all == SelectSeq(x.lines, LAMBDA l : l.is = "request") IN
  /\ clean /\ (\A i \in 1..n : x.lines[i].is # "glued") => handled = all
  /\ \A i \in 1..n : Plain(i) /\ x.lines[i].is = "request" => x.lines[i] \in ToSet(handled)
  /\ \A a \in ToSet(answers) : a.id # "nil" => \E l \in ToSet(all) : l.id = a.id
  /\ clean /\ (\A l \in ToSet(all) : l.id # "nil" /\ l.method # "initialized") /\ (\A i \in 1..n : x.lines[i].is # "glued")
       => [i \in DOMAIN answers |-> answers[i].id] = [i \in DOMAIN all |-> all[i].id]

\* matchID: a number is cut to an integer (got is twice its value), a text is read as one.
WiMatchID(kind, twice, want) ==
  CASE kind = "number" -> twice \div 2 = want
    [] kind = "string" -> twice % 2 = 0 /\ twice \div 2 = want
    [] OTHER -> FALSE

\* One answer settles one request at most.
WiMatchRight(x) ==
  /\ Cardinality({w \in 1..5 : WiMatchID(x.kind, x.twice, w)}) <= 1
  /\ x.twice % 2 = 0 /\ x.kind # "nil" => \A w \in 1..5 : WiMatchID(x.kind, x.twice, w) = (w = x.twice \div 2)

-----------------------------------------------------------------------------
WiFrame == [fin : BOOLEAN, op : {"text", "cont", "ping"}, rsv : {FALSE}, text : {<<1>>}]
           \union {[fin |-> TRUE, op |-> "binary", rsv |-> FALSE, text |-> <<2>>], [fin |-> TRUE, op |-> "text", rsv |-> TRUE, text |-> <<>>],
                   [fin |-> TRUE, op |-> "reserved", rsv |-> FALSE, text |-> <<>>]}
WiRequest(m, i, t, f) == [is |-> "request", method |-> m, id |-> i, tool |-> t, fails |-> f]
WiLines == {WiRequest("initialize", "1", "", FALSE), WiRequest("call", "2", "read", TRUE), WiRequest("call", "3", "gone", FALSE),
            WiRequest("initialized", "nil", "", FALSE), WiRequest("other", "nil", "", FALSE)}
           \union [is : {"noise", "blank", "header", "glued"}]

WiCases ==
  [fn : {"length"}, n : {0, 1, 125, 126, 127, 255, 256, 65535, 65536, 1048576, 16777216}]
  \union [fn : {"frames"}, frames : WiTexts(WiFrame, WiFrames)]
  \union [fn : {"handshake"}, lines : WiTexts({"101", "403", "accept", "header", "blank"}, 4)]
  \union [fn : {"chunk"}, text : WiTexts({"a", "b", "nl"}, WiText), limit : 1..3]
  \union [fn : {"sent"}, pieces : {<<"a">>, <<"a", "b", "c">>}, fails : SUBSET (1..3)]
  \union [fn : {"serve"}, lines : WiTexts(WiLines, WiFrames)]
  \union [fn : {"match"}, kind : {"nil", "number", "string"}, twice : 2..10]

WiRight(x) ==
  CASE x.fn = "length" -> WiLengthRight(x) [] x.fn = "frames" -> WiFramesRight(x) [] x.fn = "handshake" -> WiHandshakeRight(x)
    [] x.fn = "chunk" -> WiChunkRight(x) [] x.fn = "sent" -> WiSentRight(x) [] x.fn = "serve" -> WiServeRight(x)
    [] x.fn = "match" -> WiMatchRight(x)
=============================================================================
