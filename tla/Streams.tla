------------------------------ MODULE Streams ------------------------------
(***************************************************************************)
(* What the model clients make of an answer and of a conversation: the     *)
(* event stream and its plain form (internal/llm/client.go), Anthropic     *)
(* (providers.go), token counts and prices (usage.go, pricing.go), the     *)
(* opencode side program (opencode.go), and both clients of nimbus-min     *)
(* (openai.go, anthropic.go).  A text is a sequence of pieces.  SmCases    *)
(* are the inputs tried, SmRight what is promised of them.                 *)
(***************************************************************************)
EXTENDS Integers, Sequences, FiniteSets, SequencesExt

CONSTANT SmLines    \* bound on the lines of a stream and the turns of a conversation

ASSUME SmAssumption == SmLines \in Nat

SmTexts(S, n) == UNION {[1..k -> S] : k \in 0..n}
SmNone == ""
SmFailed(why) == [is |-> "error", why |-> why, text |-> <<>>, calls |-> <<>>]
SmAnswer(text, calls) == [is |-> "answer", why |-> SmNone, text |-> text, calls |-> calls]

-----------------------------------------------------------------------------
\* Client.Chat on the lines of an event stream: the text as it comes, then one chunk with
\* the calls put together by index; an error instead where the reading breaks off ("broken")
\* or the context ends ("late").  A stream that ends without [DONE] is complete.
\* (Mutant: the client takes each part's name, empty in all but the first.)
SmPartLatest(acc, p) == [id |-> p.id, name |-> p.name, args |-> acc.args \o p.args]

SmPart(acc, p) ==
  [id |-> IF p.id # SmNone THEN p.id ELSE acc.id, name |-> IF p.name # SmNone THEN p.name ELSE acc.name, args |-> acc.args \o p.args]

SmGather(accs, p) ==
  LET old == IF p.index \in DOMAIN accs THEN accs[p.index] ELSE [id |-> SmNone, name |-> SmNone, args |-> <<>>] IN
  [i \in DOMAIN accs \union {p.index} |-> IF i = p.index THEN SmPart(old, p) ELSE accs[i]]

SmChat(lines, end) ==
  LET Step(s, l) ==
        CASE s.done \/ l.is = "noise" -> s
          [] l.is = "done" -> [s EXCEPT !.done = TRUE]
          [] l.is = "text" -> [s EXCEPT !.chunks = Append(@, [is |-> "delta", text |-> l.text])]
          [] l.is = "part" -> [s EXCEPT !.accs = SmGather(@, l)]
          [] l.is = "usage" -> [s EXCEPT !.usage = @ + l.n]
      s == FoldLeft(Step, [done |-> FALSE, chunks |-> <<>>, accs |-> [i \in {} |-> 0], usage |-> 0], lines)
      order == SetToSortSeq(DOMAIN s.accs, LAMBDA i, j : i < j)
      Real(a) == a.id # SmNone \/ a.name # SmNone \/ a.args # <<>> IN
  IF ~s.done /\ end # "eof" THEN s.chunks \o <<[is |-> "err", why |-> end]>>
  ELSE s.chunks \o <<[is |-> "done", calls |-> SelectSeq([k \in DOMAIN order |-> s.accs[order[k]]], Real), usage |-> s.usage]>>

\* The same of a server that answered with plain JSON.
SmPlain(choices) ==
  [k \in DOMAIN SelectSeq(choices, LAMBDA c : c.text # <<>>) |-> [is |-> "delta", text |-> SelectSeq(choices, LAMBDA c : c.text # <<>>)[k].text]]
  \o <<[is |-> "done", calls |-> FlattenSeq([k \in DOMAIN choices |-> choices[k].calls]), usage |-> 0]>>

\* Complete: the chunks gathered; an error leaves nothing.
SmComplete(chunks) ==
  LET errs == SelectSeq(chunks, LAMBDA c : c.is = "err")
      texts == SelectSeq(chunks, LAMBDA c : c.is = "delta")
      ends == SelectSeq(chunks, LAMBDA c : c.is = "done" /\ c.calls # <<>>) IN
  IF errs # <<>> THEN SmFailed(errs[1].why)
  ELSE SmAnswer(FlattenSeq([k \in DOMAIN texts |-> texts[k].text]), IF ends = <<>> THEN <<>> ELSE Last(ends).calls)

\* However an answer is cut into events it is put together whole: the text in order, each
\* call with the name its first part had and all of its arguments; a reading that broke off
\* is an error and never a part of the answer.
SmChatRight(x) ==
  LET got == SmComplete(SmChat(x.lines, x.end))
      upto == {i \in DOMAIN x.lines : \A j \in 1..i : x.lines[j].is # "done"}
      seen == SubSeq(x.lines, 1, Cardinality(upto))
      Of(i) == SelectSeq(seen, LAMBDA l : l.is = "part" /\ l.index = i)
      used == {l.index : l \in {k \in ToSet(seen) : k.is = "part"}}
      order == SetToSortSeq(used, LAMBDA i, j : i < j)
      legal == \A i \in used : Of(i)[1].id # SmNone /\ Of(i)[1].name # SmNone
                 /\ \A k \in 2..Len(Of(i)) : Of(i)[k].id = SmNone /\ Of(i)[k].name = SmNone
      texts == SelectSeq(seen, LAMBDA l : l.is = "text")
      Args(i) == FlattenSeq([k \in DOMAIN Of(i) |-> Of(i)[k].args])
      meant == SmAnswer(FlattenSeq([k \in DOMAIN texts |-> texts[k].text]),
                        [k \in DOMAIN order |-> [id |-> Of(order[k])[1].id, name |-> Of(order[k])[1].name, args |-> Args(order[k])]])
      whole == Len(seen) < Len(x.lines) \/ x.end = "eof" IN
  /\ whole /\ legal => got = meant
  /\ whole /\ legal => got = SmComplete(SmPlain(<<[text |-> meant.text, calls |-> meant.calls]>>))
  /\ ~whole => got = SmFailed(x.end)

-----------------------------------------------------------------------------
\* toOAMessages, and anthropicMessages: instructions apart, calls and results as blocks of
\* an assistant's and of a user's message.
SmOA(msgs) == [k \in DOMAIN msgs |-> [msgs[k] EXCEPT !.role = IF @ = SmNone THEN "user" ELSE @]]

SmToolUse(tc) == [type |-> "tool_use", id |-> IF tc.id = SmNone THEN <<"toolu", tc.name>> ELSE <<tc.id>>, of |-> tc.name]
SmBlocks(m) ==
  IF m.role = "tool" THEN <<[type |-> "tool_result", id |-> IF m.of = SmNone THEN <<m.name>> ELSE <<m.of>>, of |-> m.text]>>
  ELSE (IF m.text # SmNone \/ m.calls = <<>> THEN <<[type |-> "text", id |-> <<>>, of |-> m.text]>> ELSE <<>>)
       \o (IF m.role = "assistant" THEN [k \in DOMAIN m.calls |-> SmToolUse(m.calls[k])] ELSE <<>>)

SmAnthropic(msgs) ==
  LET said == SelectSeq(msgs, LAMBDA m : m.role # "system")
      Out(m) == [role |-> IF m.role = "assistant" THEN "assistant" ELSE "user", blocks |-> SmBlocks(m)] IN
  [system |-> SelectSeq(msgs, LAMBDA m : m.role = "system"),
   out |-> IF said = <<>> THEN <<[role |-> "user", blocks |-> <<[type |-> "text", id |-> <<>>, of |-> SmNone]>>]>>
           ELSE [k \in DOMAIN said |-> Out(said[k])]]

\* Nothing said is lost or moved, and a result keeps the call it answers: that its id was
\* given to a call before, when the model named its calls.
SmAnthropicRight(x) ==
  LET got == SmAnthropic(x.msgs)
      n == Len(x.msgs)
      Calls(msgs) == UNION {ToSet(msgs[k].calls) : k \in DOMAIN msgs}
      paired == \A k \in 1..n : x.msgs[k].role = "tool" => \E tc \in Calls(SubSeq(x.msgs, 1, k - 1)) : tc.id # SmNone /\ tc.id = x.msgs[k].of
      Ids(k, t) == {b.id : b \in {c \in ToSet(got.out[k].blocks) : c.type = t}} IN
  /\ Len(got.system) + Len(SelectSeq(x.msgs, LAMBDA m : m.role # "system")) = n
  /\ got.out # <<>> /\ \A k \in DOMAIN got.out : got.out[k].blocks # <<>>
  /\ paired => \A k \in DOMAIN got.out : \A i \in Ids(k, "tool_result") : \E j \in 1..(k-1) : i \in Ids(j, "tool_use")
  /\ Len(SmOA(x.msgs)) = n /\ \A k \in 1..n : SmOA(x.msgs)[k].calls = x.msgs[k].calls /\ SmOA(x.msgs)[k].of = x.msgs[k].of

\* anthropicProvider.Chat and Complete: the blocks of the answer, unknown kinds left out.
SmAnthropicChat(status, body) ==
  LET Of(t) == SelectSeq(body.blocks, LAMBDA b : b.type = t) IN
  CASE status \notin 200..299 -> SmFailed("status")
    [] body.is = "malformed" -> SmFailed("decode")
    [] OTHER -> SmAnswer([k \in DOMAIN Of("text") |-> Of("text")[k].of], [k \in DOMAIN Of("tool_use") |-> Of("tool_use")[k].of])

-----------------------------------------------------------------------------
\* inferProvider, and NewFromConfig: which provider answers for a model, with which key and
\* at which address ("own" is the provider's).  A name is its head and whether it has a
\* slash; "primary" is the entry under the model's own name.
SmProviders == {"openai", "anthropic", "gemini", "groq", "deepseek", "openrouter", "ollama", "meta"}
SmInfer(m) ==
  CASE m.head = "claude" -> "anthropic" [] m.head = "muse" -> "openrouter" [] m.head \in {"gemini", "deepseek"} -> m.head
    [] m.head \in {"llama", "mixtral", "qwen"} -> "groq" [] m.slash -> "openrouter" [] OTHER -> "openai"

SmNewFromConfig(m, keys, urls) ==
  LET prov == CASE m.head \in SmProviders \ {"gemini", "deepseek"} /\ ~m.slash -> m.head [] m.head = "ollama:" -> "ollama" [] OTHER -> SmInfer(m)
      Pick(table) == CASE prov \in DOMAIN table -> table[prov] [] "primary" \in DOMAIN table -> table["primary"] [] OTHER -> SmNone IN
  [name |-> prov, key |-> Pick(keys), url |-> IF Pick(urls) = SmNone THEN <<"own", prov>> ELSE <<Pick(urls)>>]

\* A key is sent to the provider it was configured for, or that the model's own entry names.
SmConfigRight(x) ==
  LET got == SmNewFromConfig(x.m, x.keys, x.urls) IN
  /\ got.name \in SmProviders
  /\ got.key # SmNone => \E k \in {got.name, "primary"} \intersect DOMAIN x.keys : x.keys[k] = got.key
  /\ got.url = <<"own", got.name>> \/ \E k \in {got.name, "primary"} \intersect DOMAIN x.urls : <<x.urls[k]>> = got.url

-----------------------------------------------------------------------------
\* toInt64 of a count given in halves; num: the first key that is there decides, if only
\* with nothing.  A key that is not there, or null, is SmAbsent.
SmAbsent == -99
SmTokens(halves) == IF halves <= 0 THEN 0 ELSE halves \div 2
SmNum(vals) == LET there == SelectSeq(vals, LAMBDA v : v # SmAbsent) IN IF there = <<>> THEN 0 ELSE SmTokens(there[1])
SmEither(a, b) == IF a # 0 THEN a ELSE b

\* Normalize: the input is what was not read from the cache.
SmNormalize(provider, raw) ==
  LET cached == SmEither(SmNum(<<raw.promptCached>>), SmNum(<<raw.inputCached>>))
      prompt == SmNum(<<raw.prompt, raw.input>>)
      reasoning == SmEither(SmNum(<<raw.completionReasoning>>), SmNum(<<raw.outputReasoning>>)) IN
  CASE provider = "openai" -> [input |-> IF prompt > cached THEN prompt - cached ELSE 0, output |-> SmNum(<<raw.completion, raw.output>>),
                               read |-> cached, write |-> 0, reasoning |-> reasoning]
    [] provider = "anthropic" -> [input |-> SmNum(<<raw.input>>), output |-> SmNum(<<raw.output>>), read |-> SmNum(<<raw.cacheRead>>),
                                  write |-> SmNum(<<raw.cacheWrite>>), reasoning |-> SmNum(<<raw.outputReasoning>>)]
    [] provider = "llama" -> [input |-> SmEither(SmNum(<<raw.prompt>>), SmNum(<<raw.input>>)),
                              output |-> SmEither(SmNum(<<raw.completion>>), SmNum(<<raw.output>>)), read |-> 0, write |-> 0, reasoning |-> 0]
    [] OTHER -> [input |-> 0, output |-> 0, read |-> 0, write |-> 0, reasoning |-> 0]
SmAdd(u, v) == [k \in DOMAIN u |-> u[k] + v[k]]
SmTotal(u) == u.input + u.output + u.read + u.write

\* No count is negative, a prompt is counted once whether it was cached or not, and the
\* total of two answers is what each of them counted.
SmUsageRight(x) ==
  LET u == SmNormalize(x.provider, x.raw)
      Larger(a, b) == IF a > b THEN a ELSE b IN
  /\ \A k \in DOMAIN u : u[k] >= 0 /\ u[k] * 2 <= Larger(0, Larger(x.raw.prompt, Larger(x.raw.input, 9)))
  /\ x.provider = "openai" => u.input + u.read = Larger(u.read, SmNum(<<x.raw.prompt, x.raw.input>>))
  /\ SmTotal(SmAdd(u, u)) = 2 * SmTotal(u)

\* priceFor: the exact name, or the longest name of the table the model's begins with.
SmPriceFor(model, table) ==
  LET keys == {k \in DOMAIN table : IsPrefix(k, model)} IN
  CASE model = <<>> \/ keys = {} -> <<0, 0>> [] model \in DOMAIN table -> table[model]
    [] OTHER -> table[CHOOSE k \in keys : \A j \in keys : Len(j) <= Len(k)]
SmCost(model, table, u) == SmPriceFor(model, table)[1] * u.input + SmPriceFor(model, table)[2] * u.output

\* A name that only adds a date costs what the model costs, and every name one price only.
SmPriceRight(x) ==
  LET got == SmPriceFor(x.model, x.table) IN
  /\ x.model \in DOMAIN x.table => got = x.table[x.model] /\ SmPriceFor(Append(x.model, "date"), x.table) = got
  /\ got # <<0, 0>> => \E n \in 1..Len(x.model) : SubSeq(x.model, 1, n) \in DOMAIN x.table /\ x.table[SubSeq(x.model, 1, n)] = got
                  /\ \A m \in (n+1)..Len(x.model) : SubSeq(x.model, 1, m) \notin DOMAIN x.table
  /\ SmCost(x.model, x.table, [input |-> 1, output |-> 2]) = got[1] + 2 * got[2]

-----------------------------------------------------------------------------
\* extractText of an event of opencode: its part when it is a text or has one, or what the
\* event says beside it.
SmExtract(l) ==
  CASE l.part.is = "string" -> l.part.text
    [] l.part.is = "object" /\ l.part.text # SmNone -> l.part.text
    [] l.part.is = "object" /\ l.part.delta # "absent" -> l.part.delta
    [] OTHER -> l.text

\* Sidecar.Run on the lines written: the answer gathered and the events told; how the
\* program and its context ended decides whether there is an answer at all.
SmGathers(type) == type \in {"", "text", "reasoning", "message"}
SmRun(prompt, lines, end) ==
  LET real == SelectSeq(lines, LAMBDA l : l.is # "blank")
      Text(l) ==
        CASE l.is = "raw" -> <<l.text, "nl">>
          [] l.is = "event" /\ SmGathers(l.type) /\ ~(l.type = "" /\ l.error) -> IF SmExtract(l) = SmNone THEN <<>> ELSE <<SmExtract(l)>>
          [] OTHER -> <<>>
      Kind(l) == CASE l.is = "raw" -> "text" [] l.type = "" -> (IF l.error THEN "error" ELSE "text") [] OTHER -> l.type IN
  IF prompt = SmNone THEN [out |-> SmFailed("prompt"), events |-> <<>>]
  ELSE [out |-> IF end = "exit" THEN SmAnswer(FlattenSeq([k \in DOMAIN real |-> Text(real[k])]), <<>>) ELSE SmFailed(end),
        events |-> [k \in DOMAIN real |-> Kind(real[k])]]

\* Every line is told, and an answer is only given of a program that ended well: all the
\* text it wrote, in order.  (An error it reports and then ends well is no error.)
SmRunRight(x) ==
  LET got == SmRun(x.prompt, x.lines, x.end)
      real == SelectSeq(x.lines, LAMBDA l : l.is # "blank")
      raw == SelectSeq(x.lines, LAMBDA l : l.is = "raw") IN
  /\ x.prompt # SmNone => Len(got.events) = Len(real)
  /\ got.out.is = "answer" <=> x.prompt # SmNone /\ x.end = "exit"
  /\ got.out.is = "error" => got.out.text = <<>>
  /\ got.out.is = "answer" => SelectSeq(got.out.text, LAMBDA c : c = "nl") = [k \in DOMAIN raw |-> "nl"]
  /\ got.out.is = "answer" => \A k \in DOMAIN real : got.events[k] # "error" /\ real[k].is = "event" /\ SmGathers(real[k].type) /\ SmExtract(real[k]) # SmNone
                                => SmExtract(real[k]) \in ToSet(got.out.text)

-----------------------------------------------------------------------------
\* toOAIMessages of nimbus-min: the results of a user's turn first, then what it says.
SmToOAI(system, msgs) ==
  LET Of(m, t) == SelectSeq(m.content, LAMBDA b : b.type = t)
      Texts(m) == [k \in DOMAIN Of(m, "text") |-> Of(m, "text")[k].of]
      Ids(m, t) == [k \in DOMAIN Of(m, t) |-> Of(m, t)[k].of]
      Msg(role, text, ids) == [role |-> role, text |-> text, ids |-> ids]
      Turn(m) ==
        IF m.role = "assistant" THEN <<Msg("assistant", Texts(m), Ids(m, "tool_use"))>>
        ELSE [k \in DOMAIN Of(m, "tool_result") |-> Msg("tool", <<>>, <<Ids(m, "tool_result")[k]>>)]
             \o (IF Texts(m) = <<>> THEN <<>> ELSE <<Msg("user", Texts(m), <<>>)>>) IN
  (IF system = SmNone THEN <<>> ELSE <<Msg("system", <<system>>, <<>>)>>) \o FlattenSeq([k \in DOMAIN msgs |-> Turn(msgs[k])])

\* The calls of a turn are answered before anything else is said, when the next turn
\* answers them at all, and no result or text is lost.
SmToOAIRight(x) ==
  LET got == SmToOAI(x.system, x.msgs)
      n == Len(x.msgs)
      Results(m) == {b.of : b \in {c \in ToSet(m.content) : c.type = "tool_result"}}
      Uses(m) == SelectSeq(m.content, LAMBDA b : b.type = "tool_use")
      answered == \A k \in 1..n : x.msgs[k].role = "assistant" /\ Uses(x.msgs[k]) # <<>>
                    => k < n /\ x.msgs[k+1].role = "user"
                         /\ SelectSeq(x.msgs[k+1].content, LAMBDA b : b.type = "tool_result") = [i \in DOMAIN Uses(x.msgs[k]) |-> [type |-> "tool_result", of |-> Uses(x.msgs[k])[i].of]] IN
  /\ answered => \A k \in DOMAIN got : got[k].role = "assistant" =>
       \A i \in DOMAIN got[k].ids : k + i <= Len(got) /\ got[k+i].role = "tool" /\ got[k+i].ids = <<got[k].ids[i]>>
  /\ {m.ids[1] : m \in {c \in ToSet(got) : c.role = "tool"}} = UNION {Results(m) : m \in {c \in ToSet(x.msgs) : c.role = "user"}}

\* The reply of either client: its blocks, or an error; only the first choice is read.
SmDecode(body) ==
  LET text == CASE body.content = "parts" -> <<"part", "part">> [] body.content = "text" -> <<"text">> [] OTHER -> <<>> IN
  CASE body.is = "malformed" -> SmFailed("json") [] body.is = "error" -> SmFailed("provider") [] body.is = "empty" -> SmFailed("no choices")
    [] body.content = "number" -> SmFailed("shape") [] \E k \in DOMAIN body.calls : body.calls[k] = "bad" -> SmFailed("arguments")
    [] OTHER -> SmAnswer(text, body.calls)

SmStatus(status) == CASE status \in {401, 403} -> "key" [] status = 429 -> "rate" [] status >= 500 -> "trouble" [] OTHER -> "error"
SmMinComplete(sent, status, body) ==
  IF ~sent THEN SmFailed("request") ELSE IF status # 200 THEN SmFailed(SmStatus(status)) ELSE SmDecode(body)

SmAnthropicMin(key, sent, status, body) ==
  CASE ~key -> SmFailed("no key") [] ~sent -> SmFailed("request")
    [] status # 200 -> SmFailed(IF status = 403 THEN "error" ELSE SmStatus(status))
    [] body.is = "malformed" -> SmFailed("json") [] body.is = "error" -> SmFailed("provider") [] body.is = "empty" -> SmFailed("no blocks")
    [] OTHER -> SmAnswer(<<>>, body.calls)

\* A call reaches the tools only from a whole answer to a request that was accepted.
SmMinRight(x) ==
  LET both == {SmMinComplete(x.sent, x.status, x.body), SmAnthropicMin(x.key, x.sent, x.status, x.body)} IN
  /\ \A got \in both : got.calls # <<>> => x.sent /\ x.status = 200 /\ x.body.is = "answer" /\ got.calls = x.body.calls
  /\ \A got \in both : got.is = "error" => got.why # SmNone /\ got.text = <<>>

-----------------------------------------------------------------------------
SmPartOf(i, id, a) == [is |-> "part", index |-> i, id |-> id, name |-> IF id = SmNone THEN SmNone ELSE "read", args |-> a]
SmLineSet == [is : {"noise", "done"}] \union {[is |-> "usage", n |-> 2], [is |-> "text", text |-> <<"a">>], [is |-> "text", text |-> <<"b">>]}
             \union {SmPartOf(0, "c0", <<>>), SmPartOf(0, SmNone, <<"x">>), SmPartOf(2, "c2", <<"y">>), SmPartOf(2, SmNone, <<"z">>)}
SmMsg(r, t, c, o) == [role |-> r, text |-> t, calls |-> c, of |-> o, name |-> "read"]
SmCall(i) == [id |-> i, name |-> "read"]
SmMsgs == {SmMsg("system", "rule", <<>>, SmNone), SmMsg(SmNone, "ask", <<>>, SmNone), SmMsg("assistant", SmNone, <<>>, SmNone),
           SmMsg("assistant", "say", <<SmCall("c1"), SmCall("c2")>>, SmNone), SmMsg("assistant", SmNone, <<SmCall(SmNone)>>, SmNone)}
          \union {SmMsg("tool", "got", <<>>, i) : i \in {"c1", "c2", SmNone}}
SmBlock == [type : {"text"}, of : {"t"}] \union [type : {"tool_use", "tool_result"}, of : {"c1", "c2"}]
SmTurns == {[role |-> "user", content |-> c] : c \in {s \in SmTexts(SmBlock, 3) : \A k \in DOMAIN s : s[k].type # "tool_use"}}
           \union {[role |-> "assistant", content |-> c] : c \in {s \in SmTexts(SmBlock, 2) : \A k \in DOMAIN s : s[k].type # "tool_result"}}
SmEvent(t, e, p) == [is |-> "event", type |-> t, error |-> e, part |-> p, text |-> "beside"]
SmPartNone == [is |-> "none"]
SmOpLines == {[is |-> "blank"], [is |-> "raw", text |-> "raw"], SmEvent("", TRUE, SmPartNone), SmEvent("", FALSE, SmPartNone),
              SmEvent("text", FALSE, [is |-> "string", text |-> "s"]), SmEvent("message", FALSE, [is |-> "object", text |-> SmNone, delta |-> "d"]),
              SmEvent("tool_use", FALSE, [is |-> "object", text |-> "o", delta |-> "absent"]), SmEvent("error", TRUE, SmPartNone)}
SmTables == {[k \in S |-> <<Len(k), 2 * Len(k)>>] : S \in SUBSET {<<"gpt">>, <<"gpt", "4">>, <<"gpt", "4", "mini">>, <<"claude">>}}

SmCases ==
  [fn : {"chat"}, lines : SmTexts(SmLineSet, SmLines), end : {"eof", "broken", "late"}]
  \union [fn : {"anthropic"}, msgs : SmTexts(SmMsgs, SmLines)]
  \union [fn : {"config"}, m : [head : SmProviders \union {"claude", "muse", "llama", "ollama:", "gpt", "other"}, slash : BOOLEAN],
          keys : UNION {[S -> {"k1", SmNone}] : S \in SUBSET {"openai", "groq", "primary"}}, urls : {<<>>, [primary |-> "u"], [anthropic |-> "v"]}]
  \union [fn : {"usage"}, provider : {"openai", "anthropic", "llama", "other"},
          raw : [prompt : {SmAbsent, 0, 9}, input : {SmAbsent, -2, 8}, promptCached : {SmAbsent, 0, 4}, inputCached : {SmAbsent, 6},
                 completion : {SmAbsent, 5}, output : {SmAbsent, 8}, completionReasoning : {SmAbsent, 2}, outputReasoning : {SmAbsent, 4},
                 cacheRead : {SmAbsent, 7}, cacheWrite : {SmAbsent, 3}]]
  \union [fn : {"price"}, model : {<<>>, <<"gpt">>, <<"gpt", "4">>, <<"gpt", "4", "mini", "date">>, <<"o">>}, table : SmTables]
  \union [fn : {"run"}, prompt : {SmNone, "p"}, lines : SmTexts(SmOpLines, 3), end : {"exit", "failed", "late", "broken"}]
  \union [fn : {"oai"}, system : {SmNone, "s"}, msgs : SmTexts(SmTurns, 2)]
  \union [fn : {"min"}, key : BOOLEAN, sent : BOOLEAN, status : {200, 400, 401, 403, 429, 503},
          body : [is : {"answer", "malformed", "error", "empty"}, content : {"text", "parts", "null", "number"}, calls : SmTexts({"read", "edit", "bad"}, 2)]]

SmRight(x) ==
  CASE x.fn = "chat" -> SmChatRight(x) [] x.fn = "anthropic" -> SmAnthropicRight(x) [] x.fn = "config" -> SmConfigRight(x)
    [] x.fn = "usage" -> SmUsageRight(x) [] x.fn = "price" -> SmPriceRight(x) [] x.fn = "run" -> SmRunRight(x)
    [] x.fn = "oai" -> SmToOAIRight(x) [] x.fn = "min" -> SmMinRight(x)
=============================================================================
