------------------------------- MODULE Routes -------------------------------
(***************************************************************************)
(* Which provider, model and key a request goes to, and what a failure     *)
(* does to it: buildProvider and inferProviderName                         *)
(* (cmd/nimbus-one/main.go), RouteModel (llm/router.go), the failover      *)
(* chains (llm/fallback.go, chain.go), retries and waits                   *)
(* (llm/resilience.go), credential profiles (llm/authprofiles.go), context *)
(* windows (llm/windows.go).  Each is an operator with the code's shape    *)
(* beside what it promises; RtCases are the inputs tried.  Times are       *)
(* seconds, an outcome of a provider is how its call ends.                 *)
(***************************************************************************)
EXTENDS Integers, Sequences, FiniteSets, SequencesExt

CONSTANTS
  RtDepth    \* bound on the length of the lists tried

ASSUME RtAssumption == RtDepth \in 1..3

RtLists(S) == UNION {[1..n -> S] : n \in 0..RtDepth}

-----------------------------------------------------------------------------
\* inferProviderName: a model is [first, family]: the provider before its slash, or
\* "none" without one, and the family its name begins with.
RtRank == <<"openrouter", "openai", "groq", "deepseek", "gemini", "meta", "anthropic">>
RtFamilyOf == [claude |-> <<"anthropic">>, muse |-> <<"openrouter", "meta">>, gemini |-> <<"gemini">>,
               llama |-> <<"groq">>, deepseek |-> <<"deepseek">>, gpt |-> <<"openai">>, other |-> <<>>]

RtFirstKeyed(list, keys) ==
  IF \E i \in DOMAIN list : list[i] \in keys
    THEN list[CHOOSE i \in DOMAIN list : list[i] \in keys /\ \A j \in 1..(i-1) : list[j] \notin keys] ELSE "none"

RtInfer(m, keys) ==
  IF m.first # "none" THEN IF m.first \in keys THEN m.first ELSE RtFirstKeyed(<<"openrouter">>, keys)
  ELSE IF m.family = "ollama" THEN "ollama"
  ELSE RtFirstKeyed(RtFamilyOf[m.family] \o RtRank, keys)

RtModels == {[first |-> "none", family |-> f] : f \in DOMAIN RtFamilyOf \union {"ollama"}}
            \union {[first |-> p, family |-> "other"] : p \in {"openrouter", "groq", "elsewhere"}}

\* A key is used only when the user has it; a family's own provider is preferred; a
\* model that names its provider goes nowhere else but to OpenRouter.
RtInferRight(x) ==
  LET got == RtInfer(x.model, x.keys) IN
  /\ got \in x.keys \union {"none", "ollama"}
  /\ (got = "ollama") = (x.model.family = "ollama")
  /\ x.model.first # "none" => got \in {x.model.first, "openrouter", "none"}
  /\ x.model.first = "none" /\ x.keys # {} => got # "none"
  /\ x.model.family \in DOMAIN RtFamilyOf /\ x.model.first = "none" /\ got # "none" =>
       \/ got \in ToSet(RtFamilyOf[x.model.family])
       \/ x.keys \intersect ToSet(RtFamilyOf[x.model.family]) = {}

-----------------------------------------------------------------------------
\* buildProvider: the user's models in order, each once, those nobody can serve left
\* out, and the local one last unless it is listed.
RtPool(wanted, keys, local) ==
  LET Add(cfgs, m) == LET p == RtInfer(m, keys) IN
        IF p = "none" \/ \E i \in DOMAIN cfgs : cfgs[i] = [provider |-> p, model |-> m] THEN cfgs
        ELSE Append(cfgs, [provider |-> p, model |-> m])
      cfgs == FoldLeft(Add, <<>>, wanted) IN
  IF local /\ \A i \in DOMAIN cfgs : cfgs[i].provider # "ollama"
    THEN Append(cfgs, [provider |-> "ollama", model |-> [first |-> "none", family |-> "ollama"]]) ELSE cfgs

RtPoolRight(x) ==
  LET got == RtPool(x.wanted, x.keys, x.local)
      At(seq, m) == CHOOSE i \in DOMAIN seq : seq[i] = m /\ \A j \in 1..(i-1) : seq[j] # m
      listed == {i \in DOMAIN got : got[i].model \in ToSet(x.wanted)} IN
  /\ IsInjective(got)
  /\ \A m \in ToSet(x.wanted) : RtInfer(m, x.keys) = "none" \/ \E i \in listed : got[i].model = m
  /\ \A i, j \in listed : i < j => At(x.wanted, got[i].model) < At(x.wanted, got[j].model)
  /\ \A i \in DOMAIN got \ listed : i = Len(got) /\ got[i].provider = "ollama" /\ x.local

\* RouteModel: the explicit model, else the one configured for the kind, else the primary.
RtRoute(explicit, routed, primary) == IF explicit # "" THEN explicit ELSE IF routed # "" THEN routed ELSE primary

RtRouteRight(x) ==
  LET got == RtRoute(x.explicit, x.routed, x.primary) IN
  got = "" => x.explicit = "" /\ x.routed = "" /\ x.primary = ""

-----------------------------------------------------------------------------
\* isRetryable: nothing once the context has ended, client errors not, the rest yes.
RtRetryable(out) == out \in {"busy", "network"}

\* Chain.Complete: [calls, out], by the outcomes of the providers in order.
RtComplete(outs) ==
  LET Go[i \in 1..(Len(outs) + 1)] ==
        IF i > Len(outs) THEN [calls |-> Len(outs), out |-> "exhausted"]
        ELSE IF RtRetryable(outs[i]) THEN Go[i+1] ELSE [calls |-> i, out |-> outs[i]] IN
  Go[1]

RtCompleteRight(x) ==
  LET got == RtComplete(x.outs) IN
  /\ \A i \in 1..(got.calls - 1) : RtRetryable(x.outs[i])
  /\ IF got.out = "exhausted" THEN \A i \in DOMAIN x.outs : RtRetryable(x.outs[i])
                              ELSE got.out = x.outs[got.calls] /\ ~RtRetryable(got.out)

\* Chain.Chat: a stream is [text, end]: whether it gave text before it ended with
\* "done", "shut" (no word), "busy" or "refused" (an error that is final).  The
\* result is what the reader of the chain gets.
RtChat(streams) ==
  LET n == Len(streams)
      Text(i) == IF streams[i].text THEN <<[of |-> i, is |-> "text"]>> ELSE <<>>
      Go[i \in 1..(n + 1)] ==
        IF i > n THEN <<>>
        ELSE LET s == streams[i] IN
             IF s.end \in {"done", "refused"} \/ (s.end = "busy" /\ i = n)
               THEN Text(i) \o <<[of |-> i, is |-> s.end]>>
               ELSE Text(i) \o Go[i+1] IN
  Go[1]

\* The reader gets one ending at most, and gets none only where the last provider
\* stopped without a word; text of a provider given up on stays in front of the next
\* one's.
RtChatRight(x) ==
  LET got == RtChat(x.streams) IN
  /\ \A i \in DOMAIN got : got[i].is # "text" => i = Len(got)
  /\ \A i, j \in DOMAIN got : i <= j => got[i].of <= got[j].of
  /\ (got = <<>> \/ Last(got).is = "text") /\ x.streams # <<>> => Last(x.streams).end = "shut"
  /\ \A i \in DOMAIN got : \A k \in 1..(got[i].of - 1) : x.streams[k].end \in {"busy", "shut"}

\* Chain2.slots: nil providers dropped, the model of the slot or the request's, a
\* pair of provider and model queued once.
RtSlots(providers, models, asked) ==
  LET Model(i) == IF i \in DOMAIN models /\ models[i] # "" THEN models[i] ELSE asked
      Add(slots, i) == LET s == [provider |-> providers[i], model |-> Model(i)] IN
        IF providers[i] = "nil" \/ s \in ToSet(slots) THEN slots ELSE Append(slots, s) IN
  FoldLeft(Add, <<>>, [i \in DOMAIN providers |-> i])

\* Chain2.Run over them: pairs that failed earlier in the session are passed over; a
\* failure of any kind goes on to the next.
RtRun(slots, skip, fails) ==
  LET tried == SelectSeq(slots, LAMBDA s : s \notin skip)
      Good == {i \in DOMAIN tried : tried[i].provider \notin fails} IN
  IF Good = {} THEN [tried |-> tried, by |-> "exhausted"]
  ELSE LET i == CHOOSE j \in Good : \A k \in Good : j <= k IN [tried |-> SubSeq(tried, 1, i), by |-> tried[i].provider]

RtRunRight(x) ==
  LET slots == RtSlots(x.providers, x.models, "asked")
      got == RtRun(slots, x.skip, x.fails)
      all == {i \in DOMAIN x.providers : x.providers[i] # "nil"} IN
  /\ IsInjective(slots) /\ {s.provider : s \in ToSet(slots)} = {x.providers[i] : i \in all}
  /\ ToSet(got.tried) \intersect x.skip = {}
  /\ (got.by = "exhausted") = (\A s \in ToSet(slots) : s \in x.skip \/ s.provider \in x.fails)

-----------------------------------------------------------------------------
\* RetryTransient: [calls, out] of up to n attempts with these outcomes.
RtRetry(n, outs) ==
  LET attempts == IF n < 1 THEN 1 ELSE n
      Go[i \in 1..attempts] ==
        IF outs[i] # "network" \/ i = attempts THEN [calls |-> i, out |-> outs[i]] ELSE Go[i+1] IN
  Go[1]

RtRetryRight(x) ==
  LET got == RtRetry(x.n, x.outs) IN
  /\ got.calls >= 1 /\ (x.n >= 1 => got.calls <= x.n)
  /\ \A i \in 1..(got.calls - 1) : x.outs[i] = "network"
  /\ got.out = "network" => got.calls >= x.n

\* BackoffN, in milliseconds, with its 64-bit shift kept small by the clamp on n.
RtBackoff(n, jitter) ==
  LET m == IF n < 0 THEN 0 ELSE IF n > 10 THEN 10 ELSE n IN
  IF 2^m * 100 + jitter > 5000 THEN 5000 ELSE 2^m * 100 + jitter

RtBackoffRight(x) ==
  /\ RtBackoff(x.n, x.jitter) \in 100..5000
  /\ RtBackoff(x.n, x.jitter) <= RtBackoff(x.n + 1, x.jitter)

\* ParseRetryAfter at time now: header values are [is, v]; a number of x-ratelimit-reset
\* is taken for seconds of the epoch, one of milliseconds too.
RtWait(after, reset, now) ==
  CASE after.is = "seconds" -> after.v
    [] after.is = "date" -> IF after.v > now THEN after.v - now ELSE 0
    [] OTHER -> IF reset.is \in {"epoch", "millis"} /\ reset.v > now THEN reset.v - now ELSE 0

\* A wait ends when the provider said, at once if that is past: Retry-After goes before
\* the reset, which counts in seconds.  For a reset in milliseconds no more is promised
\* than that the wait does not end before it.
RtWaitRight(x) ==
  LET wait == RtWait(x.after, x.reset, x.now)
      Until(time) == wait >= 0 /\ x.now + wait = IF time > x.now THEN time ELSE x.now IN
  /\ x.after.is = "seconds" => wait = x.after.v
  /\ x.after.is = "date" => Until(x.after.v)
  /\ x.after.is = "none" /\ x.reset.is = "epoch" => Until(x.reset.v)
  /\ x.after.is = "none" /\ x.reset.is = "millis" => wait >= 0 /\ x.now + wait >= x.reset.v \div 1000

-----------------------------------------------------------------------------
\* Profiles [id, until, exiled] of a provider.  Eligible, Order, and the reports.
RtEligible(p, now) == ~p.exiled /\ now >= p.until

RtOrder(ps, pinned, now) ==
  LET free == SelectSeq(ps, LAMBDA p : p.id # pinned) IN
  SelectSeq(ps, LAMBDA p : p.id = pinned) \o SelectSeq(free, LAMBDA p : RtEligible(p, now))
    \o SelectSeq(free, LAMBDA p : ~RtEligible(p, now))

RtFailed(ps, id, terminal, now) ==
  [i \in DOMAIN ps |-> IF ps[i].id # id THEN ps[i]
                       ELSE IF terminal THEN [ps[i] EXCEPT !.exiled = TRUE] ELSE [ps[i] EXCEPT !.until = now + 60]]
RtSucceeded(ps, id) == [i \in DOMAIN ps |-> IF ps[i].id = id THEN [ps[i] EXCEPT !.until = 0] ELSE ps[i]]

\* The order is a permutation that a pin leads, every usable profile stands before
\* every unusable one, and a credential exiled stays so whatever is reported later.
RtOrderRight(x) ==
  LET ps == [i \in DOMAIN x.ps |-> x.ps[i] @@ [id |-> i]]
      got == RtOrder(ps, x.pinned, x.now)
      later == RtSucceeded(RtFailed(ps, x.fail, x.terminal, x.now), x.fail) IN
  /\ Len(got) = Len(ps) /\ ToSet(got) = ToSet(ps)
  /\ x.pinned \in DOMAIN ps => Head(got).id = x.pinned
  /\ \A i, j \in DOMAIN got : i < j /\ got[i].id # x.pinned =>
       /\ RtEligible(got[j], x.now) => RtEligible(got[i], x.now)
       /\ RtEligible(got[i], x.now) = RtEligible(got[j], x.now) => got[i].id < got[j].id
  /\ \A i \in DOMAIN ps : ps[i].exiled \/ (x.terminal /\ i = x.fail) <=> later[i].exiled

\* FromEnv: the variables found by prefix, then the provider's own, each key once.
RtFromEnv(names, value) ==
  FoldLeft(LAMBDA s, n : IF value[n] = "" \/ value[n] \in {value[m] : m \in ToSet(s)} THEN s ELSE Append(s, n), <<>>, names)

RtFromEnvRight(x) ==
  LET got == RtFromEnv(x.names, x.value) IN
  /\ {x.value[n] : n \in ToSet(got)} = {x.value[n] : n \in ToSet(x.names)} \ {""}
  /\ Cardinality({x.value[n] : n \in ToSet(got)}) = Len(got)

-----------------------------------------------------------------------------
\* Guard: how much of a model's window is left; a window of 0 is the default one.
RtGuard(used, window) ==
  LET w == IF window <= 0 THEN 128000 ELSE window
      left == w - (IF used < 0 THEN 0 ELSE used)
      Most(a, b) == IF a > b THEN a ELSE b IN
  IF left < Most(4000, w \div 10) THEN "block" ELSE IF left < Most(8000, w \div 5) THEN "warn" ELSE "ok"

RtGuardRight(x) ==
  LET worse == [ok |-> 0, warn |-> 1, block |-> 2] IN
  /\ worse[RtGuard(x.used, x.window)] <= worse[RtGuard(x.used + 1000, x.window)]
  /\ RtGuard(x.used, x.window) = "ok" /\ x.window > 0 => x.used + 8000 <= x.window

\* WindowFor and priceFor: the exact entry, else the longest that begins the name.
RtLookup(name, table) ==
  LET fits == {k \in table : IsPrefix(k, name)} IN
  IF name \in table THEN name ELSE IF fits = {} \/ fits = {<<>>} THEN <<>> ELSE CHOOSE k \in fits : \A j \in fits : Len(j) <= Len(k)

RtLookupRight(x) ==
  LET got == RtLookup(x.name, x.table) IN
  /\ IsPrefix(got, x.name) /\ (got # <<>> => got \in x.table)
  /\ \A k \in x.table : IsPrefix(k, x.name) => Len(k) <= Len(got)

-----------------------------------------------------------------------------
RtKeySets == SUBSET {"openrouter", "openai", "groq", "anthropic", "meta"}
RtSlotsOf == [provider : {"p", "q"}, model : {"m", "asked"}]

RtCases ==
  {[fn |-> "infer", model |-> m, keys |-> k] : m \in RtModels, k \in RtKeySets}
  \union {[fn |-> "pool", wanted |-> w, keys |-> k, local |-> l] :
            w \in RtLists({m \in RtModels : m.family \in {"gpt", "ollama", "llama"} \/ m.first = "elsewhere"}),
            k \in {{}, {"openai"}, {"groq", "openrouter"}}, l \in BOOLEAN}
  \union [fn : {"route"}, explicit : {"", "m"}, routed : {"", "n"}, primary : {"", "p"}]
  \union {[fn |-> "run", providers |-> p, models |-> m, skip |-> k, fails |-> f] : p \in RtLists({"p", "q", "nil"}),
            m \in {<<>>, <<"m">>, <<"", "m">>}, k \in {{s} : s \in RtSlotsOf} \union {{}}, f \in SUBSET {"p", "q"}}
  \union [fn : {"backoff"}, n : -1..12, jitter : {0, 99}]
  \union {[fn |-> "order", ps |-> p, pinned |-> i, now |-> 5, fail |-> f, terminal |-> t] :
            p \in RtLists([until : {0, 9}, exiled : BOOLEAN]), i \in 0..2, f \in 1..2, t \in BOOLEAN}
  \union {[fn |-> "env", names |-> n, value |-> v] : n \in {<<1, 2, 3>>, <<2, 1, 3>>}, v \in [1..3 -> {"", "k", "l"}]}
  \union {[fn |-> "lookup", name |-> n, table |-> t] : n \in UNION {[1..k -> {1, 2}] : k \in 1..3},
            t \in SUBSET {<<1>>, <<1, 2>>, <<2, 2>>, <<1, 2, 1>>}}

\* Those of calls that fail: failover, streams, retries, waits and the guard.
RtCallCases ==
  {[fn |-> "complete", outs |-> o] : o \in RtLists({"ok", "busy", "network", "refused", "ended"})}
  \union {[fn |-> "chat", streams |-> s] : s \in RtLists([text : BOOLEAN, end : {"done", "shut", "busy", "refused"}])}
  \union {[fn |-> "retry", n |-> n, outs |-> o] : n \in -1..3, o \in [1..3 -> {"ok", "network", "refused"}]}
  \union [fn : {"wait"}, after : {[is |-> "none", v |-> 0]} \union [is : {"seconds", "date"}, v : {0, 5, 9}],
          reset : {[is |-> "none", v |-> 0], [is |-> "epoch", v |-> 6], [is |-> "epoch", v |-> 9], [is |-> "millis", v |-> 9000]}, now : {6}]
  \union [fn : {"guard"}, used : {-1, 0, 3000, 20000, 22000, 25000, 31000, 40000}, window : {-1, 0, 4000, 32000}]

RtRight(x) ==
  CASE x.fn = "infer" -> RtInferRight(x)  [] x.fn = "pool" -> RtPoolRight(x)    [] x.fn = "route" -> RtRouteRight(x)
    [] x.fn = "complete" -> RtCompleteRight(x) [] x.fn = "chat" -> RtChatRight(x) [] x.fn = "run" -> RtRunRight(x)
    [] x.fn = "retry" -> RtRetryRight(x)  [] x.fn = "backoff" -> RtBackoffRight(x) [] x.fn = "wait" -> RtWaitRight(x)
    [] x.fn = "order" -> RtOrderRight(x)  [] x.fn = "env" -> RtFromEnvRight(x)  [] x.fn = "guard" -> RtGuardRight(x)
    [] x.fn = "lookup" -> RtLookupRight(x)
=============================================================================
