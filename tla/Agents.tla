------------------------------- MODULE Agents -------------------------------
(***************************************************************************)
(* The agent roster, session keys and model policy of internal/agents:     *)
(* the block parser of agents.yaml and the five shapes of the table        *)
(* (roster.go), keys of the form agent:<id>:<rest> (sessionkey.go), model  *)
(* aliases and allowlists (policy.go).  AgCases are the inputs tried,      *)
(* AgRight what is promised of them.                                       *)
(*                                                                         *)
(* A line of the file is [indent, item, key, val]: item is its dash, key   *)
(* "" without a colon, val the sequence of its comma-separated values.  A  *)
(* key of a session is the sequence of its parts between the colons, a     *)
(* model that of its segments between the slashes.                         *)
(***************************************************************************)
EXTENDS Integers, Sequences, FiniteSets, SequencesExt, Functions

CONSTANTS
  AgEntries    \* bound on the agents of a roster

ASSUME AgAssumption == AgEntries \in Nat

AgLowered == [Main |-> "main", Coder |-> "coder", Agent |-> "agent", Default |-> "default"]
AgLower(s) == IF s \in DOMAIN AgLowered THEN AgLowered[s] ELSE s
AgNormal(id) == IF id = "" THEN "main" ELSE AgLower(id)      \* normalizeAgentID

-----------------------------------------------------------------------------
\* Where a comment begins in a text: a hash outside quotes after a blank.
AgStrip(text) ==
  LET Step(s, i) ==
        LET c == text[i] IN
        CASE s.cut # 0 -> s
          [] c = "'" /\ ~s.double -> [s EXCEPT !.single = ~@]
          [] c = "''" /\ ~s.single -> IF i > 1 /\ text[i-1] = "\\" THEN s ELSE [s EXCEPT !.double = ~@]
          [] c = "#" /\ ~s.single /\ ~s.double /\ i > 1 /\ text[i-1] = " " -> [s EXCEPT !.cut = i]
          [] OTHER -> s
      end == FoldLeft(Step, [single |-> FALSE, double |-> FALSE, cut |-> 0], [i \in DOMAIN text |-> i]) IN
  IF end.cut = 0 THEN text ELSE SubSeq(text, 1, end.cut - 1)

\* A text without a hash after a blank is left alone, and so is one that is quoted.
AgStripRight(x) ==
  LET quoted == <<"'">> \o SelectSeq(x.text, LAMBDA c : c # "'") \o <<"'">> IN
  /\ AgStrip(quoted) = quoted
  /\ IsPrefix(AgStrip(x.text), x.text)
  /\ AgStrip(x.text) # x.text => \E i \in 2..Len(x.text) : x.text[i] = "#" /\ x.text[i-1] = " "

\* splitKeyValue: the place of the colon that ends the key, 0 without one: the first
\* before a blank or the end, else the first that is not the first character.
AgColon(text) ==
  LET Least(S) == IF S = {} THEN 0 ELSE CHOOSE i \in S : \A j \in S : i <= j
      all == {i \in DOMAIN text : text[i] = ":"}
      ends == {i \in all : i = Len(text) \/ text[i+1] = " "} IN
  IF ends # {} THEN Least(ends) ELSE IF 1 \in all THEN 0 ELSE Least(all)

\* The value never begins in the middle of a word when a colon with a blank is there.
AgColonRight(x) ==
  LET at == AgColon(x.text) IN
  /\ at # 0 => x.text[at] = ":"
  /\ (\E i \in 1..(Len(x.text) - 1) : x.text[i] = ":" /\ x.text[i+1] = " ")
       => at # 0 /\ (at = Len(x.text) \/ x.text[at + 1] = " ")

-----------------------------------------------------------------------------
\* parseYAMLBlock, parseYAMLMap, parseYAMLList at line p (1-based) with the indent of
\* the block: what it holds and the line it stopped at.  "more" is the rest of an
\* item that began with a key.  A map holds pairs, later ones over earlier ones.
AgScalar(val) == [kind |-> "scalar", val |-> val]

AgParse(lines) ==
  LET n == Len(lines)
      P[what \in {"block", "map", "list", "more"}, p \in Nat, indent \in Nat] ==
        LET here == p <= n /\ (what # "more" => lines[p].indent = indent)
            deeper == p < n /\ lines[p+1].indent > indent
            Value == IF lines[p].val # <<>> THEN [node |-> AgScalar(lines[p].val), pos |-> p + 1]
                     ELSE IF deeper THEN P["block", p + 1, lines[p+1].indent]
                     ELSE [node |-> AgScalar(<<>>), pos |-> p + 1]
            Then(node, rest) == [out |-> <<node>> \o rest.out, pos |-> rest.pos]
            nothing == [out |-> <<>>, pos |-> p] IN
        CASE what = "block" ->
               IF lines[p].item THEN LET l == P["list", p, indent] IN [node |-> [kind |-> "list", items |-> l.out], pos |-> l.pos]
                                ELSE LET m == P["map", p, indent] IN [node |-> [kind |-> "map", pairs |-> m.out], pos |-> m.pos]
          [] what = "map" ->
               IF ~here \/ lines[p].item THEN nothing
               ELSE IF lines[p].key = "" THEN P["map", p + 1, indent]
               ELSE Then([key |-> lines[p].key, node |-> Value.node], P["map", Value.pos, indent])
          [] what = "list" ->
               IF ~here \/ ~lines[p].item THEN nothing
               ELSE IF lines[p].key = "" THEN Then(Value.node, P["list", Value.pos, indent])
               ELSE LET more == P["more", Value.pos, indent] IN
                    Then([kind |-> "map", pairs |-> <<[key |-> lines[p].key, node |-> Value.node]>> \o more.out],
                         P["list", more.pos, indent])
          [] what = "more" ->
               IF ~here \/ lines[p].indent <= indent \/ lines[p].item THEN nothing
               ELSE LET sub == P["map", p, lines[p].indent]
                        rest == P["more", sub.pos, indent] IN
                    [out |-> sub.out \o rest.out, pos |-> rest.pos] IN
  IF n = 0 THEN [kind |-> "map", pairs |-> <<>>] ELSE [kind |-> "map", pairs |-> P["map", 1, lines[1].indent].out]

\* The keys of a map in the order of their first appearance, and the value of one.
AgOrder(node) == FoldLeft(LAMBDA s, p : IF p.key \in ToSet(s) THEN s ELSE Append(s, p.key), <<>>, node.pairs)
AgValue(node, key) == node.pairs[CHOOSE i \in DOMAIN node.pairs :
                                   node.pairs[i].key = key /\ \A j \in DOMAIN node.pairs : node.pairs[j].key = key => j <= i].node
AgNull == [kind |-> "null"]

\* ynode.norm: the first key with this lower-case form, by that form alone.
AgNorm(node, key) ==
  LET same == SelectSeq(AgOrder(node), LAMBDA k : AgLower(k) = key) IN IF same = <<>> THEN AgNull ELSE AgValue(node, Head(same))

\* ynode.get: the key as it is written, else without regard to case.
AgGet(node, key) ==
  IF node.kind # "map" THEN AgNull
  ELSE IF key \in ToSet(AgOrder(node)) THEN AgValue(node, key) ELSE AgNorm(node, AgLower(key))

\* firstStr and firstList: the first of these keys with a value.
AgFirstStr(node, keys) ==
  LET Str(k) == LET v == AgGet(node, k) IN IF v.kind = "scalar" THEN v.val ELSE <<>>
      has == SelectSeq(keys, LAMBDA k : Str(k) # <<>>) IN
  IF has = <<>> THEN <<>> ELSE Str(Head(has))

AgFirstList(node, keys) ==
  LET Items(l) == FlattenSeq([i \in DOMAIN l |-> IF l[i].kind = "scalar" THEN l[i].val ELSE <<>>])
      List(k) == LET v == AgGet(node, k) IN
        CASE v.kind = "scalar" -> v.val [] v.kind = "list" -> Items(v.items) [] OTHER -> <<>>
      has == SelectSeq(keys, LAMBDA k : List(k) # <<>>) IN
  IF has = <<>> THEN <<>> ELSE List(Head(has))

-----------------------------------------------------------------------------
\* collectAgentNodes: the shapes of the table in the order they are looked for.  A
\* key is looked up in the table of lower-case keys as it is written.
AgReserved == {"ownership", "default", "default_agent", "defaultagent", "default_id", "defaultid", "entries", "list"}

AgKeyed(node, key) == [id |-> key, node |-> AgNorm(node, key)]
AgKeyedAll(node, keys) == [i \in DOMAIN keys |-> AgKeyed(node, keys[i])]
AgOne(val) == IF val = <<>> THEN "" ELSE Head(val)
AgListed(node) == IF node.kind # "list" THEN <<>>
                  ELSE [i \in DOMAIN node.items |-> [id |-> AgOne(AgFirstStr(node.items[i], <<"id">>)), node |-> node.items[i]]]

AgCollect(root) ==
  LET agents == AgGet(root, "agents")
      Own(node) == SelectSeq(AgOrder(node), LAMBDA k : AgLower(k) \notin AgReserved)
      Entries(node) == LET e == AgGet(node, "entries") IN IF e.kind = "map" THEN AgKeyedAll(e, AgOrder(e)) ELSE <<>> IN
  CASE agents.kind = "list" -> AgListed(agents)
    [] agents.kind = "map" ->
         IF AgGet(agents, "entries").kind # "null" THEN Entries(agents) \o AgListed(AgGet(agents, "list"))
         ELSE IF AgGet(agents, "list").kind = "list" THEN AgListed(AgGet(agents, "list"))
         ELSE AgKeyedAll(agents, Own(agents))
    [] AgGet(root, "entries").kind = "map" -> Entries(root)
    [] AgGet(root, "list").kind = "list" -> AgListed(AgGet(root, "list"))
    [] OTHER -> SelectSeq(AgKeyedAll(root, Own(root)), LAMBDA a : a.node.kind = "map")

\* nodeToAgent: a scalar is the model alone.
AgAgent(a) ==
  LET Str(keys) == AgFirstStr(a.node, keys)
      own == Str(<<"id">>) IN
  CASE a.node.kind = "scalar" -> [id |-> a.id, model |-> a.node.val, allow |-> <<>>]
    [] a.node.kind = "map" -> [id |-> IF own # <<>> THEN Head(own) ELSE a.id,
                               model |-> Str(<<"model", "primary_model", "primarymodel">>),
                               allow |-> AgFirstList(a.node, <<"allow_agents", "allowagents", "allow", "agents">>)]
    [] OTHER -> [id |-> a.id, model |-> <<>>, allow |-> <<>>]

\* ParseRoster: the agents by normal id, a later one over an earlier one, and the default.
AgTable(nodes) == SelectSeq([i \in DOMAIN nodes |-> AgAgent(nodes[i])], LAMBDA a : a.id # "")
AgById(agents) ==
  [id \in {AgNormal(a.id) : a \in ToSet(agents)} |-> [Last(SelectSeq(agents, LAMBDA a : AgNormal(a.id) = id)) EXCEPT !.id = id]]

AgNamed(root) ==
  LET defaults == <<"default", "default_agent", "defaultagent", "default_id", "defaultid">> IN
  AgFirstStr(root, defaults) \o AgFirstStr(AgGet(root, "agents"), defaults)

AgRoster(lines) ==
  LET root == AgParse(lines) IN
  [agents |-> AgById(AgTable(AgCollect(root))), default |-> AgNormal(AgOne(AgNamed(root)))]

\* Default and Resolve; LoadEnv puts NIMBUS_DEFAULT_AGENT in place of the default.
AgDefault(r, smallest) ==
  CASE DOMAIN r.agents = {} -> r.default
    [] r.default \in DOMAIN r.agents -> r.default
    [] "main" \in DOMAIN r.agents -> "main"
    [] OTHER -> smallest
AgResolve(r, id, smallest) ==
  IF id = "" THEN AgDefault(r, smallest) ELSE IF AgNormal(id) \in DOMAIN r.agents THEN AgNormal(id) ELSE "required"
AgLoadEnv(r, env) == IF env = "" THEN r ELSE [r EXCEPT !.default = AgNormal(env)]

\* IsAllowed: an empty list allows all, an unknown caller nothing, no caller is the default.
AgAllowed(r, from, to, smallest) ==
  LET caller == IF from = "" THEN AgDefault(r, smallest) ELSE AgNormal(from)
      list == r.agents[caller].allow IN
  \/ DOMAIN r.agents = {}
  \/ caller \in DOMAIN r.agents /\ (list = <<>> \/ AgNormal(to) \in {AgNormal(a) : a \in ToSet(list)})

\* A roster written in each of the shapes the loader knows.
AgLine(indent, item, key, val) == [indent |-> indent, item |-> item, key |-> key, val |-> val]
AgShapes == {"map", "entries", "list", "items", "root_entries", "root_list", "legacy"}

AgWritten(shape, agents, nested) ==
  LET Fields(i, a) ==
        (IF a.model = <<>> THEN <<>> ELSE <<AgLine(i, FALSE, "model", a.model)>>)
        \o IF a.allow = <<>> THEN <<>>
           ELSE IF ~nested THEN <<AgLine(i, FALSE, "allow_agents", a.allow)>>
           ELSE <<AgLine(i, FALSE, "allow_agents", <<>>)>> \o [k \in DOMAIN a.allow |-> AgLine(i + 2, TRUE, "", <<a.allow[k]>>)]
      Each(Line(_, _), i) == FlattenSeq([k \in DOMAIN agents |-> <<Line(i, agents[k])>> \o Fields(i + 2, agents[k])])
      Key(i, a) == AgLine(i, FALSE, a.id, <<>>)
      Item(i, a) == AgLine(i, TRUE, "id", <<a.id>>)
      Head0(k) == <<AgLine(0, FALSE, k, <<>>)>>
      Head2(k) == <<AgLine(0, FALSE, "agents", <<>>), AgLine(2, FALSE, k, <<>>)>> IN
  CASE shape = "map" -> Head0("agents") \o Each(Key, 2)       [] shape = "entries" -> Head2("entries") \o Each(Key, 4)
    [] shape = "list" -> Head2("list") \o Each(Item, 4)        [] shape = "items" -> Head0("agents") \o Each(Item, 2)
    [] shape = "root_entries" -> Head0("entries") \o Each(Key, 2) [] shape = "root_list" -> Head0("list") \o Each(Item, 2)
    [] shape = "legacy" -> Each(Key, 0)

\* Whatever the shape, the agents come out with their models and their limits.  Left
\* out: an id with a capital in a shape that makes a key of it loses both, as AgNorm
\* shows, and an id alone is no legacy entry.
AgShapesRight(x) ==
  LET r == AgRoster(<<AgLine(0, FALSE, "default", <<x.default>>)>> \o AgWritten(x.shape, x.agents, x.nested))
      kept == {i \in DOMAIN x.agents : x.shape # "legacy" \/ x.agents[i].model \o x.agents[i].allow # <<>>} IN
  (x.shape \in {"list", "items", "root_list"} \/ \A i \in DOMAIN x.agents : AgLower(x.agents[i].id) = x.agents[i].id) =>
    /\ r.agents = [id \in {AgNormal(x.agents[i].id) : i \in kept} |->
                     LET i == CHOOSE k \in kept : AgNormal(x.agents[k].id) = id IN [x.agents[i] EXCEPT !.id = id]]
    /\ r.default = AgNormal(x.default)

\* Asking for nobody is asking for the default, which exists when anybody does, and a
\* call in nobody's name is under the default's limits.
AgDefaultRight(x) ==
  LET ids == {x.agents[i].id : i \in DOMAIN x.agents}
      r == AgLoadEnv([agents |-> [id \in ids |-> CHOOSE a \in ToSet(x.agents) : a.id = id], default |-> x.default], x.env)
      D(smallest) == AgResolve(r, "", smallest) IN
  \A s \in ids :
    /\ D(s) \in ids
    /\ x.env \in ids => D(s) = x.env
    /\ \A to \in ids : AgAllowed(r, "", to, s) = AgAllowed(r, D(s), to, s)
    /\ ~AgAllowed(r, "stranger", s, s) /\ AgResolve(r, "stranger", s) = "required"

-----------------------------------------------------------------------------
\* Keys of sessions: Parse, BuildMain and what kind a key is.
AgParseKey(key) ==
  IF Len(key) < 3 \/ AgLower(key[1]) # "agent" \/ key[2] = "" \/ key[3] = "" THEN [id |-> "error", rest |-> <<>>]
  ELSE [id |-> AgNormal(key[2]), rest |-> SubSeq(key, 3, Len(key))]
AgBuildMain(id) == <<"agent", AgNormal(id), "main">>
AgIsMain(key) == LET p == AgParseKey(key) IN p.id # "error" /\ Len(p.rest) = 1 /\ AgLower(p.rest[1]) = "main"
AgHasPart(key, part) == \E i \in 1..(Len(key) - 1) : AgLower(key[i]) = part
AgIsSubagent(key) == AgHasPart(key, "subagent")
AgIsAcp(key) == AgHasPart(key, "acp")
AgIsPrimary(key) == AgIsMain(key) /\ ~AgIsSubagent(key) /\ ~AgIsAcp(key)

\* A main key names its agent and is primary, but for an agent called as a scope is.
AgKeyRight(x) ==
  LET p == AgParseKey(x.key) IN
  /\ AgParseKey(AgBuildMain(x.id)) = [id |-> AgNormal(x.id), rest |-> <<"main">>]
  /\ AgIsPrimary(AgBuildMain(x.id)) = (AgNormal(x.id) \notin {"subagent", "acp"})
  /\ AgIsPrimary(x.key) => AgBuildMain(p.id) = [i \in DOMAIN x.key |-> AgLower(x.key[i])]
  /\ p.id # "error" => p.rest # <<>> /\ p.id = AgLower(p.id)

-----------------------------------------------------------------------------
\* AliasIndex after these Adds: a row is [alias, provider, model].  Resolve: the exact
\* row, then the alias of the provider, else as it is written.
AgAliasOf(hit) == IF hit = <<>> THEN <<>> ELSE <<Last(hit).provider, Last(hit).model>>

AgAlias(rows, ref) ==
  LET good == SelectSeq(rows, LAMBDA r : "" \notin {r.alias, r.provider, r.model})
      exact == AgAliasOf(SelectSeq(good, LAMBDA r : r.provider = ref[1] /\ r.model = ref[2]))
      scoped == AgAliasOf(SelectSeq(good, LAMBDA r : r.provider = ref[1] /\ r.alias = ref[2])) IN
  IF Len(ref) = 1 THEN AgAliasOf(SelectSeq(good, LAMBDA r : r.alias = ref[1] /\ ref[1] # ""))
  ELSE IF "" \in ToSet(ref) THEN <<>>
  ELSE IF exact # <<>> THEN exact ELSE IF scoped # <<>> THEN scoped ELSE ref

\* No alias takes a configured model away, and what resolves stays at its provider.
AgAliasRight(x) ==
  LET got == AgAlias(x.rows, x.ref) IN
  /\ Len(x.ref) = 2 /\ got # <<>> => got[1] = x.ref[1]
  /\ \A i \in DOMAIN x.rows : LET r == x.rows[i] IN
       "" \notin {r.alias, r.provider, r.model} => AgAlias(x.rows, <<r.provider, r.model>>) = <<r.provider, r.model>>
  /\ got # <<>> /\ got # x.ref => \E i \in DOMAIN x.rows : x.rows[i].alias = Last(x.ref) /\ got = <<x.rows[i].provider, x.rows[i].model>>

\* Allowlist.Allow: everything, the same name, or all below a segment.
AgAllow(patterns, key) ==
  /\ "" \notin ToSet(key)
  /\ \E p \in patterns : \/ p \in {<<"*">>, key}
                         \/ Len(p) > 1 /\ Last(p) = "*" /\ IsPrefix(Front(p), key) /\ Len(key) >= Len(p)

\* Nothing without a pattern; a wildcard stops at its segment; more patterns, more models.
AgAllowRight(x) ==
  /\ ~AgAllow({}, x.key)
  /\ \A p \in x.patterns : AgAllow({p}, x.key) => AgAllow(x.patterns, x.key)
  /\ AgAllow(x.patterns, x.key) /\ <<"*">> \notin x.patterns => \E p \in x.patterns : p[1] = x.key[1]

-----------------------------------------------------------------------------
AgAgents == [id : {"main", "coder", "Coder"}, model : {<<>>, <<"m">>}, allow : {<<>>, <<"main">>, <<"main", "coder">>}]
AgTables == {t \in UNION {[1..n -> AgAgents] : n \in 1..AgEntries} : \A i, j \in DOMAIN t : i # j => AgNormal(t[i].id) # AgNormal(t[j].id)}
AgTexts(S, n) == UNION {[1..k -> S] : k \in 0..n}

AgCases ==
  {[fn |-> "strip", text |-> t] : t \in AgTexts({"'", "''", "#", " ", "\\", "a"}, 4)}
  \union {[fn |-> "colon", text |-> t] : t \in AgTexts({":", " ", "a"}, 5)}
  \union [fn : {"shapes"}, agents : AgTables, shape : AgShapes, nested : BOOLEAN, default : {"main", "Coder"}]
  \union [fn : {"default"}, agents : {t \in AgTables : "Coder" \notin {t[i].id : i \in DOMAIN t}}, default : {"main", "gone"}, env : {"", "coder"}]
  \union [fn : {"key"}, key : AgTexts({"Agent", "acp", "subagent", "main", "coder", ""}, 4), id : {"", "Main", "coder", "acp"}]
  \union [fn : {"alias"}, rows : AgTexts([alias : {"fast", "m"}, provider : {"", "p", "q"}, model : {"m", "fast"}], 2),
          ref : {<<"fast">>, <<"">>, <<"p", "fast">>, <<"p", "m">>, <<"q", "other">>, <<"", "m">>}]
  \union [fn : {"allow"}, patterns : SUBSET {<<"*">>, <<"p", "*">>, <<"p", "m">>, <<"p", "m", "*">>, <<"q", "*">>},
          key : {<<"p", "m">>, <<"p", "m", "k">>, <<"p", "n">>, <<"q", "m">>, <<"", "m">>}]

AgRight(x) ==
  CASE x.fn = "strip" -> AgStripRight(x) [] x.fn = "colon" -> AgColonRight(x) [] x.fn = "shapes" -> AgShapesRight(x)
    [] x.fn = "default" -> AgDefaultRight(x) [] x.fn = "key" -> AgKeyRight(x) [] x.fn = "alias" -> AgAliasRight(x)
    [] x.fn = "allow" -> AgAllowRight(x)
=============================================================================
