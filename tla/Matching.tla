------------------------------ MODULE Matching ------------------------------
(***************************************************************************)
(* Rules that are matched against what is asked: permission rules          *)
(* (internal/perms/perms.go), gateway scopes (internal/gateway/scopes.go), *)
(* hooks (internal/hooks/hooks.go) and the chats Telegram serves           *)
(* (internal/gateway/telegram_policy.go).  The code's matchers beside what *)
(* a pattern means; MaCases are the inputs tried.  A pattern or a target   *)
(* is a sequence over a small alphabet.                                    *)
(***************************************************************************)
EXTENDS Integers, Sequences, FiniteSets, SequencesExt

CONSTANTS
  MaPatterns,   \* bound on the length of a pattern
  MaTargets     \* bound on the length of a target

ASSUME MaAssumption == MaPatterns \in Nat /\ MaTargets \in Nat

MaWords(S, n) == UNION {[1..k -> S] : k \in 0..n}

\* What a glob means: "*" stands for any run, "?" (where it is one) for one letter.
\* Rest[i] are the places of the target from which on it is what the pattern from i
\* on stands for.
MaMeans(pattern, target, any) ==
  LET n == Len(pattern)
      ends == 1..(Len(target) + 1)
      Rest[i \in 1..(n + 1)] ==
        IF i > n THEN {Len(target) + 1}
        ELSE IF pattern[i] = "*" THEN {j \in ends : \E k \in Rest[i+1] : j <= k}
        ELSE {j \in DOMAIN target : (pattern[i] = target[j] \/ (any /\ pattern[i] = "?")) /\ j + 1 \in Rest[i+1]} IN
  1 \in Rest[1]

\* globStar: two cursors and the last star to fall back to, 0 before the first.  A
\* fall back takes the target's cursor to the mark and leaves the pattern's alone.
MaCursors == [px : Nat, tx : Nat, star : Nat, mark : Nat]
MaAt(px, tx, star, mark) == [px |-> px, tx |-> tx, star |-> star, mark |-> mark]

MaGlobStar(pattern, target) ==
  LET Loop[s \in MaCursors] ==
        IF s.tx > Len(target) THEN \A k \in s.px..Len(pattern) : pattern[k] = "*"
        ELSE IF s.px <= Len(pattern) /\ pattern[s.px] \in {"?", target[s.tx]}
          THEN Loop[MaAt(s.px + 1, s.tx + 1, s.star, s.mark)]
        ELSE IF s.px <= Len(pattern) /\ pattern[s.px] = "*" THEN Loop[MaAt(s.px + 1, s.tx, s.px, s.tx)]
        ELSE s.star # 0 /\ Loop[MaAt(s.px, s.mark + 1, s.star, s.mark + 1)] IN
  Loop[MaAt(1, 1, 0, 0)]

\* matchPattern: nothing and "*" match everything, "dir/**" also dir itself.
\* (Mutant: without the directory itself.)
MaPatternInside(pattern, target) == pattern = <<>> \/ MaGlobStar(pattern, target)

MaPattern(pattern, target) ==
  LET n == Len(pattern) - 3
      prefix == SubSeq(pattern, 1, n) IN
  \/ pattern \in {<<>>, <<"*">>}
  \/ n >= 0 /\ SubSeq(pattern, n + 1, n + 3) = <<"/", "*", "*">>
            /\ (target = prefix \/ IsPrefix(Append(prefix, "/"), target))
  \/ MaGlobStar(pattern, target)

\* Letter by letter, "?" for any one.
MaStraight(pattern, target) ==
  Len(pattern) = Len(target) /\ \A i \in DOMAIN pattern : pattern[i] \in {"?", target[i]}

\* A pattern without a star means what it matches; whatever another one matches agrees
\* with it up to its first star; and no target it means is missed, unless the target has
\* a star of its own: the loop compares letters before it looks for a star, and takes
\* the one for the other.  Behind a star it matches more than is meant, because a fall
\* back leaves the pattern's cursor where it was.
MaPatternRight(x) ==
  LET p == x.pattern
      t == x.target IN
  /\ p # <<>> /\ "*" \notin ToSet(p) => (MaPattern(p, t) <=> MaStraight(p, t))
  /\ MaGlobStar(p, t) => \A i \in DOMAIN p : (\A k \in 1..i : p[k] # "*") => i \in DOMAIN t /\ p[i] \in {"?", t[i]}
  /\ MaMeans(p, t, TRUE) /\ "*" \notin ToSet(t) => MaPattern(p, t)
  /\ MaPattern(p \o <<"/", "*", "*">>, p)

-----------------------------------------------------------------------------
\* Evaluate: over the rules of all the sets in order, the last that matches decides;
\* a rule is [tool, on, act], on the set of targets its pattern matches.
\* (Mutant: a verdict once found stays.)
MaEvaluateFirst(tool, target, sets) ==
  FoldLeft(LAMBDA verdict, r : IF verdict = "ask" /\ r.tool \in {"*", tool} /\ target \in r.on THEN r.act ELSE verdict,
           "ask", FlattenSeq(sets))

MaEvaluate(tool, target, sets) ==
  FoldLeft(LAMBDA verdict, r : IF r.tool \in {"*", tool} /\ target \in r.on THEN r.act ELSE verdict,
           "ask", FlattenSeq(sets))

MaAll == {"t", "u"}
MaBuild == <<[tool |-> "*", on |-> MaAll, act |-> "allow"]>>
MaPlan(readers) == <<[tool |-> "*", on |-> MaAll, act |-> "deny"]>>
                   \o [i \in DOMAIN readers |-> [tool |-> readers[i], on |-> MaAll, act |-> "allow"]]
MaApproved(tool, target) == <<[tool |-> tool, on |-> {target}, act |-> "allow"]>>

\* A plan lets nothing but its readers through, whatever was permitted before it; an
\* approval of the session wins for its target alone; no rule means asking.
MaEvaluateRight(x) ==
  LET before == MaEvaluate(x.tool, x.target, <<x.rules>>)
      plan == MaPlan(<<"read", "find">>) IN
  /\ MaEvaluate(x.tool, x.target, <<x.rules, plan>>) = (IF x.tool \in {"read", "find"} THEN "allow" ELSE "deny")
  /\ MaEvaluate(x.tool, x.target, <<x.rules, MaApproved("read", "t")>>)
       = (IF x.tool = "read" /\ x.target = "t" THEN "allow" ELSE before)
  /\ MaEvaluate(x.tool, x.target, <<x.rules, MaBuild>>) = "allow"
  /\ before # "ask" => \E i \in DOMAIN x.rules : x.rules[i].act = before

\* TargetFor: the first of path, file, command, cwd and url that is a text.
MaArgs == <<"path", "file", "command", "cwd", "url">>
MaTargetFor(args) == LET has == {i \in DOMAIN MaArgs : MaArgs[i] \in args} IN
  IF has = {} THEN "*" ELSE MaArgs[CHOOSE i \in has : \A j \in has : i <= j]

MaTargetForRight(x) == MaTargetFor(x.args) \in x.args \/ (x.args = {} /\ MaTargetFor(x.args) = "*")

-----------------------------------------------------------------------------
\* matchScope: the parts between the stars; the first and the last are anchored, the
\* others are looked for from the left in what lies between.
MaSplit(pattern) ==
  FoldLeft(LAMBDA parts, c : IF c = "*" THEN Append(parts, <<>>) ELSE Front(parts) \o <<Append(Last(parts), c)>>, <<(<<>>)>>, pattern)

MaFind(part, text) ==    \* what follows the first place of part in text: one text or none
  LET at == {i \in 1..(Len(text) - Len(part) + 1) : SubSeq(text, i, i + Len(part) - 1) = part} IN
  {SubSeq(text, i + Len(part), Len(text)) : i \in {k \in at : \A j \in at : k <= j}}

MaScope(pattern, method) ==
  LET parts == MaSplit(pattern)
      first == Head(parts)
      rest == SubSeq(method, Len(first) + 1, Len(method))
      last == Last(parts)
      inner == SubSeq(rest, 1, Len(rest) - Len(last))
      Eat(texts, part) == UNION {MaFind(part, text) : text \in texts} IN
  IF Len(parts) = 1 THEN pattern = method
  ELSE /\ IsPrefix(first, method) /\ IsSuffix(last, rest)
       /\ FoldLeft(Eat, {inner}, SubSeq(parts, 2, Len(parts) - 1)) # {}

\* RolePolicy.Check: without roles everything, a role nobody named nothing.
MaCheck(roles, role, method) ==
  roles = <<>> \/ (role \in DOMAIN roles /\ \E p \in roles[role] : MaScope(p, method))

MaScopeRight(x) ==
  /\ MaScope(x.pattern, x.target) = MaMeans(x.pattern, x.target, FALSE)
  /\ \A role \in {"viewer", "nobody"} :
       MaCheck([viewer |-> {x.pattern}], role, x.target) = (role = "viewer" /\ MaMeans(x.pattern, x.target, FALSE))

-----------------------------------------------------------------------------
\* hooks: a key and an event's key and family are their segments.
MaHook(key, ev) ==
  /\ key # <<>>
  /\ \/ key \in {ev.key, ev.family}
     \/ ev.key # <<>> /\ IsStrictPrefix(key, ev.key)
     \/ ev.family # <<>> /\ ev.family # ev.key /\ IsStrictPrefix(key, ev.family)

\* Trigger: the handlers that match, in the order of registration, a panic no
\* obstacle; "" is a handler with nothing to say.
MaTrigger(handlers, ev) ==
  FoldLeft(LAMBDA out, h : IF MaHook(h.key, ev) /\ h.does # "" THEN Append(out, h.does) ELSE out, <<>>, handlers)

MaHookRight(x) ==
  LET said == MaTrigger(x.handlers, x.ev) IN
  /\ \A i \in DOMAIN x.handlers : LET key == x.handlers[i].key IN
       MaHook(key, x.ev) = (key # <<>> /\ (IsPrefix(key, x.ev.key) \/ IsPrefix(key, x.ev.family)))
  /\ Len(said) = Cardinality({i \in DOMAIN x.handlers : x.handlers[i].does # "" /\ MaHook(x.handlers[i].key, x.ev)})

-----------------------------------------------------------------------------
\* Telegram: group policy and the allowlists.
MaGroupAllowed(mode, listed, kind) ==
  \/ kind = "private"
  \/ CASE mode = "disabled" -> FALSE [] mode = "allowlist" -> listed [] OTHER -> TRUE

\* ShouldMention: any group that requires a mention requires it of every text.
MaShouldMention(named, mentioned, groups) == ~named \/ mentioned \/ "required" \notin groups

\* A direct chat is never shut out, a group is when the policy says so or nobody
\* listed it, and a text that names the bot always passes.
MaChatRight(x) ==
  /\ MaGroupAllowed(x.mode, x.listed, "private")
  /\ MaGroupAllowed(x.mode, x.listed, "group") => x.mode # "disabled" /\ (x.mode = "allowlist" => x.listed)
  /\ x.mentioned => MaShouldMention(x.named, x.mentioned, x.groups)
  /\ x.named /\ MaShouldMention(x.named, x.mentioned, x.groups) => x.mentioned \/ x.groups \subseteq {"free"}

-----------------------------------------------------------------------------
MaGlobs == {[fn |-> "pattern", pattern |-> p, target |-> t] : p \in MaWords({"a", "/", "*", "?"}, MaPatterns), t \in MaWords({"a", "/", "*"}, MaTargets)}
MaRules == [tool : {"*", "read", "bash"}, on : SUBSET MaAll, act : {"allow", "ask", "deny"}]
MaKeys == {<<>>, <<"s">>, <<"s", "r">>, <<"t">>}

MaCases ==
  {[fn |-> "scope", pattern |-> p, target |-> t] : p \in MaWords({"a", "b", "*"}, MaPatterns), t \in MaWords({"a", "b"}, MaTargets)}
  \union {[fn |-> "evaluate", tool |-> t, target |-> g, rules |-> r] : t \in {"read", "bash", "find"}, g \in MaAll, r \in MaWords(MaRules, 1)}
  \union [fn : {"target"}, args : SUBSET ToSet(MaArgs)]
  \union {[fn |-> "hook", handlers |-> h, ev |-> e] : h \in MaWords([key : MaKeys, does : {"", "said", "panic"}], 2),
            e \in [key : MaKeys, family : MaKeys]}
  \union [fn : {"chat"}, mode : {"open", "disabled", "allowlist", "unknown"}, listed : BOOLEAN, named : BOOLEAN,
          mentioned : BOOLEAN, groups : SUBSET {"free", "required"}]

MaRight(x) ==
  CASE x.fn = "pattern" -> MaPatternRight(x) [] x.fn = "scope" -> MaScopeRight(x)
    [] x.fn = "evaluate" -> MaEvaluateRight(x) [] x.fn = "target" -> MaTargetForRight(x)
    [] x.fn = "hook" -> MaHookRight(x) [] x.fn = "chat" -> MaChatRight(x)
=============================================================================
