----------------------------- MODULE SkillFiles -----------------------------
(***************************************************************************)
(* Skills on disk (internal/skills): the frontmatter of a SKILL.md         *)
(* (parser.go), the card beside it (card.go), tiers of directories         *)
(* (tiers.go), profiles (profile.go) and the script a skill runs           *)
(* (exec.go).  A value is the sequence of its words.  SkCases are the      *)
(* inputs tried, SkRight what is promised of them.                         *)
(***************************************************************************)
EXTENDS Integers, Sequences, FiniteSets, SequencesExt

CONSTANT SkLines    \* bound on the lines of a file

ASSUME SkAssumption == SkLines \in Nat

SkTexts(S, n) == UNION {[1..k -> S] : k \in 0..n}

-----------------------------------------------------------------------------
\* splitFrontmatter: the lines between the first line that is not blank, when it is ---, and
\* the next --- or ...
SkSplit(lines) ==
  LET ink == {i \in DOMAIN lines : lines[i] # "blank"}
      start == CHOOSE i \in ink : \A j \in ink : i <= j
      close == {i \in DOMAIN lines : i > start /\ lines[i] \in {"---", "..."}}
      end == CHOOSE i \in close : \A j \in close : i <= j IN
  IF ink # {} /\ lines[start] = "---" /\ close # {} THEN [has |-> TRUE, fm |-> SubSeq(lines, start + 1, end - 1), body |-> SubSeq(lines, end + 1, Len(lines))]
  ELSE [has |-> FALSE, fm |-> <<>>, body |-> lines]

SkSplitRight(x) ==
  LET got == SkSplit(x.lines) IN
  /\ \A i \in DOMAIN got.fm : got.fm[i] \notin {"---", "..."}
  /\ got.has => \E k \in 0..Len(x.lines) : \E m \in {"---", "..."} :
                  x.lines = [i \in 1..k |-> "blank"] \o <<"---">> \o got.fm \o <<m>> \o got.body
  /\ ~got.has => got.body = x.lines

\* parseFrontmatter, a line at a time.  Inside params every line that is set in belongs to
\* the block; anywhere else a key counts however far it is set in.
SkFold == <<"|">>
SkEmptyMeta == [name |-> <<>>, description |-> <<>>, triggers |-> <<>>, params |-> <<>>,
                cur |-> "", inParams |-> FALSE, list |-> FALSE, last |-> ""]

SkParam(s, l) ==
  LET Set(p) == [s EXCEPT !.params = [k \in DOMAIN s.params \union {s.cur} |-> IF k = s.cur THEN p ELSE s.params[k]]] IN
  CASE l.is = "kv" /\ l.val = <<>> ->
         [s EXCEPT !.cur = l.key, !.params = [k \in DOMAIN s.params \union {l.key} |->
            IF k \in DOMAIN s.params THEN s.params[k] ELSE [type |-> <<"string">>, description |-> <<>>, required |-> FALSE]]]
    [] s.cur = "" -> s
    [] l.is = "kv" -> (CASE l.key = "type" -> Set([s.params[s.cur] EXCEPT !.type = l.val])
                         [] l.key = "description" -> Set([s.params[s.cur] EXCEPT !.description = l.val])
                         [] l.key = "required" -> Set([s.params[s.cur] EXCEPT !.required = (l.val = <<"true">>)])
                         [] OTHER -> s)
    [] OTHER -> Set([s.params[s.cur] EXCEPT !.description = @ \o l.val])

SkTop(s, l) ==
  CASE l.is # "kv" -> IF s.last = "description" /\ l.indent > 0 THEN [s EXCEPT !.description = @ \o l.val] ELSE s
    [] l.key = "name" -> [s EXCEPT !.name = @ \o l.val, !.last = "name"]
    [] l.key = "description" -> [s EXCEPT !.description = IF l.val = SkFold THEN @ ELSE @ \o l.val, !.last = "description"]
    [] l.key = "triggers" -> [s EXCEPT !.list = l.val = <<>>, !.triggers = @ \o l.val, !.last = "triggers"]
    [] l.key = "params" -> [s EXCEPT !.inParams = TRUE, !.cur = "", !.last = "params"]
    [] OTHER -> [s EXCEPT !.last = ""]

SkLine(s, l) ==
  LET in == s.inParams /\ l.indent > 0
      t == IF s.inParams /\ ~in THEN [s EXCEPT !.inParams = FALSE, !.cur = ""] ELSE s IN
  CASE l.is = "blank" -> s
    [] in -> SkParam(s, l)
    [] t.list /\ l.is = "item" -> [t EXCEPT !.triggers = @ \o l.val]
    [] t.list /\ l.indent > 0 -> t
    [] t.list /\ l.is = "kv" -> SkTop([t EXCEPT !.list = FALSE], l)
    [] OTHER -> SkTop(t, l)

SkFrontmatter(lines) == FoldLeft(SkLine, SkEmptyMeta, lines)

\* ParseFile: what the frontmatter leaves out is taken from the directory and the body.
SkFile(has, fm, dir, heading) ==
  LET m == IF has THEN SkFrontmatter(fm) ELSE SkEmptyMeta IN
  [name |-> IF m.name = <<>> THEN dir ELSE m.name, description |-> IF m.description = <<>> THEN heading ELSE m.description,
   triggers |-> m.triggers, params |-> m.params]

\* A skill reads back as it was written, in each of the ways there are to write it: a
\* description on its line or folded, triggers on a line or as a list, comments anywhere.
SkL(is, indent, key, val) == [is |-> is, indent |-> indent, key |-> key, val |-> val]
SkKV(indent, key, val) == SkL("kv", indent, key, val)
SkWrite(sk, style) ==
  LET words(v) == [k \in DOMAIN v |-> SkL("text", 2, "", <<v[k]>>)]
      rest == IF style.comments THEN <<SkL("blank", 0, "", <<>>)>> ELSE <<>>
      name == <<SkKV(0, "name", sk.name)>>
      desc == CASE style.desc = "line" -> <<SkKV(0, "description", sk.description)>>
                [] style.desc = "folded" -> <<SkKV(0, "description", SkFold)>> \o rest \o words(sk.description)
                [] OTHER -> <<SkKV(0, "description", SubSeq(sk.description, 1, 1))>> \o rest \o words(Tail(sk.description))
      trig == IF style.list THEN <<SkKV(0, "triggers", <<>>)>> \o rest \o [k \in DOMAIN sk.triggers |-> SkL("item", style.indent, "", <<sk.triggers[k]>>)]
              ELSE <<SkKV(0, "triggers", sk.triggers)>>
      Param(p) == <<SkKV(2, p, <<>>), SkKV(4, "type", sk.params[p].type), SkKV(4, "required", <<IF sk.params[p].required THEN "true" ELSE "no">>)>>
                  \o rest \o <<SkKV(4, "description", SubSeq(sk.params[p].description, 1, 1))>> \o words(Tail(sk.params[p].description))
      params == <<SkKV(0, "params", <<>>)>> \o FlattenSeq([k \in DOMAIN SetToSeq(DOMAIN sk.params) |-> Param(SetToSeq(DOMAIN sk.params)[k])])
      other == <<SkKV(0, "license", <<"MIT">>)>> IN
  CASE style.order = 1 -> name \o desc \o other \o trig \o params
    [] style.order = 2 -> params \o rest \o trig \o desc \o other \o name
    [] OTHER -> trig \o other \o params \o name \o desc

SkReadRight(x) == SkFile(TRUE, SkWrite(x.skill, x.style), <<"dir">>, <<"heading">>) = x.skill

-----------------------------------------------------------------------------
\* ParseCard: each text under the last heading before it that names a field.
SkCard(lines) ==
  LET Step(s, l) ==
        CASE l.is = "heading" -> [s EXCEPT !.cur = l.val]
          [] l.is = "text" /\ s.cur # "other" -> [s EXCEPT !.card = [f \in DOMAIN s.card |-> IF f = s.cur THEN Append(s.card[f], l.val) ELSE s.card[f]]]
          [] OTHER -> s IN
  FoldLeft(Step, [cur |-> "other", card |-> [f \in {"publisher", "risks"} |-> <<>>]], lines).card

SkCardRight(x) ==
  LET got == SkCard(x.lines)
      Under(i, f) == \E j \in 1..(i-1) : x.lines[j] = [is |-> "heading", val |-> f] /\ \A k \in (j+1)..(i-1) : x.lines[k].is # "heading"
      Texts(f) == SelectSeq([i \in DOMAIN x.lines |-> i], LAMBDA i : x.lines[i].is = "text" /\ Under(i, f)) IN
  \A f \in DOMAIN got : got[f] = [k \in DOMAIN Texts(f) |-> x.lines[Texts(f)[k]].val]

-----------------------------------------------------------------------------
\* LoadAll: the tiers in order, on what is loaded already; a directory that is missing is
\* passed over, a path that is not one ends it with what there is.
\* (Mutant: the last of a name is kept, as LoadDir does.)
SkTierLast(s, t) ==
  LET Load(r, sk) == [r EXCEPT !.skills = [n \in DOMAIN r.skills \union {sk.name} |-> IF n = sk.name THEN sk.path ELSE r.skills[n]]] IN
  IF s.failed \/ t.is = "missing" THEN s ELSE IF t.is = "file" THEN [s EXCEPT !.failed = TRUE] ELSE FoldLeft(Load, s, t.skills)

SkTier(s, t) ==
  LET Load(r, sk) == IF sk.name \in DOMAIN r.skills THEN [r EXCEPT !.warned = Append(@, sk.path)]
                     ELSE [r EXCEPT !.skills = [n \in DOMAIN r.skills \union {sk.name} |-> IF n = sk.name THEN sk.path ELSE r.skills[n]]] IN
  CASE s.failed \/ t.is = "missing" -> s
    [] t.is = "file" -> [s EXCEPT !.failed = TRUE]
    [] OTHER -> FoldLeft(Load, s, t.skills)
SkLoadAll(tiers, loaded) == FoldLeft(SkTier, [skills |-> loaded, warned |-> <<>>, failed |-> FALSE], tiers)

\* The earliest tier wins, whatever comes later, and a skill passed over is told of.
SkTiersRight(x) ==
  LET got == SkLoadAll(x.tiers, <<>>)
      bad == {i \in DOMAIN x.tiers : x.tiers[i].is = "file"}
      reached == {i \in DOMAIN x.tiers : x.tiers[i].is = "dir" /\ \A j \in bad : i < j}
      Has(i, n) == \E k \in DOMAIN x.tiers[i].skills : x.tiers[i].skills[k].name = n
      all == FlattenSeq([i \in DOMAIN x.tiers |-> IF i \in reached THEN x.tiers[i].skills ELSE <<>>]) IN
  /\ DOMAIN got.skills = {sk.name : sk \in ToSet(all)} /\ got.failed = (bad # {})
  /\ \A n \in DOMAIN got.skills : \E i \in reached : \E k \in DOMAIN x.tiers[i].skills :
       /\ x.tiers[i].skills[k] = [name |-> n, path |-> got.skills[n]]
       /\ \A j \in reached : Has(j, n) => i <= j
  /\ Len(got.warned) + Cardinality(DOMAIN got.skills) = Len(all)
  /\ SkLoadAll(x.tiers, got.skills).skills = got.skills

\* Profile.Filter: the tools allowed that there are, and a warning for each other name.
SkFilter(have, allow) ==
  LET Step(s, n) == IF n \in s.seen THEN s
                    ELSE [seen |-> s.seen \union {n}, kept |-> IF n \in have THEN s.kept \union {n} ELSE s.kept,
                          warned |-> IF n \in have THEN s.warned ELSE Append(s.warned, n)] IN
  FoldLeft(Step, [seen |-> {}, kept |-> {}, warned |-> <<>>], allow)
SkFilterRight(x) ==
  LET got == SkFilter(x.have, x.allow) IN
  got.kept = ToSet(x.allow) \intersect x.have /\ ToSet(got.warned) = ToSet(x.allow) \ x.have /\ IsInjective(got.warned)

-----------------------------------------------------------------------------
\* extractShBlock: the first fenced block of a shell's, else the first without a language;
\* a block with nothing in it is passed over, and one without an end ends the search.
SkShBlock(lines) ==
  LET Trim(b) == LET ink == {i \in DOMAIN b : b[i].is # "blank"} IN
                   IF ink = {} THEN <<>> ELSE SubSeq(b, CHOOSE i \in ink : \A j \in ink : i <= j, CHOOSE i \in ink : \A j \in ink : i >= j)
      Step(s, l) ==
        CASE s.found # <<>> -> s
          [] l.is # "fence" -> [s EXCEPT !.blk = IF s.open THEN Append(@, l) ELSE <<>>]
          [] ~s.open -> [s EXCEPT !.open = TRUE, !.lang = l.val, !.blk = <<>>]
          [] s.lang = "sh" -> [s EXCEPT !.open = FALSE, !.found = Trim(s.blk)]
          [] s.lang = "" /\ s.bare = <<>> -> [s EXCEPT !.open = FALSE, !.bare = Trim(s.blk)]
          [] OTHER -> [s EXCEPT !.open = FALSE]
      end == FoldLeft(Step, [open |-> FALSE, lang |-> "", blk |-> <<>>, found |-> <<>>, bare |-> <<>>], lines) IN
  IF end.found # <<>> THEN end.found ELSE end.bare

SkShBlockRight(x) ==
  LET got == SkShBlock(x.lines)
      fences == SelectSeq([i \in DOMAIN x.lines |-> i], LAMBDA i : x.lines[i].is = "fence")
      Block(k) == SubSeq(x.lines, fences[2*k-1] + 1, fences[2*k] - 1)
      Ink(k) == \E i \in DOMAIN Block(k) : Block(k)[i].is # "blank"
      Of(lang) == {k \in 1..(Len(fences) \div 2) : x.lines[fences[2*k-1]].val = lang /\ Ink(k)}
      use == IF Of("sh") # {} THEN Of("sh") ELSE Of("") IN
  /\ got = <<>> <=> use = {}
  /\ got # <<>> => LET k == CHOOSE k \in use : \A j \in use : k <= j IN
       SelectSeq(got, LAMBDA l : l.is # "blank") = SelectSeq(Block(k), LAMBDA l : l.is # "blank") /\ got[1].is # "blank" /\ Last(got).is # "blank"

\* ScriptTool.Execute: the script beside the skill or the block in it; the arguments in the
\* order of their names, of which those with one variable leave it to the last.
SkEnvKey(k) ==
  LET up == [i \in DOMAIN k |-> CASE k[i] = "a" -> "A" [] k[i] \in {"-", " "} -> "_" [] OTHER -> k[i]]
      ink == {i \in DOMAIN up : up[i] # "_"} IN
  IF ink = {} THEN <<"ARG">> ELSE SubSeq(up, CHOOSE i \in ink : \A j \in ink : i <= j, CHOOSE i \in ink : \A j \in ink : i >= j)
SkEnv(args) ==
  LET Put(e, a) == [k \in DOMAIN e \union {SkEnvKey(a.key)} |-> IF k = SkEnvKey(a.key) THEN a.val ELSE e[k]] IN FoldLeft(Put, <<>>, args)
SkExecute(file, block, args, end) ==
  LET script == IF file THEN "run.sh" ELSE IF block THEN "block" ELSE "" IN
  IF script = "" THEN [err |-> "no script", ran |-> "", env |-> <<>>]
  ELSE [err |-> CASE end = "late" -> "timed out" [] end = "exit 1" -> "failed" [] OTHER -> "", ran |-> script, env |-> SkEnv(args)]

\* An argument reaches the script, unless another has its variable.
SkExecuteRight(x) ==
  LET got == SkExecute(x.file, x.block, x.args, x.end) IN
  /\ got.ran = "" <=> ~x.file /\ ~x.block
  /\ got.err = "" <=> got.ran # "" /\ x.end = "exit 0"
  /\ got.ran # "" => \A i \in DOMAIN x.args :
       /\ SkEnvKey(x.args[i].key) \in DOMAIN got.env
       /\ (\A j \in DOMAIN x.args : SkEnvKey(x.args[j].key) = SkEnvKey(x.args[i].key) => j <= i) => got.env[SkEnvKey(x.args[i].key)] = x.args[i].val

-----------------------------------------------------------------------------
SkSkills ==
  [name : {<<"deploy">>, <<"my", "skill">>}, description : {<<"what">>, <<"what", "it", "does">>}, triggers : {<<"go">>, <<"go", "on">>},
   params : UNION {[S -> [type : {<<"int">>}, description : {<<"how">>, <<"how", "many">>}, required : BOOLEAN]] : S \in {{"n"}, {"n", "m"}}}]
SkStyles == [desc : {"line", "folded", "continued"}, list : BOOLEAN, indent : {0, 2}, comments : BOOLEAN, order : 1..3]
SkCardLines == [is : {"heading"}, val : {"publisher", "risks", "other"}] \union [is : {"text", "blank"}, val : {"t"}]
SkBodyLines == [is : {"fence"}, val : {"sh", "py", ""}] \union [is : {"text", "blank"}, val : {"t"}]
SkTierSet == {[is |-> "missing", skills |-> <<>>], [is |-> "file", skills |-> <<>>]}
             \union [is : {"dir"}, skills : SkTexts([name : {"s", "t"}, path : {1, 2}], 2)]
SkArg(k, v) == [key |-> k, val |-> v]

SkCases ==
  [fn : {"split"}, lines : SkTexts({"---", "...", "blank", "text"}, SkLines)]
  \union [fn : {"read"}, skill : SkSkills, style : SkStyles]
  \union [fn : {"card"}, lines : SkTexts(SkCardLines, SkLines)]
  \union [fn : {"tiers"}, tiers : SkTexts(SkTierSet, 2)]
  \union [fn : {"filter"}, have : SUBSET {"read", "bash"}, allow : SkTexts({"read", "bash", "gone"}, 3)]
  \union [fn : {"block"}, lines : SkTexts(SkBodyLines, SkLines)]
  \union [fn : {"execute"}, file : BOOLEAN, block : BOOLEAN, end : {"exit 0", "exit 1", "late"},
          args : {<<>>, <<SkArg(<<"-">>, 1)>>, <<SkArg(<<"a", "-", "a">>, 1), SkArg(<<"a", "_", "a">>, 2)>>, <<SkArg(<<"a">>, 1), SkArg(<<"b">>, 2)>>}]

SkRight(x) ==
  CASE x.fn = "split" -> SkSplitRight(x) [] x.fn = "read" -> SkReadRight(x) [] x.fn = "card" -> SkCardRight(x) [] x.fn = "tiers" -> SkTiersRight(x)
    [] x.fn = "filter" -> SkFilterRight(x) [] x.fn = "block" -> SkShBlockRight(x) [] x.fn = "execute" -> SkExecuteRight(x)
=============================================================================
