----------------------------- MODULE Timetable ------------------------------
(***************************************************************************)
(* When things are due and whether a heartbeat has anything to say: cron   *)
(* schedules (internal/cron/cron.go), the jobs that are due (jobs.go), the *)
(* heartbeat's intervals, hours and silence (internal/daemon/heartbeat2.go,*)
(* heartbeat.go, scheduler.go, termux.go).  TtCases are the inputs tried,  *)
(* TtRight what is promised of them.                                       *)
(*                                                                         *)
(* The calendar is a short one: instants 1, 2, ... are minutes, two to the *)
(* hour, two hours to the day, three days to the month, and a week of two  *)
(* days; a schedule is the sets of the values that its fields allow.       *)
(***************************************************************************)
EXTENDS Integers, Sequences, FiniteSets, SequencesExt

CONSTANTS
  TtHorizon    \* bound on the instants, and how far ahead Next looks

ASSUME TtAssumption == TtHorizon \in Nat

TtTexts(S, n) == UNION {[1..k -> S] : k \in 0..n}

-----------------------------------------------------------------------------
\* parseField over parts [base, a, b, step] of a list: base is a star, a range or a
\* value, step 0 when there is none and negative when it is no number above zero.
TtPart(p, min, max) ==
  LET lo == IF p.base = "*" THEN min ELSE p.a
      hi == CASE p.base = "*" -> max [] p.base = "range" -> p.b [] OTHER -> IF p.step > 0 THEN max ELSE p.a
      step == IF p.step <= 0 THEN 1 ELSE p.step IN
  [bad |-> p.step < 0 \/ lo < min \/ hi > max \/ (p.base = "range" /\ lo > hi), set |-> {v \in lo..hi : (v - lo) % step = 0}]

TtField(parts, min, max) ==
  LET read == [i \in DOMAIN parts |-> TtPart(parts[i], min, max)]
      all == UNION {read[i].set : i \in DOMAIN read} IN
  IF all = {} \/ \E i \in DOMAIN read : read[i].bad THEN [error |-> TRUE, set |-> {}, star |-> FALSE]
  ELSE [error |-> FALSE, set |-> all,
        star |-> (\E i \in DOMAIN parts : parts[i].base = "*" /\ parts[i].step = 0) /\ Cardinality(all) = max - min + 1]

\* What is accepted allows something, nothing out of range, and a star everything; what
\* is refused has a part that is wrong by itself.  A value above the range with a step
\* is no error: it allows nothing, unnoticed in a list.
TtFieldRight(x) ==
  LET got == TtField(x.parts, x.min, x.max) IN
  /\ ~got.error => got.set # {} /\ got.set \subseteq x.min..x.max /\ (got.star => got.set = x.min..x.max)
  /\ got.error => x.parts = <<>> \/ \E i \in DOMAIN x.parts : TtField(<<x.parts[i]>>, x.min, x.max).error
  /\ ~got.error => \A i \in DOMAIN x.parts : LET p == x.parts[i] IN
       p.base # "*" => p.a \in got.set \/ (p.base = "value" /\ p.a > x.max /\ p.step > 0)

\* Parse: the weekdays 0 and 7 are both Sunday.
TtSunday(dow) == IF 7 \in dow THEN (dow \ {7}) \union {0} ELSE dow

\* fieldValue: a name, whatever its case, else a number.
TtNames == [SUN |-> 0, MON |-> 1, JAN |-> 1, DEC |-> 12]
TtValue(token) == IF token.text \in DOMAIN TtNames THEN TtNames[token.text] ELSE token.number

TtWeekRight(x) ==
  LET days == TtField(<<[base |-> "range", a |-> x.a, b |-> x.b, step |-> 0]>>, 0, 7) IN
  ~days.error => /\ TtSunday(days.set) \subseteq 0..6
                 /\ TtSunday(days.set) = {d % 7 : d \in x.a..x.b}
                 /\ TtValue([text |-> "SUN", number |-> -1]) = 0

-----------------------------------------------------------------------------
\* The short calendar.
TtMinute(t) == t % 2
TtHour(t) == (t \div 2) % 2
TtDay(t) == (t \div 4) % 3
TtMonth(t) == (t \div 12) % 2
TtWeekday(t) == (t \div 4) % 2

\* Matches: with both days restricted either will do, else the one that is.
TtMatches(s, t) ==
  /\ TtMinute(t) \in s.minutes /\ TtHour(t) \in s.hours /\ TtMonth(t) \in s.months
  /\ CASE s.domStar /\ s.dowStar -> TRUE
       [] s.domStar -> TtWeekday(t) \in s.dow
       [] s.dowStar -> TtDay(t) \in s.dom
       [] OTHER -> TtDay(t) \in s.dom \/ TtWeekday(t) \in s.dow

\* Next: minute by minute from the one after, 0 when none matches before the horizon.
TtNextTime(s, from) ==
  LET Loop[t \in Nat] == IF t > from + TtHorizon THEN 0 ELSE IF TtMatches(s, t) THEN t ELSE Loop[t + 1] IN
  Loop[from + 1]

\* Due.  (Mutant: only the minute it is looked at counts.)
TtDueAtTheMinute(s, last, now) == now > last /\ TtMatches(s, now)

TtDue(s, last, now) == now > last /\ TtNextTime(s, last) # 0 /\ TtNextTime(s, last) <= now

\* Due says whether a minute of the schedule lies behind last and not behind now; a
\* watcher that marks every run and looks at any times misses none and runs none
\* twice: between two looks it runs just when a minute of the schedule lies between.
TtDueRight(x) ==
  LET s == x.s
      Between(a, b) == {t \in (a+1)..b : TtMatches(s, t)} IN
  /\ TtDue(s, x.last, x.now) = (x.now > x.last /\ Between(x.last, x.now) # {})
  /\ TtNextTime(s, x.last) # 0 => TtNextTime(s, x.last) > x.last /\ TtMatches(s, TtNextTime(s, x.last))
  /\ \A mid \in x.last..x.now : ~TtDue(s, x.last, mid) => TtDue(s, x.last, x.now) = TtDue(s, mid, x.now)

\* Registry.Due and MarkRan over jobs [id, s, last]; List has the newest first.
TtDueJobs(jobs, now) == {j.id : j \in {k \in ToSet(jobs) : TtDue(k.s, k.last, now)}}
TtMarkRan(jobs, id, t) == [i \in DOMAIN jobs |-> IF jobs[i].id = id THEN [jobs[i] EXCEPT !.last = t] ELSE jobs[i]]
TtListed(jobs) == SortSeq(jobs, LAMBDA a, b : a.created > b.created)

\* A job that ran is due no more and the others' turns do not change.
TtJobsRight(x) ==
  LET jobs == [i \in DOMAIN x.jobs |-> [id |-> i, s |-> x.jobs[i], last |-> 0, created |-> i]]
      later == TtMarkRan(jobs, 1, x.now) IN
  /\ TtDueJobs(later, x.now) = TtDueJobs(jobs, x.now) \ {1}
  /\ [i \in DOMAIN jobs |-> TtListed(jobs)[i].id] = Reverse([i \in DOMAIN jobs |-> i])

-----------------------------------------------------------------------------
\* Runner.Due: before the first run, or so long after the last; phase is below every.
TtRunnerDue(r, first, elapsed) ==
  \/ first
  \/ /\ elapsed >= 0 /\ elapsed >= r.cooldown
     /\ LET want == r.every + (IF r.every <= 0 THEN 0 ELSE r.phase) IN want <= 0 \/ elapsed >= want

\* A clock set back silences it; runs keep both distances, and after twice the interval
\* and the cooldown one is due.
TtRunnerRight(x) ==
  LET due == TtRunnerDue(x.r, FALSE, x.elapsed) IN
  /\ due => x.elapsed >= 0 /\ x.elapsed >= x.r.cooldown /\ x.elapsed >= x.r.every
  /\ x.elapsed >= x.r.cooldown /\ x.elapsed >= 2 * x.r.every /\ x.elapsed >= 0 => due
  /\ due => TtRunnerDue(x.r, FALSE, x.elapsed + 1)

\* parseActiveHours and InActiveHours; an hour that is no hour leaves it active.
TtHourOk(h) == h \in 0..23
TtActive(start, end, hour) ==
  \/ ~TtHourOk(start) \/ ~TtHourOk(end) \/ start = end
  \/ IF start < end THEN hour >= start /\ hour < end ELSE hour >= start \/ hour < end

\* A window is active for as many hours as it is long, and what it leaves out is the
\* window the other way round.
TtActiveRight(x) ==
  LET on == {h \in 0..23 : TtActive(x.start, x.end, h)} IN
  /\ TtHourOk(x.start) /\ TtHourOk(x.end) /\ x.start # x.end =>
       /\ on = {(x.start + k) % 24 : k \in 0..((x.end - x.start - 1) % 24)}
       /\ on = (0..23) \ {h \in 0..23 : TtActive(x.end, x.start, h)}
  /\ on # {}

\* ParseEvery and ThrottleForBattery, in minutes; a bad text is no number above zero.
TtEvery(text) == IF text <= 0 THEN 15 ELSE text
TtThrottle(pct, base) == IF pct < 10 THEN 6 * base ELSE IF pct < 20 THEN 3 * base ELSE base
TtVisible(account, channel, default) == IF account # "unset" THEN account ELSE IF channel # "unset" THEN channel ELSE default

\* An emptier battery never makes it beat more often, and it always beats.
TtPaceRight(x) ==
  LET Pace(pct) == TtThrottle(pct, TtEvery(x.every)) IN
  /\ Pace(x.pct) > 0 /\ Pace(x.pct) >= Pace(x.pct + 1)
  /\ TtVisible(x.account, x.channel, "no") = "yes" => "yes" \in {x.account, x.channel}

-----------------------------------------------------------------------------
\* stripHTMLComments: from each opener to the next closer, or to the end.
TtStrip(text) ==
  LET n == Len(text)
      First(k, from) == LET at == {i \in from..n : text[i] = k} IN IF at = {} THEN 0 ELSE CHOOSE i \in at : \A j \in at : i <= j
      Keep[from \in Nat] ==
        LET open == First("<!--", from)
            close == First("-->", open + 1) IN
        IF open = 0 THEN SubSeq(text, from, n)
        ELSE SubSeq(text, from, open - 1) \o IF close = 0 THEN <<>> ELSE Keep[close + 1] IN
  Keep[1]

\* isATXHeader, isHR and parseCheckbox of a line without blanks around it.
TtHeader(line) ==
  LET hashes == {i \in 0..Len(line) : \A j \in 1..i : line[j] = "#"}
      i == Cardinality(hashes) - 1 IN
  i \in 1..6 /\ (i = Len(line) \/ line[i + 1] = " ")

TtRule(line) == LET s == SelectSeq(line, LAMBDA c : c # " ") IN
  Len(s) >= 3 /\ s[1] \in {"-", "*", "_"} /\ \A i \in DOMAIN s : s[i] = s[1]

TtTrim(line) == LET ink == {i \in DOMAIN line : line[i] # " "} IN
  IF ink = {} THEN <<>> ELSE SubSeq(line, CHOOSE i \in ink : \A j \in ink : i <= j, CHOOSE i \in ink : \A j \in ink : i >= j)

TtBox(line) ==
  LET after == TtTrim(Tail(line)) IN
  IF line = <<>> \/ line[1] \notin {"-", "*", "+"} \/ Len(after) < 3 \/ after[1] # "[" \/ after[3] # "]" \/ after[2] \notin {" ", "x"}
    THEN "none"
  ELSE IF after[2] = "x" /\ TtTrim(SubSeq(after, 4, Len(after))) # <<>> THEN "done" ELSE "open"

\* IsEmptyContent over lines that are fences, kinds of line or the ends of a comment.
TtIsEmpty(text) ==
  LET Step(s, line) ==
        CASE line = "fence" -> [s EXCEPT !.fence = ~@]
          [] s.fence \/ line \in {"blank", "header", "rule", "open"} -> s
          [] OTHER -> [s EXCEPT !.empty = FALSE] IN
  FoldLeft(Step, [fence |-> FALSE, empty |-> TRUE], TtStrip(text)).empty

\* What is silent has nothing but scaffolding: prose before any fence or comment is
\* always told, and so is prose after a comment that ended.
TtSilenceRight(x) ==
  LET n == Len(x.text)
      Shown[i \in 0..n] ==     \* what the reader of the text sees, with its own memory
        IF i = 0 THEN [in |-> FALSE, fence |-> FALSE, seen |-> FALSE]
        ELSE LET s == Shown[i-1]
                 c == x.text[i] IN
             CASE s.in -> [s EXCEPT !.in = (c # "-->")]
               [] c = "<!--" -> [s EXCEPT !.in = TRUE]
               [] c = "fence" -> [s EXCEPT !.fence = ~@]
               [] OTHER -> [s EXCEPT !.seen = @ \/ (~s.fence /\ c \in {"prose", "done", "-->"})] IN
  TtIsEmpty(x.text) = ~Shown[n].seen

\* A line has one reading, and only a marked item with words counts as content.
TtLineRight(x) ==
  LET line == TtTrim(x.line) IN
  /\ ~(TtHeader(line) /\ TtRule(line)) /\ ~(TtHeader(line) /\ TtBox(line) # "none")
  /\ TtRule(line) => TtBox(line) = "none"
  /\ TtBox(line) = "done" => "x" \in ToSet(line)

-----------------------------------------------------------------------------
TtParts == [base : {"*", "range", "value"}, a : {0, 2, 5}, b : {1, 4}, step : {-1, 0, 2}]
TtSchedules == [minutes : {{0}, {0, 1}}, hours : {{1}, {0, 1}}, months : {{0}, {0, 1}, {}}, dom : {{2}, {0, 1, 2}}, dow : {{1}, {0, 1}},
                domStar : BOOLEAN, dowStar : BOOLEAN]

TtCases ==
  [fn : {"week"}, a : 0..7, b : 0..8]
  \union [fn : {"jobs"}, jobs : TtTexts({s \in TtSchedules : s.dom = {2} /\ s.dow = {1} /\ ~s.domStar /\ ~s.dowStar}, 2) \ {<<>>}, now : {0, 5, 20}]
  \union [fn : {"silence"}, text : TtTexts({"<!--", "-->", "fence", "header", "prose", "done"}, 4)]
  \union [fn : {"line"}, line : TtTexts({"#", " ", "a"}, 3) \union [1..6 -> {"-", " ", "[", "x", "]"}]]

\* Those of when: fields, minutes, intervals and hours.
TtClockCases ==
  [fn : {"field"}, parts : TtTexts(TtParts, 2), min : {0, 1}, max : {4}]
  \union [fn : {"due"}, s : {s \in TtSchedules : (s.domStar => s.dom = {0, 1, 2}) /\ (s.dowStar => s.dow = {0, 1})},
          last : {0, 3, 11}, now : 0..TtHorizon]
  \union [fn : {"runner"}, r : {r \in [every : {-1, 0, 3, 4}, cooldown : {0, 2, 9}, phase : 0..3] : r.phase = 0 \/ r.phase < r.every}, elapsed : -1..12]
  \union [fn : {"active"}, start : {-1, 0, 9, 22, 23, 24}, end : {-1, 0, 6, 17, 23}]
  \union [fn : {"pace"}, every : {-1, 0, 30}, pct : 0..25, account : {"unset", "yes", "no"}, channel : {"unset", "yes", "no"}]

TtRight(x) ==
  CASE x.fn = "field" -> TtFieldRight(x) [] x.fn = "week" -> TtWeekRight(x) [] x.fn = "due" -> TtDueRight(x)
    [] x.fn = "jobs" -> TtJobsRight(x) [] x.fn = "runner" -> TtRunnerRight(x) [] x.fn = "active" -> TtActiveRight(x)
    [] x.fn = "pace" -> TtPaceRight(x) [] x.fn = "silence" -> TtSilenceRight(x) [] x.fn = "line" -> TtLineRight(x)
=============================================================================
