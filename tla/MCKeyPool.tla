----------------------------- MODULE MCKeyPool -----------------------------
(* Three scenarios.  "crowd": three callers on one key, with every answer.    *)
(* "probe": two callers on it beside the prober.  In both the other key was   *)
(* killed by a 401 in an earlier call.  "choice": two callers and two good    *)
(* keys, with at most MaxRow failures in a row, so that a call that failed    *)
(* picks again among keys it has tried and keys it has not.  A fast and a     *)
(* slow latency, on either side of the 3000 ms limit and of the 500 ms prior. *)
EXTENDS KeyPool

CONSTANTS c1, c2, c3, k1, k2,
          MaxRow    \* bound: failures in a row of a key in "choice"

ThreeCallers == {c1, c2, c3}
TwoKeys      == {k1, k2}
MCRank       == [k \in Keys |-> IF k = k1 THEN 1 ELSE 2]
FastAndSlow  == {200, 4000}
AllAnswers   == Outcomes

VARIABLE scenario

mcVars == <<vars, scenario>>

\* What one call that was answered 401 leaves of its key.
Killed(k) ==
  /\ state = [j \in Keys |-> IF j = k THEN "Dead" ELSE "Healthy"]
  /\ fails = [j \in Keys |-> IF j = k THEN 1 ELSE 0]

MCInit ==
  /\ scenario \in {"crowd", "choice", "probe"}
  /\ IF scenario # "choice" THEN Killed(k2) ELSE state = [k \in Keys |-> "Healthy"] /\ fails = [k \in Keys |-> 0]
  /\ future   = [k \in Keys |-> FALSE]
  /\ inFlight = [k \in Keys |-> 0]
  /\ ema      = [k \in Keys |-> 0]
  /\ sampled  = [k \in Keys |-> FALSE]
  /\ pc       = [c \in Callers |-> "idle"]
  /\ key      = [c \in Callers |-> NoKey]
  /\ tried    = [c \in Callers |-> 0]
  /\ scan     = {}
  /\ probing  = NoKey

\* What each scenario leaves out.
Narrow ==
  /\ scenario # "probe" => scan' = {}
  /\ scenario # "crowd" => pc'[c3] = "idle"
  /\ scenario = "choice" => \A k \in Keys : fails'[k] <= MaxRow

MCNext == Next /\ UNCHANGED scenario /\ Narrow

MCSpec == MCInit /\ [][MCNext]_mcVars /\ Fairness
=============================================================================
