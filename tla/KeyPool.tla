------------------------------ MODULE KeyPool ------------------------------
(***************************************************************************)
(* internal/llm/pool: pool.go, prober.go.  Goroutines call Complete on a   *)
(* shared set of API keys.  A call picks the best usable key, marks it in  *)
(* flight, waits for the provider outside every lock, reports the outcome  *)
(* and, on a failure, picks again.  A background prober re-examines the    *)
(* keys whose cooldown has expired; it too waits outside the locks.        *)
(*                                                                         *)
(* Each critical section on k.mu is one step, and Pick (all of it under    *)
(* p.mu) is one.  A cooldown deadline is either in the future or not;      *)
(* Elapse moves it.  Latency averages range over Latencies: a success or a *)
(* revival moves a key's average to any of them.  Consecutive failures     *)
(* above NetTrip are indistinguishable to the code and saturate there.     *)
(***************************************************************************)
EXTENDS Integers, FiniteSets

CONSTANTS Callers,    \* goroutines calling Pool.Complete or Pool.Chat
          Keys, NoKey,
          Rank,       \* position of a key in p.keys: breaks ties in Pick
          Latencies,  \* values of a latency average, in ms
          Answers,    \* what the providers may do to a call, see Outcomes
          HttpTrip,   \* consecutive failures that trip on a 5xx (3 in the code)
          NetTrip,    \* and on any other failure (5 in the code)
          Prober      \* "off", "nil" (no ProbeFunc) or "models" (ModelsProbe)

ASSUME FiniteCallers == IsFiniteSet(Callers)
ASSUME FiniteKeys    == IsFiniteSet(Keys)
ASSUME NoKeyIsNil    == NoKey \notin Keys
ASSUME LatenciesMs   == Latencies \subseteq Nat
ASSUME RankOfKeys    == Rank \in [Keys -> Nat]

Failures == {"h401", "h429", "h5xx", "h4xx", "net"}
Outcomes == Failures \cup {"ok", "overflow", "cancelled"}
ASSUME AnswersKnown == Answers \subseteq Outcomes
ASSUME TripCounts   == HttpTrip \in 1..NetTrip /\ NetTrip \in Nat
ASSUME ProberKnown  == Prober \in {"off", "nil", "models"}

VARIABLES state,     \* key |-> k.state
          future,    \* key |-> is k.cooldownUntl later than now?
          inFlight,  \* key |-> k.inFlight
          fails,     \* key |-> k.consecFails, saturated at NetTrip
          ema,       \* key |-> k.emaMs
          sampled,   \* key |-> k.samples > 0
          pc,        \* caller |-> where it is in Complete
          key,       \* caller |-> local variable k
          tried,     \* caller |-> local variable tried
          scan,      \* keys the prober has still to look at
          probing    \* the key whose probe is under way, or NoKey

keyVars    == <<state, future, inFlight, fails, ema, sampled>>
callVars   == <<pc, key, tried>>
proberVars == <<scan, probing>>
vars       == <<keyVars, callVars, proberVars>>

States  == {"Healthy", "Degraded", "CoolingDown", "Dead"}
PCs     == {"idle", "loop", "picked", "calling"}
NKeys   == Cardinality(Keys)

TypeOK ==
  /\ state    \in [Keys -> States]
  /\ future   \in [Keys -> BOOLEAN]
  /\ inFlight \in [Keys -> Nat]
  /\ fails    \in [Keys -> 0..NetTrip]
  /\ ema      \in [Keys -> Latencies \cup {0}]
  /\ sampled  \in [Keys -> BOOLEAN]
  /\ pc       \in [Callers -> PCs]
  /\ key      \in [Callers -> Keys \cup {NoKey}]
  /\ tried    \in [Callers -> 0..NKeys]
  /\ scan     \in SUBSET Keys
  /\ probing  \in Keys \cup {NoKey}
  /\ \A c \in Callers : pc[c] \in {"picked", "calling"} <=> key[c] # NoKey

Init ==
  /\ state    = [k \in Keys |-> "Healthy"]
  /\ future   = [k \in Keys |-> FALSE]
  /\ inFlight = [k \in Keys |-> 0]
  /\ fails    = [k \in Keys |-> 0]
  /\ ema      = [k \in Keys |-> 0]
  /\ sampled  = [k \in Keys |-> FALSE]
  /\ pc       = [c \in Callers |-> "idle"]
  /\ key      = [c \in Callers |-> NoKey]
  /\ tried    = [c \in Callers |-> 0]
  /\ scan     = {}
  /\ probing  = NoKey

----------------------------------------------------------------------------
\* Picking.
Usable(k) == state[k] # "Dead" /\ ~(state[k] = "CoolingDown" /\ future[k])

Prior    == 500
Score(k) == (IF sampled[k] THEN ema[k] ELSE Prior) * (1 + inFlight[k])
Best(k)  == /\ Usable(k)
            /\ \A j \in Keys : Usable(j) =>
                 Score(k) < Score(j) \/ (Score(k) = Score(j) /\ Rank[k] <= Rank[j])

\* Pick's side effect: every key whose cooldown has expired is Healthy again,
\* whichever key wins.
PickRevives ==
  LET expired == {k \in Keys : state[k] = "CoolingDown" /\ ~future[k]} IN
  /\ state' = [k \in Keys |-> IF k \in expired THEN "Healthy" ELSE state[k]]
  /\ fails' = [k \in Keys |-> IF k \in expired THEN 0 ELSE fails[k]]

----------------------------------------------------------------------------
\* Complete.
Return(c) ==
  /\ pc'     = [pc EXCEPT ![c] = "idle"]
  /\ key'    = [key EXCEPT ![c] = NoKey]
  /\ tried'  = [tried EXCEPT ![c] = 0]

Start(c) ==
  /\ pc[c] = "idle"
  /\ pc' = [pc EXCEPT ![c] = "loop"]
  /\ UNCHANGED <<keyVars, key, tried, proberVars>>

\* Mutant: one attempt more than there are keys.
MoreOff(c) == tried[c] <= NKeys

\* The condition of the loop.
More(c) == tried[c] < NKeys

\* ctx.Err() at the head of the loop.
Abort(c) ==
  /\ pc[c] = "loop" /\ More(c)
  /\ "cancelled" \in Answers
  /\ Return(c)
  /\ UNCHANGED <<keyVars, proberVars>>

\* No usable key left is the other way to ExhaustedError.
Pick(c) ==
  /\ pc[c] = "loop" /\ More(c)
  /\ PickRevives
  /\ \/ \E k \in Keys :
          /\ Best(k)
          /\ key' = [key EXCEPT ![c] = k]
          /\ pc'  = [pc EXCEPT ![c] = "picked"]
          /\ UNCHANGED tried
     \/ (\A k \in Keys : ~Usable(k)) /\ Return(c)
  /\ UNCHANGED <<future, inFlight, ema, sampled, proberVars>>

\* The loop ends after as many attempts as there are keys: ExhaustedError.
GiveUp(c) ==
  /\ pc[c] = "loop" /\ ~More(c)
  /\ Return(c)
  /\ UNCHANGED <<keyVars, proberVars>>

ReportStart(c) ==
  /\ pc[c] = "picked"
  /\ inFlight' = [inFlight EXCEPT ![key[c]] = @ + 1]
  /\ pc' = [pc EXCEPT ![c] = "calling"]
  /\ UNCHANGED <<state, future, fails, ema, sampled, key, tried, proberVars>>

\* One flight less; every report begins with this.
EndFlight(k) == inFlight' = [inFlight EXCEPT ![k] = IF @ > 0 THEN @ - 1 ELSE @]

\* Mutant: any success makes the key Healthy.
AfterSuccessAlwaysHealthy(k, e) == "Healthy"

AfterSuccess(k, e) == IF state[k] \in {"CoolingDown", "Dead"} THEN state[k]
                      ELSE IF e > 3000 THEN "Degraded" ELSE "Healthy"

ReportSuccess(c) ==
  /\ pc[c] = "calling" /\ "ok" \in Answers
  /\ EndFlight(key[c])
  /\ \E e \in Latencies :
       /\ ema'   = [ema EXCEPT ![key[c]] = e]
       /\ state' = [state EXCEPT ![key[c]] = AfterSuccess(key[c], e)]
  /\ sampled' = [sampled EXCEPT ![key[c]] = TRUE]
  /\ fails'   = [fails EXCEPT ![key[c]] = 0]
  /\ Return(c)
  /\ UNCHANGED <<future, proberVars>>

OneMore(n) == IF n = NetTrip THEN n ELSE n + 1

\* Mutant: unknown failures trip the breaker one failure late.
TripsLate(why, n) == \/ why = "h429"
                     \/ why = "h5xx" /\ n >= HttpTrip
                     \/ why \in {"h4xx", "net"} /\ n > NetTrip

\* The failures that put a key into cooldown, n being its new count.
Trips(why, n) == \/ why = "h429"
                 \/ why = "h5xx" /\ n >= HttpTrip
                 \/ why \in {"h4xx", "net"} /\ n >= NetTrip

\* Mutant: the attempt is not counted.
AttemptedNever(n) == n

Attempted(n) == n + 1

AfterFailure(k, why, n) ==
  IF why = "h401" THEN "Dead"
  ELSE IF Trips(why, n) THEN "CoolingDown"
  ELSE IF why = "h5xx" /\ state[k] = "Healthy" THEN "Degraded" ELSE state[k]

ReportFailure(c, why) ==
  /\ pc[c] = "calling" /\ why \in Answers
  /\ LET k == key[c]
         n == OneMore(fails[k]) IN
       /\ EndFlight(k)
       /\ fails'  = [fails EXCEPT ![k] = n]
       /\ state'  = [state EXCEPT ![k] = AfterFailure(k, why, n)]
       /\ future' = [future EXCEPT ![k] = @ \/ Trips(why, n)]
  /\ tried' = [tried EXCEPT ![c] = Attempted(@)]
  /\ pc'    = [pc EXCEPT ![c] = "loop"]
  /\ key'   = [key EXCEPT ![c] = NoKey]
  /\ UNCHANGED <<ema, sampled, proberVars>>

\* Mutant: an overflow returns without ending the flight.
NoFaultLeaky(c) ==
  /\ pc[c] = "calling"
  /\ {"overflow", "cancelled"} \cap Answers # {}
  /\ Return(c)
  /\ UNCHANGED <<keyVars, proberVars>>

\* The request is too long, or its context ended while it was under way: the
\* key is not to blame.
NoFault(c) ==
  /\ pc[c] = "calling"
  /\ EndFlight(key[c])
  /\ {"overflow", "cancelled"} \cap Answers # {}
  /\ Return(c)
  /\ UNCHANGED <<state, future, fails, ema, sampled, proberVars>>

\* Pool.Chat: the pick and its side effect; the stream is not counted.
Chat ==
  /\ PickRevives
  /\ UNCHANGED <<future, inFlight, ema, sampled, callVars, proberVars>>

----------------------------------------------------------------------------
\* The prober.
Revive(k) ==
  /\ state'  = [state EXCEPT ![k] = "Healthy"]
  /\ future' = [future EXCEPT ![k] = FALSE]
  /\ fails'  = [fails EXCEPT ![k] = 0]
  /\ \E e \in Latencies : ema' = [ema EXCEPT ![k] = e]

Extend(k) ==
  /\ state'  = [state EXCEPT ![k] = "CoolingDown"]
  /\ future' = [future EXCEPT ![k] = TRUE]
  /\ fails'  = [fails EXCEPT ![k] = OneMore(@)]
  /\ UNCHANGED ema

Exile(k) ==
  /\ state' = [state EXCEPT ![k] = "Dead"]
  /\ UNCHANGED <<future, fails, ema>>

\* The ticker starts a scan over all keys.
Tick ==
  /\ Prober # "off" /\ scan = {} /\ probing = NoKey
  /\ scan' = Keys
  /\ UNCHANGED <<keyVars, callVars, probing>>

\* The next key, in order: its state and deadline are read under k.mu, and
\* the lock is given back before anything is done about them.
Examine(k) ==
  /\ probing = NoKey
  /\ k \in scan /\ \A j \in scan : Rank[k] <= Rank[j]
  /\ scan' = scan \ {k}
  /\ probing' = IF state[k] = "CoolingDown" /\ ~future[k] THEN k ELSE NoKey
  /\ UNCHANGED <<keyVars, callVars>>

\* ModelsProbe: what the models endpoint says about the key.
Endpoint == {"none", "h2xx", "h4xx", "h401", "h5xx", "unreachable"}
Verdict(e) == IF e \in {"none", "h2xx", "h4xx"} THEN "alive"
              ELSE IF e = "h401" THEN "auth" ELSE "sick"

\* The probe returns (with no ProbeFunc, at once); the key's state is not looked at again.
Probed ==
  /\ probing # NoKey
  /\ \E e \in IF Prober = "nil" THEN {"none"} ELSE Endpoint :
       \/ Verdict(e) = "alive" /\ Revive(probing)
       \/ Verdict(e) = "auth"  /\ Exile(probing)
       \/ Verdict(e) = "sick"  /\ Extend(probing)
  /\ probing' = NoKey
  /\ UNCHANGED <<inFlight, sampled, callVars, scan>>

\* Time passes a deadline.
Elapse(k) ==
  /\ future[k]
  /\ future' = [future EXCEPT ![k] = FALSE]
  /\ UNCHANGED <<state, inFlight, fails, ema, sampled, callVars, proberVars>>

----------------------------------------------------------------------------
Call(c) == \/ Start(c) \/ Abort(c) \/ Pick(c) \/ GiveUp(c) \/ ReportStart(c)
           \/ ReportSuccess(c) \/ NoFault(c)
           \/ \E why \in Failures : ReportFailure(c, why)

Next == \/ \E c \in Callers : Call(c)
        \/ Chat \/ Tick \/ Probed
        \/ \E k \in Keys : Examine(k) \/ Elapse(k)

Spec == Init /\ [][Next]_vars

\* A call that has begun goes on: the provider answers, or the caller's context
\* ends (120 s, gateway/broker.go:113; 5 min, engine/delegate.go:185; 10 min, the
\* run command).  Only the heartbeat calls without a deadline (heartbeat.go:79).
Fairness == \A c \in Callers :
  WF_vars(/\ pc[c] # "idle"
          /\ Call(c))

----------------------------------------------------------------------------
Flights(k) == {c \in Callers : pc[c] = "calling" /\ key[c] = k}

\* The load factor of every key is the number of requests under way on it,
\* whichever way they end: success, failure, overflow or cancellation.
InFlightExact == \A k \in Keys : inFlight[k] = Cardinality(Flights(k))

\* NetTrip failures in a row, whatever mixture and however many goroutines
\* report them, always take a key out of rotation.
BreakerTrips == \A k \in Keys : state[k] \in {"Healthy", "Degraded"} => fails[k] < NetTrip

\* A Degraded key is slow or has failed since its last success.
DegradedMeansSick == \A k \in Keys : state[k] = "Degraded" => ema[k] > 3000 \/ fails[k] > 0

\* A key in an unexpired cooldown does not come back: no late success of
\* another request on it, pick or stream revives it ("the hot key rejoins after
\* Retry-After", docs/TROUBLESHOOTING.md:14-15).  Only a probe that began
\* before the cooldown did, and does not look again, ends it early.
CooldownHonoured ==
  [][\A k \in Keys : state[k] = "CoolingDown" /\ future[k] =>
       state'[k] \in {"CoolingDown", "Dead"} \/ (Probed /\ probing = k)]_vars

\* Every call returns.
CallReturns == \A c \in Callers : (pc[c] # "idle") ~> (pc[c] = "idle")

\* "The key is marked Dead and never retried silently" (docs/TROUBLESHOOTING.md:7-8).
DeadForGood == [][\A k \in Keys : state[k] = "Dead" => state'[k] = "Dead"]_vars
=============================================================================
