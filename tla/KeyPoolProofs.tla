--------------------------- MODULE KeyPoolProofs ---------------------------
(***************************************************************************)
(* The key pool for every finite set of callers and keys, every set of     *)
(* latencies and all breaker thresholds with 1 <= HttpTrip <= NetTrip:     *)
(* exact load accounting, the breaker, and cooldowns that are served.      *)
(*                                                                         *)
(* TypeOK is not inductive: that tried stays within the number of keys     *)
(* needs the loop's condition to hold for a call that has picked a key.    *)
(* The breaker's invariants are inductive together with TypeOK, because    *)
(* every step that leaves a key in rotation has just looked at, or reset,  *)
(* its count of failures.                                                  *)
(***************************************************************************)
EXTENDS KeyPool, FiniteSetTheorems, TLAPS

\* A call that holds a key has an attempt left.
AttemptLeft == \A c \in Callers : pc[c] \in {"picked", "calling"} => tried[c] < NKeys

TInv == TypeOK /\ AttemptLeft
IInv == TInv /\ InFlightExact /\ BreakerTrips /\ DegradedMeansSick

LEMMA NKeysNat == NKeys \in Nat
  BY FiniteKeys, FS_CardinalityType DEF NKeys

LEMMA FlightsFinite == \A k \in Keys : IsFiniteSet(Flights(k)) /\ Cardinality(Flights(k)) \in Nat
<1> SUFFICES ASSUME NEW k \in Keys PROVE IsFiniteSet(Flights(k)) /\ Cardinality(Flights(k)) \in Nat
  OBVIOUS
<1>1. Flights(k) \in SUBSET Callers
  BY DEF Flights
<1> QED
  BY <1>1, FiniteCallers, FS_Subset, FS_CardinalityType

LEMMA InitIInv == Init => IInv
<1> SUFFICES ASSUME Init PROVE IInv
  OBVIOUS
<1> USE NKeysNat, NoKeyIsNil, TripCounts DEF Init
<1>1. TInv
  BY DEF TInv, TypeOK, AttemptLeft, States, PCs
<1>2. InFlightExact
  BY FS_EmptySet DEF InFlightExact, Flights
<1>3. BreakerTrips /\ DegradedMeansSick
  BY DEF BreakerTrips, DegradedMeansSick
<1> QED
  BY <1>1, <1>2, <1>3 DEF IInv

\* What a probe may do, whatever the endpoint said.
LEMMA ProbeVerdicts ==
  ASSUME Probed
  PROVE  /\ Revive(probing) \/ Exile(probing) \/ Extend(probing)
         /\ probing' = NoKey
         /\ UNCHANGED <<inFlight, sampled, callVars, scan>>
  BY DEF Probed

----------------------------------------------------------------------------
\* Types, and the attempt a call with a key still has.
LEMMA TypeStep ==
  ASSUME TInv, [Next]_vars
  PROVE  TInv'
<1> USE NKeysNat, NoKeyIsNil, TripCounts, LatenciesMs DEF TInv, TypeOK, AttemptLeft, States, PCs, keyVars, callVars, proberVars
<1>1. ASSUME NEW c \in Callers, Start(c) PROVE TInv'
  BY <1>1 DEF Start
<1>2. ASSUME NEW c \in Callers, Abort(c) PROVE TInv'
  BY <1>2 DEF Abort, Return
<1>3. ASSUME NEW c \in Callers, Pick(c) PROVE TInv'
  <2>1. TypeOK'
    BY <1>3 DEF Pick, PickRevives, Return
  <2>2. AttemptLeft'
    BY <1>3 DEF Pick, More, Return
  <2> QED
    BY <2>1, <2>2
<1>4. ASSUME NEW c \in Callers, GiveUp(c) PROVE TInv'
  BY <1>4 DEF GiveUp, Return
<1>5. ASSUME NEW c \in Callers, ReportStart(c) PROVE TInv'
  BY <1>5 DEF ReportStart
<1>6. ASSUME NEW c \in Callers, ReportSuccess(c) PROVE TInv'
  <2> PICK e \in Latencies :
        /\ ema'   = [ema EXCEPT ![key[c]] = e]
        /\ state' = [state EXCEPT ![key[c]] = AfterSuccess(key[c], e)]
    BY <1>6 DEF ReportSuccess
  <2>1. key[c] \in Keys /\ AfterSuccess(key[c], e) \in States
    BY <1>6 DEF ReportSuccess, AfterSuccess
  <2> QED
    BY <1>6, <2>1 DEF ReportSuccess, Return, EndFlight
<1>7. ASSUME NEW c \in Callers, NoFault(c) PROVE TInv'
  BY <1>7 DEF NoFault, Return, EndFlight
<1>8. ASSUME NEW c \in Callers, NEW why \in Failures, ReportFailure(c, why) PROVE TInv'
  <2> DEFINE k == key[c]
             n == OneMore(fails[k])
  <2>1. k \in Keys /\ n \in 0..NetTrip /\ AfterFailure(k, why, n) \in States
    BY <1>8 DEF ReportFailure, OneMore, AfterFailure
  <2>2. Attempted(tried[c]) \in 0..NKeys
    BY <1>8 DEF ReportFailure, Attempted
  <2>3. (Trips(why, n) \/ future[k]) \in BOOLEAN
    BY DEF Trips
  <2> HIDE DEF n
  <2> QED
    BY <1>8, <2>1, <2>2, <2>3 DEF ReportFailure, EndFlight, n
<1>9. ASSUME Chat PROVE TInv'
  BY <1>9 DEF Chat, PickRevives
<1>10. ASSUME Tick PROVE TInv'
  BY <1>10 DEF Tick
<1>11. ASSUME Probed PROVE TInv'
  <2>1. probing \in Keys
    BY <1>11 DEF Probed
  <2>2. CASE Revive(probing)
    BY <2>1, <2>2, <1>11, ProbeVerdicts DEF Revive
  <2>3. CASE Exile(probing)
    BY <2>1, <2>3, <1>11, ProbeVerdicts DEF Exile
  <2>4. CASE Extend(probing)
    BY <2>1, <2>4, <1>11, ProbeVerdicts DEF Extend, OneMore
  <2> QED
    BY <2>2, <2>3, <2>4, <1>11, ProbeVerdicts
<1>12. ASSUME NEW k \in Keys, Examine(k) PROVE TInv'
  BY <1>12 DEF Examine
<1>13. ASSUME NEW k \in Keys, Elapse(k) PROVE TInv'
  BY <1>13 DEF Elapse
<1>14. CASE UNCHANGED vars
  BY <1>14 DEF vars
<1> QED
  BY <1>1, <1>2, <1>3, <1>4, <1>5, <1>6, <1>7, <1>8, <1>9, <1>10, <1>11, <1>12, <1>13, <1>14 DEF Next, Call

----------------------------------------------------------------------------
\* Load accounting.  A step that neither begins nor ends a flight changes no
\* count and no set of flights.
LEMMA NoFlight ==
  ASSUME InFlightExact, inFlight' = inFlight,
         \A d \in Callers : /\ pc'[d] = "calling" <=> pc[d] = "calling"
                            /\ pc[d] = "calling" => key'[d] = key[d]
  PROVE  InFlightExact'
<1>1. \A k \in Keys : Flights(k)' = Flights(k)
  BY DEF Flights
<1> QED
  BY <1>1 DEF InFlightExact

\* A step that ends the flight of one caller: success, failure, or neither.
LEMMA FlightEnds ==
  ASSUME TypeOK, InFlightExact, NEW c \in Callers, pc[c] = "calling",
         EndFlight(key[c]), pc'[c] # "calling",
         \A d \in Callers \ {c} : pc'[d] = pc[d] /\ key'[d] = key[d]
  PROVE  InFlightExact'
<1>0. PICK q \in Keys : q = key[c]
  BY NoKeyIsNil DEF TypeOK
<1>1. q \in Keys /\ c \in Flights(q)
  BY <1>0 DEF Flights
<1>2. Flights(q)' = Flights(q) \ {c}
  BY <1>0 DEF Flights
<1>3. \A k \in Keys \ {q} : Flights(k)' = Flights(k)
  BY <1>0 DEF Flights
<1>4. Cardinality(Flights(q)') = Cardinality(Flights(q)) - 1
  BY <1>1, <1>2, FlightsFinite, FS_RemoveElement
<1>5. Cardinality(Flights(q)) > 0
  BY <1>1, FlightsFinite, FS_EmptySet
<1>6. inFlight[q] = Cardinality(Flights(q))
  BY <1>1 DEF InFlightExact
<1>7. inFlight' = [inFlight EXCEPT ![q] = inFlight[q] - 1]
  BY <1>0, <1>5, <1>6 DEF EndFlight
<1> SUFFICES ASSUME NEW k \in Keys PROVE inFlight'[k] = Cardinality(Flights(k)')
  BY DEF InFlightExact
<1>8. CASE k = q
  BY <1>8, <1>1, <1>4, <1>6, <1>7 DEF TypeOK
<1>9. CASE k # q
  BY <1>9, <1>3, <1>7 DEF TypeOK, InFlightExact
<1> QED
  BY <1>8, <1>9

LEMMA FlightBegins ==
  ASSUME TypeOK, InFlightExact, NEW c \in Callers, ReportStart(c)
  PROVE  InFlightExact'
<1> DEFINE q == key[c]
<1>1. q \in Keys /\ c \notin Flights(q)
  BY NoKeyIsNil DEF TypeOK, Flights, ReportStart
<1>2. Flights(q)' = Flights(q) \cup {c}
  BY <1>1 DEF TypeOK, Flights, ReportStart
<1>3. \A k \in Keys \ {q} : Flights(k)' = Flights(k)
  BY DEF TypeOK, Flights, ReportStart
<1>4. Cardinality(Flights(q)') = Cardinality(Flights(q)) + 1
  BY <1>1, <1>2, FlightsFinite, FS_AddElement
<1> SUFFICES ASSUME NEW k \in Keys PROVE inFlight'[k] = Cardinality(Flights(k)')
  BY DEF InFlightExact
<1>5. CASE k = q
  BY <1>5, <1>1, <1>4 DEF TypeOK, InFlightExact, ReportStart
<1>6. CASE k # q
  BY <1>6, <1>3 DEF TypeOK, InFlightExact, ReportStart
<1> QED
  BY <1>5, <1>6

LEMMA LoadStep ==
  ASSUME TInv, InFlightExact, [Next]_vars
  PROVE  InFlightExact'
<1> USE DEF TInv, keyVars, callVars, proberVars
<1>1. ASSUME NEW c \in Callers, Start(c) \/ Abort(c) \/ Pick(c) \/ GiveUp(c) PROVE InFlightExact'
  BY <1>1, NoFlight DEF TypeOK, Start, Abort, Pick, GiveUp, Return
<1>2. ASSUME NEW c \in Callers, ReportStart(c) PROVE InFlightExact'
  BY <1>2, FlightBegins
<1>3. ASSUME NEW c \in Callers, ReportSuccess(c) \/ NoFault(c) PROVE InFlightExact'
  <2>1. /\ pc[c] = "calling" /\ EndFlight(key[c]) /\ pc'[c] # "calling"
        /\ \A d \in Callers \ {c} : pc'[d] = pc[d] /\ key'[d] = key[d]
    BY <1>3 DEF TypeOK, ReportSuccess, NoFault, Return
  <2> QED
    BY <2>1, FlightEnds
<1>4. ASSUME NEW c \in Callers, NEW why \in Failures, ReportFailure(c, why) PROVE InFlightExact'
  <2>1. /\ pc[c] = "calling" /\ EndFlight(key[c]) /\ pc'[c] # "calling"
        /\ \A d \in Callers \ {c} : pc'[d] = pc[d] /\ key'[d] = key[d]
    BY <1>4 DEF TypeOK, ReportFailure
  <2> QED
    BY <2>1, FlightEnds
<1>5. ASSUME Chat \/ Tick \/ Probed PROVE InFlightExact'
  BY <1>5, NoFlight, ProbeVerdicts DEF Chat, Tick
<1>6. ASSUME NEW k \in Keys, Examine(k) \/ Elapse(k) PROVE InFlightExact'
  BY <1>6, NoFlight DEF Examine, Elapse
<1>7. CASE UNCHANGED vars
  BY <1>7, NoFlight DEF vars
<1> QED
  BY <1>1, <1>2, <1>3, <1>4, <1>5, <1>6, <1>7 DEF Next, Call

----------------------------------------------------------------------------
\* The breaker.
Breaker == BreakerTrips /\ DegradedMeansSick

\* A step that touches no key's state, failures or latency.
LEMMA BreakerKept ==
  ASSUME Breaker, state' = state, fails' = fails, ema' = ema
  PROVE  Breaker'
  BY DEF Breaker, BreakerTrips, DegradedMeansSick

\* Pick and Chat reset the failures of the keys they revive.
LEMMA BreakerPick ==
  ASSUME TInv, Breaker, PickRevives, ema' = ema
  PROVE  Breaker'
  BY TripCounts DEF TInv, TypeOK, Breaker, BreakerTrips, DegradedMeansSick, PickRevives

LEMMA BreakerSuccess ==
  ASSUME TInv, Breaker, NEW c \in Callers, ReportSuccess(c)
  PROVE  Breaker'
<1> PICK e \in Latencies :
      /\ ema'   = [ema EXCEPT ![key[c]] = e]
      /\ state' = [state EXCEPT ![key[c]] = AfterSuccess(key[c], e)]
  BY DEF ReportSuccess
<1>1. fails' = [fails EXCEPT ![key[c]] = 0]
  BY DEF ReportSuccess
<1> QED
  BY <1>1, TripCounts DEF TInv, TypeOK, Breaker, BreakerTrips, DegradedMeansSick, AfterSuccess

\* A failure that leaves its key in rotation has not used up the failures the
\* breaker allows for its kind.
LEMMA BreakerFailure ==
  ASSUME TInv, Breaker, NEW c \in Callers, NEW why \in Failures, ReportFailure(c, why)
  PROVE  Breaker'
<1> DEFINE n == OneMore(fails[key[c]])
           s == AfterFailure(key[c], why, n)
<1>1. key[c] \in Keys /\ n \in 1..NetTrip
  BY TripCounts, NoKeyIsNil DEF TInv, TypeOK, ReportFailure, OneMore
<1>2. s \in {"Healthy", "Degraded"} => n < NetTrip
  BY <1>1, TripCounts DEF AfterFailure, Trips, Failures
<1>3. fails' = [fails EXCEPT ![key[c]] = n] /\ state' = [state EXCEPT ![key[c]] = s] /\ ema' = ema
  BY DEF ReportFailure
<1> HIDE DEF n, s
<1> QED
  BY <1>1, <1>2, <1>3, TripCounts DEF TInv, TypeOK, Breaker, BreakerTrips, DegradedMeansSick

LEMMA BreakerProbe ==
  ASSUME TInv, Breaker, Probed
  PROVE  Breaker'
<1>1. probing \in Keys
  BY DEF TInv, TypeOK, Probed
<1>2. CASE Revive(probing)
  BY <1>1, <1>2, TripCounts DEF TInv, TypeOK, Breaker, BreakerTrips, DegradedMeansSick, Revive
<1>3. CASE Extend(probing)
  BY <1>1, <1>3 DEF TInv, TypeOK, Breaker, BreakerTrips, DegradedMeansSick, Extend
<1>4. CASE Exile(probing)
  BY <1>1, <1>4 DEF TInv, TypeOK, Breaker, BreakerTrips, DegradedMeansSick, Exile
<1> QED
  BY <1>2, <1>3, <1>4, ProbeVerdicts

LEMMA BreakerStep ==
  ASSUME TInv, Breaker, [Next]_vars
  PROVE  Breaker'
<1> USE DEF keyVars, callVars, proberVars
<1>1. ASSUME NEW c \in Callers, Start(c) \/ Abort(c) \/ GiveUp(c) \/ ReportStart(c) \/ NoFault(c) PROVE Breaker'
  BY <1>1, BreakerKept DEF Start, Abort, GiveUp, ReportStart, NoFault
<1>2. ASSUME NEW c \in Callers, Pick(c) PROVE Breaker'
  BY <1>2, BreakerPick DEF Pick
<1>3. ASSUME NEW c \in Callers, ReportSuccess(c) PROVE Breaker'
  BY <1>3, BreakerSuccess
<1>4. ASSUME NEW c \in Callers, NEW why \in Failures, ReportFailure(c, why) PROVE Breaker'
  BY <1>4, BreakerFailure
<1>5. CASE Chat
  BY <1>5, BreakerPick DEF Chat
<1>6. CASE Tick
  BY <1>6, BreakerKept DEF Tick
<1>7. CASE Probed
  BY <1>7, BreakerProbe
<1>8. ASSUME NEW k \in Keys, Examine(k) \/ Elapse(k) PROVE Breaker'
  BY <1>8, BreakerKept DEF Examine, Elapse
<1>9. CASE UNCHANGED vars
  BY <1>9, BreakerKept DEF vars
<1> QED
  BY <1>1, <1>2, <1>3, <1>4, <1>5, <1>6, <1>7, <1>8, <1>9 DEF Next, Call

----------------------------------------------------------------------------
THEOREM Inductive == Spec => []IInv
<1>1. IInv /\ [Next]_vars => IInv'
  BY TypeStep, LoadStep, BreakerStep DEF IInv, Breaker, TInv
<1> QED
  BY InitIInv, <1>1, PTL DEF Spec

\* The pool's state is well typed; no call makes more attempts than there are
\* keys.
THEOREM TypeCorrect == Spec => []TypeOK
<1>1. IInv => TypeOK
  BY DEF IInv, TInv
<1> QED
  BY <1>1, Inductive, PTL

\* Every key's load is the number of requests under way on it, so that no
\* path out of Complete starves a key through its score.
THEOREM LoadIsExact == Spec => []InFlightExact
<1>1. IInv => InFlightExact
  BY DEF IInv
<1> QED
  BY <1>1, Inductive, PTL

\* NetTrip failures in a row take a key out of rotation, and a Degraded key
\* has a reason to be.
THEOREM BreakerHolds == Spec => [](BreakerTrips /\ DegradedMeansSick)
<1>1. IInv => BreakerTrips /\ DegradedMeansSick
  BY DEF IInv
<1> QED
  BY <1>1, Inductive, PTL

\* Only the prober, acting on a probe it began earlier, ends a cooldown that
\* has not expired.
THEOREM CooldownServed == Spec => CooldownHonoured
<1> DEFINE Served == \A k \in Keys : state[k] = "CoolingDown" /\ future[k] =>
                       state'[k] \in {"CoolingDown", "Dead"} \/ (Probed /\ probing = k)
<1>1. TypeOK /\ [Next]_vars => Served
  <2> SUFFICES ASSUME TypeOK, [Next]_vars, NEW k \in Keys, state[k] = "CoolingDown", future[k]
               PROVE  state'[k] \in {"CoolingDown", "Dead"} \/ (Probed /\ probing = k)
    OBVIOUS
  <2> USE DEF TypeOK, keyVars, callVars, proberVars
  <2>1. ASSUME NEW c \in Callers, Start(c) \/ Abort(c) \/ GiveUp(c) \/ ReportStart(c) \/ NoFault(c)
        PROVE  state'[k] = "CoolingDown"
    BY <2>1 DEF Start, Abort, GiveUp, ReportStart, NoFault
  <2>2. ASSUME PickRevives PROVE state'[k] = "CoolingDown"
    BY <2>2 DEF PickRevives
  <2>3. ASSUME NEW c \in Callers, ReportSuccess(c) PROVE state'[k] = "CoolingDown"
    <3> PICK e \in Latencies : state' = [state EXCEPT ![key[c]] = AfterSuccess(key[c], e)]
      BY <2>3 DEF ReportSuccess
    <3> QED
      BY DEF AfterSuccess
  <2>4. ASSUME NEW c \in Callers, NEW why \in Failures, ReportFailure(c, why)
        PROVE  state'[k] \in {"CoolingDown", "Dead"}
    BY <2>4 DEF ReportFailure, AfterFailure
  <2>5. CASE Probed
    BY <2>5, ProbeVerdicts DEF Revive, Extend, Exile
  <2>6. ASSUME NEW j \in Keys, Examine(j) \/ Elapse(j) PROVE state'[k] = "CoolingDown"
    BY <2>6 DEF Examine, Elapse
  <2>7. CASE Tick \/ UNCHANGED vars
    BY <2>7 DEF Tick, vars
  <2> QED
    BY <2>1, <2>2, <2>3, <2>4, <2>5, <2>6, <2>7 DEF Next, Call, Pick, Chat
<1>2. Spec => [][Served]_vars
  BY <1>1, TypeCorrect, PTL DEF Spec
<1> QED
  BY <1>2 DEF CooldownHonoured
=============================================================================
