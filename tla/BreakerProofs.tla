---------------------------- MODULE BreakerProofs ----------------------------
(***************************************************************************)
(* Theorems about Breaker, for any callers, any threshold and any          *)
(* cool-down.                                                              *)
(***************************************************************************)
EXTENDS Breaker, TLAPS

(***************************************************************************)
(* The count of failures and the history of throttles never part: either   *)
(* Threshold throttles have come in a row, or no more are counted than     *)
(* have come.  Callers that reset the count in between only lower it.      *)
(***************************************************************************)
CountIsEarned == streak = Threshold \/ failures <= streak

Inv == TypeOK /\ StormIsNoticed /\ CountIsEarned

\* Before any call nothing is counted.
LEMMA InitInv == Init => Inv
<1> SUFFICES ASSUME Init PROVE Inv
  OBVIOUS
<1>1. TypeOK
  <2>1. storm \in BOOLEAN /\ tripped \in BOOLEAN
    BY Zenon DEF Init
  <2>2. failures \in Nat /\ left \in 0 .. Cooldown /\ streak \in 0 .. Threshold
    BY BreakerAssumption DEF Init
  <2>3. pc \in [Callers -> {"idle", "calling", "reset", "trip"}]
    BY DEF Init
  <2> QED
    BY <2>1, <2>2, <2>3 DEF TypeOK
<1>2. StormIsNoticed /\ CountIsEarned
  BY BreakerAssumption DEF Init, StormIsNoticed, CountIsEarned
<1> QED
  BY <1>1, <1>2 DEF Inv

\* No step of any caller, and no tick, breaks the invariant.
LEMMA StepInv == Inv /\ [Next]_vars => Inv'
<1> SUFFICES ASSUME Inv, [Next]_vars PROVE Inv'
  OBVIOUS
<1> USE BreakerAssumption DEF Inv, TypeOK, StormIsNoticed, CountIsEarned, Callers
<1>1. ASSUME NEW c \in Clients, Admit(c) PROVE Inv'
  BY <1>1 DEF Admit
<1>2. ASSUME NEW c \in Workers, StartWork(c) PROVE Inv'
  BY <1>2 DEF StartWork
<1>3. ASSUME NEW c \in Callers, RecordOther(c) PROVE Inv'
  BY <1>3 DEF RecordOther
<1>4. ASSUME NEW c \in Callers, RecordThrottle(c) PROVE Inv'
  BY <1>4 DEF RecordThrottle
<1>5. ASSUME NEW c \in Callers, ResetFailures(c) PROVE Inv'
  BY <1>5 DEF ResetFailures
<1>6. ASSUME NEW c \in Callers, Trip(c) PROVE Inv'
  BY <1>6 DEF Trip
<1>7. CASE Tick
  BY <1>7 DEF Tick
<1>8. CASE StormEnds
  BY <1>8 DEF StormEnds
<1>9. CASE UNCHANGED vars
  BY <1>9 DEF vars
<1> QED
  BY <1>1, <1>2, <1>3, <1>4, <1>5, <1>6, <1>7, <1>8, <1>9 DEF Next, Record

\* The invariant holds in every reachable state.
LEMMA Invariance == Spec => []Inv
  BY InitInv, StepInv, PTL DEF Spec

\* Record, Open: every atomic keeps its type, so openUntil never lies further ahead than
\* one cool-down, whichever callers trip the breaker again.
THEOREM TypeCorrect == Spec => []TypeOK
<1>1. Inv => TypeOK
  BY DEF Inv
<1> QED
  BY <1>1, Invariance, PTL

\* Record: whenever the count stands at the threshold or above it, a caller is about
\* to reset it and open the breaker, so no storm of throttles goes unnoticed.
THEOREM StormNoticed == Spec => []StormIsNoticed
<1>1. Inv => StormIsNoticed
  BY DEF Inv
<1> QED
  BY <1>1, Invariance, PTL

\* Record: a caller sets out to open the breaker only after a full threshold of
\* throttles with no other outcome between them.
THEOREM TripEarned == Spec => TripIsEarned
<1> DEFINE Earned == \A c \in Callers : pc[c] # "reset" /\ pc'[c] = "reset" => streak' = Threshold
<1>1. Inv /\ Inv' /\ [Next]_vars => [Earned]_vars
  <2> SUFFICES ASSUME Inv, Inv', Next, NEW c \in Callers, pc[c] # "reset", pc'[c] = "reset"
               PROVE  streak' = Threshold
    OBVIOUS
  <2> USE BreakerAssumption DEF Inv, TypeOK, Callers
  <2>1. failures' >= Threshold
    <3>1. PICK d \in Callers : RecordThrottle(d)
      BY DEF Next, Record, Admit, StartWork, RecordOther, ResetFailures, Trip, Tick, StormEnds
    <3>2. d = c
      BY <3>1 DEF RecordThrottle
    <3> QED
      BY <3>1, <3>2 DEF RecordThrottle
  <2> QED
    BY <2>1 DEF CountIsEarned
<1> QED
  BY <1>1, Invariance, PTL DEF Spec, TripIsEarned
=============================================================================
