------------------------------ MODULE Breaker -------------------------------
(***************************************************************************)
(* The circuit breaker that sheds load while DynamoDB throttles, and the   *)
(* gate in front of the handlers that consults it.                         *)
(*                                                                         *)
(* Record works on two atomics with no lock, so every atomic operation is  *)
(* a step and the operations of several callers interleave.  Time is what  *)
(* is left of the cool-down, in ticks: openUntil = 0 in the code is        *)
(* left = 0 here, and so is a deadline that has passed, but for tripped.   *)
(***************************************************************************)
EXTENDS Integers, FiniteSets

CONSTANTS Clients,    \* connections
          Workers,    \* goroutines that call the store outside a command: deleter, sweeper
          Threshold,  \* throttles that open the breaker
          Cooldown    \* ticks it stays open

ASSUME BreakerAssumption == Threshold \in Nat \ {0} /\ Cooldown \in Nat \ {0}

Callers == Clients \cup Workers

VARIABLES storm,      \* the table may throttle
          failures,   \* CircuitBreaker.failures
          tripped,    \* openUntil # 0: the breaker has opened at least once
          left,       \* openUntil - now, not below zero
          pc,         \* where each caller is
          streak      \* history: throttles since the last other outcome, at most Threshold

vars == <<storm, failures, tripped, left, pc, streak>>

Init ==
    /\ storm = TRUE
    /\ failures = 0 /\ tripped = FALSE /\ left = 0
    /\ pc = [c \in Callers |-> "idle"]
    /\ streak = 0

\* A breaker that looks at openUntil and not at the clock.
Open_Latched == tripped

\* CircuitBreaker.Open.
Open == tripped /\ left > 0

-----------------------------------------------------------------------------
\* BreakerDispatcher.Dispatch: a command for the backend is shed while the
\* breaker is open, else its handler makes its first store call.
Admit(c) ==
    /\ pc[c] = "idle" /\ ~Open
    /\ pc' = [pc EXCEPT ![c] = "calling"]
    /\ UNCHANGED <<storm, failures, tripped, left, streak>>

\* The workers do not pass the gate.
StartWork(c) ==
    /\ pc[c] = "idle"
    /\ pc' = [pc EXCEPT ![c] = "calling"]
    /\ UNCHANGED <<storm, failures, tripped, left, streak>>

\* A breaker that counts throttles and never forgets them.
RecordOther_NoReset(c) ==
    /\ pc[c] = "calling"
    /\ failures' = failures
    /\ streak' = 0
    /\ pc' \in {pc, [pc EXCEPT ![c] = "idle"]}
    /\ UNCHANGED <<storm, tripped, left>>

\* obs, Record(false): a call that was not throttled, whether it succeeded or not;
\* the caller goes on with its next call or is done.
RecordOther(c) ==
    /\ pc[c] = "calling"
    /\ failures' = 0
    /\ streak' = 0
    /\ pc' \in {pc, [pc EXCEPT ![c] = "idle"]}
    /\ UNCHANGED <<storm, tripped, left>>

\* A threshold that is one too high.
RecordThrottle_OffByOne(c) ==
    /\ storm /\ pc[c] = "calling"
    /\ failures' = failures + 1
    /\ streak' = IF streak < Threshold THEN streak + 1 ELSE streak
    /\ pc' = [pc EXCEPT ![c] = IF failures' > Threshold THEN "reset" ELSE "idle"]
    /\ UNCHANGED <<storm, tripped, left>>

\* obs, Record(true): failures.Add(1) and the comparison of what it returned. The
\* command ends with the retryable error.
RecordThrottle(c) ==
    /\ storm /\ pc[c] = "calling"
    /\ failures' = failures + 1
    /\ streak' = IF streak < Threshold THEN streak + 1 ELSE streak
    /\ pc' = [pc EXCEPT ![c] = IF failures' >= Threshold THEN "reset" ELSE "idle"]
    /\ UNCHANGED <<storm, tripped, left>>

\* A reset that takes the threshold away from the count.
ResetFailures_Subtract(c) ==
    /\ pc[c] = "reset"
    /\ failures' = failures - Threshold
    /\ pc' = [pc EXCEPT ![c] = "trip"]
    /\ UNCHANGED <<storm, tripped, left, streak>>

\* failures.Store(0).
ResetFailures(c) ==
    /\ pc[c] = "reset"
    /\ failures' = 0
    /\ pc' = [pc EXCEPT ![c] = "trip"]
    /\ UNCHANGED <<storm, tripped, left, streak>>

\* openUntil.Store(now + cooldown): the clock may have moved on since it was read,
\* and the deadline may be earlier than one stored meanwhile.
Trip(c) ==
    /\ pc[c] = "trip"
    /\ tripped' = TRUE
    /\ left' \in {Cooldown - 1, Cooldown}
    /\ pc' = [pc EXCEPT ![c] = "idle"]
    /\ UNCHANGED <<storm, failures, streak>>

Tick ==
    /\ left > 0
    /\ left' = left - 1
    /\ UNCHANGED <<storm, failures, tripped, pc, streak>>

StormEnds ==
    /\ storm
    /\ storm' = FALSE
    /\ UNCHANGED <<failures, tripped, left, pc, streak>>

Record(c) == RecordOther(c) \/ RecordThrottle(c) \/ ResetFailures(c) \/ Trip(c)

Next ==
    \/ \E c \in Clients : Admit(c)
    \/ \E c \in Workers : StartWork(c)
    \/ \E c \in Callers : Record(c)
    \/ Tick \/ StormEnds

Spec == Init /\ [][Next]_vars

\* Time passes, and a caller inside Record gets to the end of it. Neither a store
\* call nor the table has to answer.
Fairness == WF_vars(Tick) /\ \A c \in Callers : WF_vars(ResetFailures(c) \/ Trip(c))

FairSpec == Spec /\ Fairness

-----------------------------------------------------------------------------
TypeOK ==
    /\ storm \in BOOLEAN /\ tripped \in BOOLEAN
    /\ failures \in Nat
    /\ left \in 0 .. Cooldown
    /\ pc \in [Callers -> {"idle", "calling", "reset", "trip"}]
    /\ streak \in 0 .. Threshold

\* Record (breaker.go): however the callers interleave, a caller sets out to open the
\* breaker only after Threshold throttles with no other outcome between them.
TripIsEarned ==
    [][ \A c \in Callers : pc[c] # "reset" /\ pc'[c] = "reset" => streak' = Threshold ]_vars

\* Record: the count does not rest at the threshold; someone is about to reset it and open
\* the breaker. The resets of several callers at once lose throttles, never the trip.
StormIsNoticed == failures >= Threshold => \E c \in Callers : pc[c] = "reset"

\* "It OPENS for cooldown", "a transient throttle does not latch the breaker open": when
\* the table stops throttling, the breaker closes and stays closed, though the workers
\* and the calls in flight may have re-opened it in the meantime.
ClosesForGood == <>[](~storm) => <>[](~Open)
=============================================================================
