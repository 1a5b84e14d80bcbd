--------------------------- MODULE CircuitBreaker ---------------------------
(***************************************************************************)
(* The circuit breaker of apicache/circuit.go: its fields and the atomic   *)
(* steps of its methods.  Who calls them, and in which order, is left to   *)
(* the modules that extend this one (CircuitBreakerUse, ApiCache).         *)
(*                                                                         *)
(* The code keeps timestamps and only ever asks whether more than a        *)
(* configured duration has passed since one of them, so the model keeps    *)
(* the ages, saturated one past the duration they are compared with.       *)
(* failures is only compared with maxFailures and is saturated there.      *)
(* lastSuccess is written and never read, and is left out.                 *)
(***************************************************************************)
EXTENDS Naturals

CONSTANTS
  MaxFailures,      \* CircuitBreakerConfig.MaxFailures
  ResetTimeout,     \* CircuitBreakerConfig.ResetTimeout, in ticks
  HalfOpenTimeout   \* CircuitBreakerConfig.HalfOpenTimeout, in ticks

\* NewCircuitBreaker replaces every value that is not positive by a default.
ASSUME BreakerAssumption ==
  /\ MaxFailures \in Nat \ {0}
  /\ ResetTimeout \in Nat \ {0}
  /\ HalfOpenTimeout \in Nat \ {0}

VARIABLES
  state,          \* the state of the circuit
  failures,       \* consecutive failures, saturated at MaxFailures
  sinceFailure,   \* age of lastFailure, saturated
  sinceAttempt    \* age of halfOpenAttempt, saturated

breakerVars == <<state, failures, sinceFailure, sinceAttempt>>

CircuitBreakerState == {"closed", "open", "halfOpen"}

BreakerTypeOK ==
  /\ state \in CircuitBreakerState
  /\ failures \in 0..MaxFailures
  /\ sinceFailure \in 0..(ResetTimeout + 1)
  /\ sinceAttempt \in 0..(HalfOpenTimeout + 1)

\* A zero time.Time is as long ago as it can be.
NewCircuitBreaker ==
  /\ state = "closed"
  /\ failures = 0
  /\ sinceFailure = ResetTimeout + 1
  /\ sinceAttempt = HalfOpenTimeout + 1

-----------------------------------------------------------------------------
(* Allow, under the read lock: admit, refuse, or go and upgrade the lock.   *)

\* Mutated form: a half-open circuit that never lets a request through.
AdmitsOnlyWhenClosed == state = "closed"

AdmitsNow ==
  \/ state = "closed"
  \/ state = "halfOpen" /\ sinceAttempt > HalfOpenTimeout

MustUpgrade == state = "open" /\ sinceFailure > ResetTimeout

Refuses == ~AdmitsNow /\ ~MustUpgrade

\* The second half of Allow, under the write lock.  The read lock was given
\* up in between, and the state is not looked at again.
UpgradeToHalfOpen ==
  /\ state' = "halfOpen"
  /\ sinceAttempt' = 0
  /\ UNCHANGED <<failures, sinceFailure>>

\* Mutated form: a success closes the circuit and forgets to reset the count.
SuccessKeepsCount ==
  /\ state' = IF state = "halfOpen" THEN "closed" ELSE state
  /\ UNCHANGED <<failures, sinceFailure, sinceAttempt>>

\* Mutated form: a success resets the count and leaves the circuit half-open.
SuccessKeepsState ==
  /\ failures' = 0
  /\ UNCHANGED <<state, sinceFailure, sinceAttempt>>

Success ==
  /\ failures' = 0
  /\ state' = IF state = "halfOpen" THEN "closed" ELSE state
  /\ UNCHANGED <<sinceFailure, sinceAttempt>>

\* Mutated form: the count runs past the threshold it is compared with.
FailureUncapped ==
  /\ failures' = failures + 1
  /\ state' = IF failures' > MaxFailures THEN "open" ELSE state
  /\ sinceFailure' = 0
  /\ UNCHANGED sinceAttempt

Failure ==
  /\ failures' = IF failures < MaxFailures THEN failures + 1 ELSE MaxFailures
  /\ state' = IF failures' >= MaxFailures THEN "open" ELSE state
  /\ sinceFailure' = 0
  /\ UNCHANGED sinceAttempt

Reset ==
  /\ state' = "closed"
  /\ failures' = 0
  /\ UNCHANGED <<sinceFailure, sinceAttempt>>

\* One tick of the clock, as the breaker sees it.
BreakerTick ==
  /\ sinceFailure' = IF sinceFailure > ResetTimeout
                     THEN sinceFailure ELSE sinceFailure + 1
  /\ sinceAttempt' = IF sinceAttempt > HalfOpenTimeout
                     THEN sinceAttempt ELSE sinceAttempt + 1
  /\ UNCHANGED <<state, failures>>

-----------------------------------------------------------------------------
(* A breaker that lets every request through has not seen its fill of       *)
(* consecutive failures: whatever order the outcomes of overlapping         *)
(* requests, resets and lock upgrades arrive in, a closed circuit always    *)
(* has failures left before it opens (Failure and Success, circuit.go).     *)
ClosedBelowThreshold == state = "closed" => failures < MaxFailures
=============================================================================
