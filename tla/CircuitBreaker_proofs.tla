----------------------- MODULE CircuitBreaker_proofs ------------------------
(***************************************************************************)
(* Facts about the atomic steps of the breaker, for every configuration.   *)
(* The modules that call the breaker prove their invariants from them.     *)
(***************************************************************************)
EXTENDS CircuitBreaker, TLAPS

BreakerInv == BreakerTypeOK /\ ClosedBelowThreshold

\* NewCircuitBreaker returns a breaker that satisfies the invariant.
LEMMA NewBreakerInv == NewCircuitBreaker => BreakerInv
  BY BreakerAssumption
  DEF NewCircuitBreaker, BreakerInv, BreakerTypeOK, ClosedBelowThreshold,
      CircuitBreakerState

\* Every method of circuit.go, and the passing of time, preserves it: in
\* particular a half-open circuit closes only together with failures = 0.
LEMMA BreakerStepInv ==
  ASSUME BreakerInv,
         \/ UpgradeToHalfOpen \/ Success \/ Failure \/ Reset \/ BreakerTick
         \/ UNCHANGED breakerVars
  PROVE  BreakerInv'
<1> USE BreakerAssumption
        DEF BreakerInv, BreakerTypeOK, ClosedBelowThreshold, CircuitBreakerState
<1>1. CASE UpgradeToHalfOpen
  BY <1>1 DEF UpgradeToHalfOpen
<1>2. CASE Success
  BY <1>2 DEF Success
<1>3. CASE Failure
  BY <1>3 DEF Failure
<1>4. CASE Reset
  BY <1>4 DEF Reset
<1>5. CASE BreakerTick
  BY <1>5 DEF BreakerTick
<1>6. CASE UNCHANGED breakerVars
  BY <1>6 DEF breakerVars
<1>7. QED
  BY <1>1, <1>2, <1>3, <1>4, <1>5, <1>6
=============================================================================
