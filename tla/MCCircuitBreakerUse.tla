------------------------ MODULE MCCircuitBreakerUse -------------------------
(* Three overlapping requests: enough for one to sit between Allow's two    *)
(* locks while a second probes and a third reports a late failure.          *)
EXTENDS CircuitBreakerUse, TLC

CONSTANTS r1, r2, r3

MCRequests == {r1, r2, r3}
RequestSymmetry == Permutations(MCRequests)
=============================================================================
