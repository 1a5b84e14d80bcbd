------------------------- MODULE CircuitBreakerUse --------------------------
(***************************************************************************)
(* The breaker under concurrent requests.  A request calls Allow and, when *)
(* admitted, reports Success, reports Failure, or ends without a report:   *)
(* GetOrFetch does that when the cache answers or another request's fetch  *)
(* does.  healthy is the environment: a source that is healthy does not    *)
(* fail.                                                                   *)
(***************************************************************************)
EXTENDS CircuitBreaker, FiniteSets

CONSTANT Requests   \* concurrent requests; each starts again when it ends

VARIABLES
  pc,       \* where each request is
  probe,    \* requests admitted by the half-open branch of Allow
  healthy   \* whether the source answers

vars == <<breakerVars, pc, probe, healthy>>

TypeOK ==
  /\ BreakerTypeOK
  /\ pc \in [Requests -> {"idle", "upgrade", "admitted"}]
  /\ probe \in SUBSET Requests
  /\ healthy \in BOOLEAN

Init ==
  /\ NewCircuitBreaker
  /\ pc = [r \in Requests |-> "idle"]
  /\ probe = {}
  /\ healthy \in BOOLEAN

-----------------------------------------------------------------------------
Goto(r, from, to) ==
  /\ pc[r] = from
  /\ pc' = [pc EXCEPT ![r] = to]

AllowAdmit(r) ==
  /\ AdmitsNow
  /\ Goto(r, "idle", "admitted")
  /\ probe' = IF state = "halfOpen" THEN probe \union {r} ELSE probe
  /\ UNCHANGED <<breakerVars, healthy>>

AllowCheckExpired(r) ==
  /\ MustUpgrade
  /\ Goto(r, "idle", "upgrade")
  /\ UNCHANGED <<breakerVars, probe, healthy>>

AllowRefuse(r) ==
  /\ Refuses
  /\ Goto(r, "idle", "idle")
  /\ UNCHANGED <<breakerVars, probe, healthy>>

AllowUpgrade(r) ==
  /\ Goto(r, "upgrade", "admitted")
  /\ UpgradeToHalfOpen
  /\ UNCHANGED <<probe, healthy>>

EndWithSuccess(r) ==
  /\ Goto(r, "admitted", "idle")
  /\ Success
  /\ probe' = probe \ {r}
  /\ UNCHANGED healthy

EndWithFailure(r) ==
  /\ ~healthy
  /\ Goto(r, "admitted", "idle")
  /\ Failure
  /\ probe' = probe \ {r}
  /\ UNCHANGED healthy

EndWithoutReport(r) ==
  /\ Goto(r, "admitted", "idle")
  /\ probe' = probe \ {r}
  /\ UNCHANGED <<breakerVars, healthy>>

OperatorReset ==
  /\ Reset
  /\ UNCHANGED <<pc, probe, healthy>>

Tick ==
  /\ BreakerTick
  /\ UNCHANGED <<pc, probe, healthy>>

SourceChanges ==
  /\ healthy' = ~healthy
  /\ UNCHANGED <<breakerVars, pc, probe>>

Allow(r) == AllowAdmit(r) \/ AllowCheckExpired(r) \/ AllowRefuse(r)

Next ==
  \/ \E r \in Requests :
       \/ Allow(r) \/ AllowUpgrade(r)
       \/ EndWithSuccess(r) \/ EndWithFailure(r) \/ EndWithoutReport(r)
  \/ OperatorReset \/ Tick \/ SourceChanges

(* Time passes; requests keep arriving, and one that holds an admission     *)
(* ends; a request that is admitted again and again reaches the source      *)
(* again and again, since cached items expire.                              *)
Fairness ==
  /\ WF_vars(Tick)
  /\ \A r \in Requests :
       WF_vars(Allow(r)) /\ WF_vars(AllowUpgrade(r)) /\ SF_vars(EndWithSuccess(r))

Spec == Init /\ [][Next]_vars /\ Fairness

-----------------------------------------------------------------------------
(* Once the source stays healthy the circuit closes for good, from any      *)
(* mixture of late failures, stale lock upgrades and half-open requests.    *)
RecoversWhenHealthy == <>[]healthy => <>[](state = "closed")

(* Even if the source never recovers, the breaker does not refuse for ever: *)
(* again and again it would admit a request.                                *)
NeverRefusesForever == []<>~Refuses

(* "Only allow one request in half-open state" (circuit.go:87): at most one *)
(* request that the half-open branch of Allow let through is outstanding.   *)
HalfOpenSingleProbe == Cardinality(probe) <= 1
=============================================================================
