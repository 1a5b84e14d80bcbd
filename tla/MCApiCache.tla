----------------------------- MODULE MCApiCache -----------------------------
EXTENDS ApiCache, TLC

CONSTANTS c1, c2, r1, r2, b1, empty, k1, k2

OneCaller == {c1}
TwoCallers == {c1, c2}
OneRefresher == {r1}
TwoRefreshers == {r1, r2}
OneBatcher == {b1}
NoBatcher == {}
NoRefresher == {}
OneKey == {k1}
TwoKeys == {empty, k1}

\* Two callers and a refresh share the key k1, whose source changes, or a
\* caller and a batch use both keys.
Bound ==
  /\ source[empty] = 1
  /\ \/ /\ \A b \in Batchers : batch[b] = NoBatch
        /\ empty \notin cached
        /\ \A g \in Goroutines : go[g].key # empty
     \/ go[c2] = Idle /\ go[r1] = Idle /\ source[k1] = 1

\* Without the fairness that makes callers call: no step it asks for leaves the
\* bound.
MCSpec ==
  /\ Init /\ [][Next]_vars
  /\ \A g \in Goroutines : WF_vars(CoalesceStep(g)) /\ WF_vars(LeaderStep(g))

\* The source has just changed for the last time.  Its previous value is cached,
\* stale, and about to be stored again by a caller that missed it before (store)
\* and by the refresh that stored it (the second set).  An empty cache without
\* calls is among the states that follow.
LastChange ==
  /\ source = [k \in Keys |-> MaxVersion]
  /\ healthy \in BOOLEAN
  /\ NewCircuitBreaker
  /\ cached = Keys /\ older = {}
  /\ items = [k \in Keys |-> [ver |-> 1, age |-> TTL, coalesced |-> TRUE]]
  /\ inflight = [k \in Keys |-> c1]
  /\ go = [g \in Goroutines |->
       CASE g = c1 -> [Idle EXCEPT !.pc = "store", !.key = k1, !.val = 1]
         [] g = r1 -> [Idle EXCEPT !.pc = "restore", !.key = k1, !.val = 1]
         [] OTHER -> Idle]
  /\ batch = [b \in Batchers |-> NoBatch]

LastChangeSpec == LastChange /\ [][Next]_vars /\ Fairness

=============================================================================
