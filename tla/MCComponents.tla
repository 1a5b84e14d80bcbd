---------------------------- MODULE MCComponents ----------------------------
(***************************************************************************)
(* The components that stand alone, each in an instance of its own: the    *)
(* state space is the sum of theirs.                                       *)
(***************************************************************************)
EXTENDS Components

CONSTANTS r1, r2, r3, g1, g2, g3, c1, c2, c3, c4, t1, t2

MCRequests == {r1, r2, r3}
MCGoroutines == {g1, g2, g3}
MCChannels == {c1, c2, c3, c4}
MCThreads == {t1, t2}

\* A short limit before a long one, a long one first, three, two of one interval.
Limit(interval, count) == [Interval |-> interval, MaxCount |-> count]
MCConfigurations ==
  {<<Limit(1, 1), Limit(5, 2)>>, <<Limit(5, 3), Limit(3, 2)>>,
   <<Limit(2, 1), Limit(3, 1), Limit(4, 1)>>, <<Limit(3, 3), Limit(3, 2)>>}

\* Two calls, with a task each that calls RunTasks itself.
MCTasksOf ==
  [c \in {"a", "b", "a1", "b1"} |->
     CASE c = "a" -> <<"a1", "a2">> [] c = "b" -> <<"b1">>
       [] c = "a1" -> <<"a3">> [] c = "b1" -> <<"b2">>]

MCServerConfigs ==
  [enableBrotli : BOOLEAN, writeTimeout : 1..2, timeoutDuration : 1..2]

\* A part that does not move has one initial state only.
MCInit ==
  /\ ComponentsInit
  /\ part # "breaker" => healthy
  /\ done = c1
  /\ part # "limiter" => rateLimits = <<Limit(5, 3), Limit(3, 2)>>
  /\ part # "server" =>
       config = [enableBrotli |-> FALSE, writeTimeout |-> 1, timeoutDuration |-> 1]

(* The fairness of the components.  Their behaviours never mix, so one      *)
(* condition serves an actor of each: the i-th request, goroutine, user,    *)
(* thread, or caller and task.  Steps of an actor that are enabled at       *)
(* different places and stay so until it moves share a condition.           *)
RequestOrder == <<r1, r2, r3>>
GoroutineOrder == <<g1, g2, g3>>
ThreadOrder == <<t1, t2>>
CallOrder == <<"a", "b", "a1", "a2", "a3", "b1", "b2">>
Goes(c) == (c \in Calls /\ CallGoes(c)) \/ (c \in Tasks /\ TaskGoes(c))

Strongly(i) ==
  \/ part = "breaker" /\ EndWithSuccess(RequestOrder[i]) /\ Rest("breaker")
  \/ part = "completion" /\ CompleteClose(GoroutineOrder[i]) /\ Rest("completion")
  \/ part = "map" /\ i \in DOMAIN ThreadOrder /\ LockObtained(ThreadOrder[i]) /\ Rest("map")

Weakly(i) ==
  \/ /\ part = "breaker" /\ i \in DOMAIN RequestOrder
     /\ Allow(RequestOrder[i]) \/ AllowUpgrade(RequestOrder[i])
     /\ Rest("breaker")
  \/ /\ part = "completion" /\ i \in DOMAIN GoroutineOrder
     /\ ResetRenew(GoroutineOrder[i]) \/ WaitEnds(GoroutineOrder[i])
     /\ Rest("completion")
  \/ part = "limiter" /\ i = 1 /\ (\E u \in Users : AllowRequest(u)) /\ Rest("limiter")
  \/ part = "map" /\ i \in DOMAIN ThreadOrder /\ CallGoesOn(ThreadOrder[i]) /\ Rest("map")
  \/ part = "runner" /\ Goes(CallOrder[i]) /\ Rest("runner")

Clockwork ==
  \/ part = "breaker" /\ Tick /\ Rest("breaker")
  \/ part = "limiter" /\ LimiterTick /\ Rest("limiter")
  \/ part = "runner" /\ TakeTask /\ Rest("runner")

MCFairness ==
  /\ \A i \in DOMAIN RequestOrder : SF_allVars(Strongly(i))
  /\ \A i \in DOMAIN CallOrder : WF_allVars(Weakly(i))
  /\ WF_allVars(Clockwork)

MCSpec == MCInit /\ [][ComponentsNext]_allVars /\ MCFairness
=============================================================================
