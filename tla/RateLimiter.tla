---------------------------- MODULE RateLimiter -----------------------------
(***************************************************************************)
(* The rate limiter of limiter/limiter.go.  Every method runs under its    *)
(* mutex, so each is one step.  The code keeps, per user and interval, a   *)
(* count and the start of a window, and only asks whether the window has   *)
(* ended: the model keeps the window's age, saturated at the interval.  A  *)
(* user that is not in the map, or has no entry for an interval, is one    *)
(* whose window has ended with a count of 0: AllowRequest treats them      *)
(* alike.                                                                  *)
(***************************************************************************)
EXTENDS Integers, Sequences

CONSTANTS
  Users,
  Configurations,   \* sequences of limits, each with Interval and MaxCount
  Horizon           \* the observer's memory, in ticks

\* The constructor checks nothing; these are the limits that make sense.
ASSUME LimiterAssumption ==
  /\ Horizon \in Nat
  /\ Configurations \subseteq Seq([Interval : 1..Horizon, MaxCount : Nat \ {0}])

VARIABLES
  rateLimits,     \* rl.rateLimits, never changed
  windowAge,      \* age of lastRequests, per user and interval, saturated
  requestCounts,  \* the counts, per user and interval
  admitted        \* observer: per user, how many were admitted so many ticks ago

Intervals == {rateLimits[i].Interval : i \in DOMAIN rateLimits}

limiterVars == <<rateLimits, windowAge, requestCounts, admitted>>

LimiterTypeOK ==
  \A u \in Users :
    /\ DOMAIN windowAge[u] = Intervals /\ DOMAIN requestCounts[u] = Intervals
    /\ \A interval \in Intervals : windowAge[u][interval] \in 0..interval
    /\ \A i \in DOMAIN rateLimits : \E j \in DOMAIN rateLimits :
         /\ rateLimits[j].Interval = rateLimits[i].Interval
         /\ requestCounts[u][rateLimits[i].Interval] \in 0..rateLimits[j].MaxCount

NewUser == [Age |-> [interval \in Intervals |-> interval],
            Count |-> [interval \in Intervals |-> 0]]

NewRateLimiter ==
  /\ rateLimits \in Configurations
  /\ windowAge = [u \in Users |-> NewUser.Age]
  /\ requestCounts = [u \in Users |-> NewUser.Count]
  /\ admitted = [u \in Users |-> [age \in 0..(Horizon - 1) |-> 0]]

-----------------------------------------------------------------------------
\* Mutated form: every request that is looked at begins a new window.
ChargeAndRenew(user, limit) ==
  LET i == limit.Interval
      n == IF user.Age[i] >= i THEN 0 ELSE user.Count[i]
      opened == [user EXCEPT !.Age[i] = 0, !.Count[i] = n]
  IN IF ~user.Ok THEN user
     ELSE IF n >= limit.MaxCount THEN [opened EXCEPT !.Ok = FALSE]
     ELSE [opened EXCEPT !.Count[i] = n + 1]

\* One turn of AllowRequest's loop: a window that has ended begins anew, a
\* full one refuses, and what earlier turns counted stays counted.
Charge(user, limit) ==
  LET i == limit.Interval
      opened == IF user.Age[i] >= i
                THEN [user EXCEPT !.Age[i] = 0, !.Count[i] = 0] ELSE user
  IN IF ~user.Ok THEN user
     ELSE IF opened.Count[i] >= limit.MaxCount THEN [opened EXCEPT !.Ok = FALSE]
     ELSE [opened EXCEPT !.Count[i] = @ + 1]

\* The loop: turn[n] is what the first n limits make of the user.
Charged(age, count) ==
  LET turn[n \in 0..Len(rateLimits)] ==
        IF n = 0 THEN [Age |-> age, Count |-> count, Ok |-> TRUE]
        ELSE Charge(turn[n - 1], rateLimits[n])
  IN turn[Len(rateLimits)]

AllowRequest(u) ==
  LET user == Charged(windowAge[u], requestCounts[u]) IN
  /\ windowAge' = [windowAge EXCEPT ![u] = user.Age]
  /\ requestCounts' = [requestCounts EXCEPT ![u] = user.Count]
  /\ admitted' = IF user.Ok THEN [admitted EXCEPT ![u][0] = @ + 1] ELSE admitted
  /\ UNCHANGED rateLimits

\* Mutated form: a user is removed when one of the windows has ended.
ForgetsAnyEnded(u) == \E interval \in Intervals : windowAge[u][interval] >= interval

Forgets(u) == \A interval \in Intervals : windowAge[u][interval] >= interval

\* cleanupRoutine, each time it wakes up.
CleanupUsers ==
  /\ \E u \in Users : Forgets(u)
  /\ windowAge' = [u \in Users |-> IF Forgets(u) THEN NewUser.Age ELSE windowAge[u]]
  /\ requestCounts' = [u \in Users |-> IF Forgets(u) THEN NewUser.Count ELSE requestCounts[u]]
  /\ UNCHANGED <<rateLimits, admitted>>

LimiterTick ==
  /\ windowAge' = [u \in Users |-> [interval \in Intervals |->
       IF windowAge[u][interval] < interval THEN windowAge[u][interval] + 1 ELSE interval]]
  /\ admitted' = [u \in Users |-> [age \in 0..(Horizon - 1) |->
       IF age = 0 THEN 0 ELSE admitted[u][age - 1]]]
  /\ UNCHANGED <<rateLimits, requestCounts>>

LimiterNext == (\E u \in Users : AllowRequest(u)) \/ CleanupUsers \/ LimiterTick

(* Time passes, and every user keeps asking.                                *)
LimiterFairness ==
  /\ WF_limiterVars(LimiterTick)
  /\ \A u \in Users : WF_limiterVars(AllowRequest(u))

LimiterSpec == NewRateLimiter /\ [][LimiterNext]_limiterVars /\ LimiterFairness

\* Mutated form: the time is counted from now, not from the window's start.
NextActionInFromNow(u) ==
  LET ends == {interval \in Intervals : \E i \in DOMAIN rateLimits :
         /\ rateLimits[i].Interval = interval
         /\ requestCounts[u][interval] >= rateLimits[i].MaxCount}
  IN IF ends = {} THEN 0 ELSE CHOOSE d \in ends : \A e \in ends : d <= e

\* NextActionTime, as the ticks from now until the time it returns: the first
\* of the full windows to end.
NextActionIn(u) ==
  LET full == {interval \in Intervals : \E i \in DOMAIN rateLimits :
         /\ rateLimits[i].Interval = interval
         /\ requestCounts[u][interval] >= rateLimits[i].MaxCount}
      ends == {interval - windowAge[u][interval] : interval \in full}
  IN IF full = {} THEN 0 ELSE CHOOSE d \in ends : \A e \in ends : d <= e

-----------------------------------------------------------------------------
(* "The maximum number of requests that can be made per time interval"      *)
(* (limiter.go:8): windows begin when the code says, not when one looks, so  *)
(* an interval can overlap two of them, but not three: no interval sees     *)
(* more than twice its maximum, whatever refusals, other limits and the     *)
(* clean-up do to the windows.                                              *)
Totals(counts) ==
  LET upTo[n \in 0..Horizon] == IF n = 0 THEN 0 ELSE upTo[n - 1] + counts[n - 1]
  IN upTo
AdmittedWithin(u, interval) == Totals(admitted[u])[interval]

AtMostTwoWindowsPerInterval ==
  \A u \in Users : \A i \in DOMAIN rateLimits :
    AdmittedWithin(u, rateLimits[i].Interval) <= 2 * rateLimits[i].MaxCount

(* A user who would be refused now, and keeps asking, is admitted later:    *)
(* refused requests, which are counted by the limits before the one that    *)
(* refuses (limiter.go:87-91), do not keep the windows from ending.         *)
PersistentUserIsAdmitted ==
  \A u \in Users :
    ~Charged(windowAge[u], requestCounts[u]).Ok ~> admitted[u][0] > 0

(* NextActionTime (limiter.go:97) never makes a user wait who need not: at  *)
(* every moment before the time it returns, a request would be refused.  It *)
(* may return too early a time: the first full window ends, others need not *)
(* (limiter.go:111).                                                        *)
NoNeedlessWait ==
  \A u \in Users : \A d \in 0..(NextActionIn(u) - 1) :
    LET then == [interval \in Intervals |->
          LET age == windowAge[u][interval] + d IN IF age < interval THEN age ELSE interval]
    IN ~Charged(then, requestCounts[u]).Ok
=============================================================================
