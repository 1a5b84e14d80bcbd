------------------------- MODULE Components_proofs --------------------------
(***************************************************************************)
(* The components that stand alone, for any threads, keys, requests, tasks,*)
(* workers, users and limits: the circuit breaker under concurrent use, the*)
(* completion, the safe map, the server's middleware, the task runner, the *)
(* store's files, the rate limiter; the file of the API cache; and all of  *)
(* them side by side.                                                      *)
(***************************************************************************)
EXTENDS Components, CircuitBreaker_proofs, Loops, FiniteSetTheorems, SequenceTheorems, TLAPS

\* Circuit breaker: its invariants under any number of concurrent requests.

\* What a step of the concurrent use does to the breaker.
LEMMA UseStepsBreaker ==
  ASSUME Next
  PROVE  \/ UpgradeToHalfOpen \/ Success \/ Failure \/ Reset \/ BreakerTick
         \/ UNCHANGED breakerVars
  BY DEF Next, Allow, AllowAdmit, AllowCheckExpired, AllowRefuse, AllowUpgrade,
         EndWithSuccess, EndWithFailure, EndWithoutReport, OperatorReset, Tick,
         SourceChanges

UseInv == TypeOK /\ ClosedBelowThreshold

\* A new breaker with idle requests satisfies the invariant.
LEMMA UseInvInit == Init => UseInv
  BY NewBreakerInv DEF Init, UseInv, TypeOK, BreakerInv

\* Every step of requests, operator, clock and source preserves it.
LEMMA UseInvStep == UseInv /\ [Next]_vars => UseInv'
<1> SUFFICES ASSUME UseInv, [Next]_vars PROVE UseInv'
  OBVIOUS
<1>1. CASE UNCHANGED vars
  BY <1>1 DEF vars, breakerVars, UseInv, TypeOK, BreakerTypeOK, ClosedBelowThreshold
<1>2. CASE Next
  <2>1. BreakerInv'
    BY <1>2, UseStepsBreaker, BreakerStepInv DEF UseInv, TypeOK, BreakerInv
  <2>2. (pc' \in [Requests -> {"idle", "upgrade", "admitted"}])
        /\ probe' \in SUBSET Requests /\ healthy' \in BOOLEAN
    BY <1>2 DEF UseInv, TypeOK, Next, Allow, AllowAdmit, AllowCheckExpired, AllowRefuse,
       AllowUpgrade, EndWithSuccess, EndWithFailure, EndWithoutReport,
       OperatorReset, Tick, SourceChanges, Goto
  <2>3. QED
    BY <2>1, <2>2 DEF UseInv, TypeOK, BreakerInv
<1>3. QED
  BY <1>1, <1>2

\* For any number of requests and any configuration, the state of the breaker
\* is well formed and a closed circuit is below its failure threshold: no
\* order of late outcomes, lock upgrades and resets breaks the link between
\* state and failures that Success and Failure maintain in separate branches.
THEOREM BreakerSafe == Spec => [](TypeOK /\ ClosedBelowThreshold)
<1>1. UseInv => TypeOK /\ ClosedBelowThreshold
  BY DEF UseInv
<1>2. QED
  BY UseInvInit, UseInvStep, <1>1, PTL DEF Spec

-----------------------------------------------------------------------------
\* Completion: no waiter is stranded.

Waiting(g) == at[g] = "wait"

\* A waiter's channel is closed or the present one, and while the flag is set a
\* Complete is on its way to an open channel, and to one that is about to be
\* replaced.
CompleterInv ==
  /\ CompleterTypeOK
  /\ \A g \in Goroutines : Waiting(g) => waitsOn[g] \in closed \/ waitsOn[g] = done
  /\ complete /\ (done \notin closed \/ ~MuFree) => \E h \in Goroutines : at[h] = "close"

(* The flag, the channels and the goroutines stay well formed under each    *)
(* half of Complete, Reset and Wait (completion.go:11-82).                  *)
LEMMA CompleterTypesStep ==
  CompleterTypeOK /\ [CompleterNext]_completerVars => CompleterTypeOK'
<1> SUFFICES ASSUME CompleterTypeOK, [CompleterNext]_completerVars
             PROVE  CompleterTypeOK'
  OBVIOUS
<1> USE DEF CompleterTypeOK
<1>1. ASSUME NEW g \in Goroutines, CompleteFlag(g) PROVE CompleterTypeOK'
  BY <1>1 DEF CompleteFlag, Move
<1>2. ASSUME NEW g \in Goroutines, CompleteClose(g) PROVE CompleterTypeOK'
  BY <1>2 DEF CompleteClose, Move
<1>3. ASSUME NEW g \in Goroutines, ResetSwap(g) PROVE CompleterTypeOK'
  BY <1>3 DEF ResetSwap, Move
<1>4. ASSUME NEW g \in Goroutines, ResetRenew(g) PROVE CompleterTypeOK'
  BY <1>4 DEF ResetRenew, Move, Unused
<1>5. ASSUME NEW g \in Goroutines, Wait(g) PROVE CompleterTypeOK'
  BY <1>5, CompletionAssumption DEF Wait, Move
<1>6. ASSUME NEW g \in Goroutines, WaitEnds(g) PROVE CompleterTypeOK'
  BY <1>6 DEF WaitEnds, Move
<1>7. CASE UNCHANGED completerVars
  BY <1>7 DEF completerVars
<1> QED BY <1>1, <1>2, <1>3, <1>4, <1>5, <1>6, <1>7 DEF CompleterNext

(* The two halves of Complete keep their promise to an open channel across  *)
(* every interleaving with Resets and Waits.                                *)
LEMMA CompleterInvStep == CompleterInv /\ [CompleterNext]_completerVars => CompleterInv'
<1> SUFFICES ASSUME CompleterInv, [CompleterNext]_completerVars PROVE CompleterInv'
  OBVIOUS
<1>1. CompleterTypeOK /\ CompleterTypeOK'
  BY CompleterTypesStep DEF CompleterInv
<1> USE <1>1 DEF CompleterInv, Waiting, MuFree
<1>2. ASSUME NEW g \in Goroutines, CompleteFlag(g) PROVE CompleterInv'
  BY <1>2 DEF CompleteFlag, Move, CompleterTypeOK
<1>3. ASSUME NEW g \in Goroutines, CompleteClose(g) PROVE CompleterInv'
  BY <1>3 DEF CompleteClose, Move, CompleterTypeOK
<1>4. ASSUME NEW g \in Goroutines, ResetSwap(g) PROVE CompleterInv'
  BY <1>4 DEF ResetSwap, Move, CompleterTypeOK
<1>5. ASSUME NEW g \in Goroutines, ResetRenew(g) PROVE CompleterInv'
  <2>1. PICK ch \in Unused : done' = ch /\ closed' = (closed \union {done}) \ {ch}
    BY <1>5 DEF ResetRenew
  \* What is waited for was closed or is being closed, and is not made again.
  <2>2. ASSUME NEW h \in Goroutines, Waiting(h)' PROVE waitsOn'[h] \in closed'
    <3>1. Waiting(h) /\ waitsOn' = waitsOn
      BY <1>5, <2>2 DEF ResetRenew, Move, CompleterTypeOK
    <3> QED BY <2>1, <3>1 DEF Unused
  \* A Complete that has set the flag during the Reset has yet to close.
  <2>3. complete' => \E h \in Goroutines : at'[h] = "close"
    <3>1. SUFFICES ASSUME complete PROVE \E h \in Goroutines : at'[h] = "close"
      BY <1>5 DEF ResetRenew
    <3>2. PICK h \in Goroutines : at[h] = "close"
      BY <1>5, <3>1 DEF ResetRenew, Move
    <3> QED BY <1>5, <3>2 DEF ResetRenew, Move, CompleterTypeOK
  <2> QED BY <2>2, <2>3
<1>6. ASSUME NEW g \in Goroutines, Wait(g) PROVE CompleterInv'
  BY <1>6 DEF Wait, Move, CompleterTypeOK
<1>7. ASSUME NEW g \in Goroutines, WaitEnds(g) PROVE CompleterInv'
  BY <1>7 DEF WaitEnds, Move, CompleterTypeOK
<1>8. CASE UNCHANGED completerVars
  BY <1>8 DEF completerVars, CompleterTypeOK
<1> QED BY <1>2, <1>3, <1>4, <1>5, <1>6, <1>7, <1>8 DEF CompleterNext

(* A new completion satisfies the invariant.                                *)
LEMMA CompleterInvInit == NewCompleter => CompleterInv
BY DEF NewCompleter, CompleterInv, CompleterTypeOK, Waiting

(* Whatever Resets come between the two halves of Complete, nobody waits on *)
(* a channel that nothing will close (completion.go:27-36, 47-60).          *)
THEOREM NobodyIsStranded == CompleterSpec => [](CompleterTypeOK /\ WaitersAreNotStranded)
<1>1. CompleterInv => CompleterTypeOK /\ WaitersAreNotStranded
  BY DEF CompleterInv, WaitersAreNotStranded, Waiting
<1> QED BY <1>1, CompleterInvInit, CompleterInvStep, PTL DEF CompleterSpec

-----------------------------------------------------------------------------
\* Safe map: a Range goes through what the map holds.

\* A thread that has something left to iterate over, in a callback's call too.
Iterating(t) == DOMAIN copy[t] # {}

\* Such a thread holds the read lock, and its copy is part of the map.
MapInv ==
  /\ MapTypeOK
  /\ \A t \in MapThreads : Iterating(t) => t \in readers
  /\ CallbacksSeeTheMap

(* What is left of a copy when some of its keys have been visited.          *)
LEMMA RestrictCopy ==
  ASSUME NEW c \in UNION {[ks -> MapValues] : ks \in SUBSET Keys},
         NEW ks \in SUBSET DOMAIN c
  PROVE  /\ Restrict(c, ks) \in UNION {[us -> MapValues] : us \in SUBSET Keys}
         /\ DOMAIN Restrict(c, ks) = ks
         /\ \A k \in ks : Restrict(c, ks)[k] = c[k]
<1>1. PICK us \in SUBSET Keys : c \in [us -> MapValues]
  OBVIOUS
<1>2. Restrict(c, ks) \in [ks -> MapValues]
  BY <1>1 DEF Restrict
<1> QED BY <1>1, <1>2 DEF Restrict

(* A callback's turn leaves less to visit of the copy, and nothing new.     *)
LEMMA Visited ==
  ASSUME MapInv, NEW t \in MapThreads, Iterating(t),
         NEW ks \in SUBSET DOMAIN copy[t],
         copy' = [copy EXCEPT ![t] = Restrict(@, ks)],
         UNCHANGED <<items, readers>>,
         mapPc' \in [MapThreads -> {"idle", "lock", "writer", "rlock", "range", "nested"}]
  PROVE  MapInv'
<1>1. copy[t] \in UNION {[us -> MapValues] : us \in SUBSET Keys}
  BY DEF MapInv, MapTypeOK
<1>2. /\ copy'[t] \in UNION {[us -> MapValues] : us \in SUBSET Keys}
      /\ DOMAIN copy'[t] = ks
      /\ \A k \in ks : copy'[t][k] = copy[t][k]
  BY <1>1, RestrictCopy DEF MapInv, MapTypeOK
<1>3. \A u \in MapThreads \ {t} : copy'[u] = copy[u]
  BY DEF MapInv, MapTypeOK
<1>4. MapTypeOK'
  BY <1>2, <1>3 DEF MapInv, MapTypeOK
<1>5. CallbacksSeeTheMap'
  BY <1>2, <1>3 DEF MapInv, CallbacksSeeTheMap
<1>6. ASSUME NEW u \in MapThreads, Iterating(u)' PROVE u \in readers'
  BY <1>3, <1>6 DEF MapInv, Iterating
<1> QED BY <1>4, <1>5, <1>6 DEF MapInv

(* Waiting for a lock, or obtaining the write lock, changes no copy.        *)
LEMMA OnlyMoves ==
  ASSUME MapInv, NEW t \in MapThreads,
         NEW to \in {"lock", "writer", "rlock", "nested"},
         mapPc' = [mapPc EXCEPT ![t] = to],
         UNCHANGED <<items, readers, copy>>
  PROVE  MapInv'
<1>1. MapTypeOK'
  BY DEF MapInv, MapTypeOK
<1> QED BY <1>1 DEF MapInv, CallbacksSeeTheMap, Iterating

(* A writer writes when no one iterates, itself included; a Range copies    *)
(* while it keeps writers out.                                              *)
LEMMA MapInvStep == MapInv /\ [MapNext]_mapVars => MapInv'
<1> SUFFICES ASSUME MapInv, [MapNext]_mapVars PROVE MapInv'
  OBVIOUS
<1>1. ASSUME NEW t \in MapThreads, CallWrite(t) \/ AnnounceWriter(t) \/ CallRange(t)
             \/ CallbackCallsGet(t) \/ CallbackCallsWrite(t)
      PROVE  MapInv'
  BY <1>1, OnlyMoves
     DEF CallWrite, AnnounceWriter, CallRange, CallbackCallsGet, CallbackCallsWrite, MapGoto
<1>2. ASSUME NEW t \in MapThreads, WriteAndUnlock(t) PROVE MapInv'
  <2>1. items' \in Contents
    BY <1>2 DEF WriteAndUnlock, Set, GetOrSet, Delete, SetMap, Contents, MapInv, MapTypeOK
  <2>2. copy' = copy /\ \A u \in MapThreads : ~Iterating(u)
    BY <1>2 DEF WriteAndUnlock, MapInv
  <2> QED BY <1>2, <2>1, <2>2
      DEF WriteAndUnlock, MapGoto, MapInv, MapTypeOK, CallbacksSeeTheMap, Iterating
<1>3. ASSUME NEW t \in MapThreads, RangeCopies(t) PROVE MapInv'
  <2> DEFINE ks == {k \in Keys : items[k] # Absent}
  <2>1. Restrict(items, ks) \in [ks -> MapValues]
    BY DEF Restrict, MapInv, MapTypeOK, Contents
  <2>2. MapTypeOK'
    BY <1>3, <2>1 DEF RangeCopies, MapGoto, MapInv, MapTypeOK
  <2>3. /\ copy'[t] = Restrict(items, ks)
        /\ \A u \in MapThreads \ {t} : copy'[u] = copy[u]
        /\ items' = items /\ readers' = readers \union {t}
    BY <1>3 DEF RangeCopies, MapGoto, MapInv, MapTypeOK
  <2>4. CallbacksSeeTheMap'
    BY <2>1, <2>3 DEF MapInv, CallbacksSeeTheMap, Restrict
  <2>5. ASSUME NEW u \in MapThreads, Iterating(u)' PROVE u \in readers'
    BY <2>3, <2>5 DEF MapInv, Iterating
  <2> QED BY <2>2, <2>4, <2>5 DEF MapInv
<1>4. ASSUME NEW t \in MapThreads, RangeCallback(t) \/ NestedGetReturns(t) PROVE MapInv'
  <2>1. PICK k \in DOMAIN copy[t] :
          copy' = [copy EXCEPT ![t] = Restrict(@, DOMAIN @ \ {k})]
    BY <1>4 DEF RangeCallback, NestedGetReturns
  <2> DEFINE rest == DOMAIN copy[t] \ {k}
  <2>2. rest \in SUBSET DOMAIN copy[t] /\ copy' = [copy EXCEPT ![t] = Restrict(@, rest)]
    BY <2>1 DEF MapInv, MapTypeOK
  <2>3. Iterating(t) /\ UNCHANGED <<items, readers>>
    BY <1>4, <2>1 DEF RangeCallback, NestedGetReturns, Iterating
  <2>4. mapPc' = mapPc \/ mapPc' = [mapPc EXCEPT ![t] = "range"]
    BY <1>4 DEF RangeCallback, NestedGetReturns, MapGoto
  <2>5. mapPc' \in [MapThreads -> {"idle", "lock", "writer", "rlock", "range", "nested"}]
    BY <2>4 DEF MapInv, MapTypeOK
  <2> HIDE DEF rest
  <2> QED BY <2>2, <2>3, <2>5, Visited
<1>5. ASSUME NEW t \in MapThreads, RangeReturns(t) PROVE MapInv'
  <2>1. NoCopy \in [{} -> MapValues] /\ DOMAIN NoCopy = {}
    BY DEF NoCopy
  <2>2. MapTypeOK'
    BY <1>5, <2>1 DEF RangeReturns, MapGoto, MapInv, MapTypeOK
  <2>3. \A u \in MapThreads : Iterating(u)' =>
          Iterating(u) /\ u # t /\ copy'[u] = copy[u]
    BY <1>5, <2>1 DEF RangeReturns, MapInv, MapTypeOK, Iterating
  <2> QED BY <1>5, <2>2, <2>3 DEF RangeReturns, MapInv, CallbacksSeeTheMap, Iterating
<1>6. CASE UNCHANGED mapVars
  BY <1>6 DEF mapVars, MapInv, MapTypeOK, CallbacksSeeTheMap, Iterating
<1> QED BY <1>1, <1>2, <1>3, <1>4, <1>5, <1>6 DEF MapNext

(* A new map satisfies the invariant.                                       *)
LEMMA MapInvInit == NewSafeMap => MapInv
<1> SUFFICES ASSUME NewSafeMap PROVE MapInv
  OBVIOUS
<1>1. NoCopy \in [{} -> MapValues] /\ {} \in SUBSET Keys /\ DOMAIN NoCopy = {}
  BY DEF NoCopy
<1>2. NoCopy \in UNION {[ks -> MapValues] : ks \in SUBSET Keys}
  BY <1>1, Zenon
<1>3. MapTypeOK
  BY <1>2 DEF NewSafeMap, MapTypeOK, Contents
<1>4. \A t \in MapThreads : DOMAIN copy[t] = {}
  BY <1>1 DEF NewSafeMap
<1> QED
  BY <1>3, <1>4 DEF MapInv, CallbacksSeeTheMap, Iterating

(* "The map is locked during iteration" (safemap.go:168): whatever          *)
(* callbacks call and writers wait, a callback is given what the map holds. *)
THEOREM IterationSeesTheMap == MapSpec => [](MapTypeOK /\ CallbacksSeeTheMap)
<1>1. MapInv => MapTypeOK /\ CallbacksSeeTheMap
  BY DEF MapInv
<1> QED BY <1>1, MapInvInit, MapInvStep, PTL DEF MapSpec

-----------------------------------------------------------------------------
\* Server: what the client receives and what is counted.

\* The types of a request's fields.
Phases == {"handler", "close", "count", "respond", "done"}
SetStatuses == {200} \union Statuses
SentStatuses == {0} \union 200..599

WrittenSets == SUBSET SetStatuses
CountedStatuses == {0, 200} \union Statuses
Ages == 0..LastTick

\* On its way, what a request's handler has set and what was sent for it go
\* together; nothing is sent for a handler that set nothing before the brotli
\* writer is closed.
Consistent(x) ==
  /\ x.wrote = {} =>
       /\ x.seen = 200
       /\ x.sent = 0 \/ (x.sent = 200 /\ config.enableBrotli /\ x.br)
       /\ x.phase \in {"handler", "close"} => x.sent = 0
  /\ \A status : x.wrote = {status} =>
       x.seen = status /\ (x.sent = status \/ (x.sent = 0 /\ status = 200))
  /\ x.phase = "respond" => x.counted = IF x.panicked THEN 0 ELSE x.seen

\* The two properties, of one request that is done.
NoFalseSuccess(x) ==
  x.wrote = {} /\ x.answer = 200 =>
    \/ ~x.panicked /\ x.elapsed < config.timeoutDuration
    \/ config.enableBrotli /\ x.br

RightlyCounted(x) ==
  x.counted # x.answer =>
    \/ x.elapsed >= config.timeoutDuration \/ x.elapsed >= config.writeTimeout
    \/ x.panicked /\ x.counted = 0
    \/ Cardinality(x.wrote) > 1

RequestOK(x) ==
  IF x.phase = "done" THEN NoFalseSuccess(x) /\ RightlyCounted(x) ELSE Consistent(x)

ServerInv ==
  /\ ServerTypeOK
  /\ \A r \in HttpRequests : req[r] # Idle => RequestOK(req[r])

(* The type of a request, with its sets by their names.                     *)
LEMMA RequestFields ==
  Request = [phase : Phases, br : BOOLEAN, elapsed : Ages, wrote : WrittenSets,
             sent : SentStatuses, seen : SetStatuses, panicked : BOOLEAN,
             counted : CountedStatuses,
             answer : SentStatuses]
BY Zenon DEF Request, Phases, Ages, WrittenSets, SentStatuses, SetStatuses, CountedStatuses

(* A step of the request r, which becomes next.                             *)
LEMMA RequestStep ==
  ASSUME ServerInv, NEW r \in HttpRequests, NEW next \in Request,
         req' = [req EXCEPT ![r] = next], config' = config, RequestOK(next)
  PROVE  ServerInv'
<1>1. Request' = Request /\ Idle' = Idle
  BY DEF Request, LastTick, Idle
<1>2. ServerTypeOK'
  BY <1>1 DEF ServerInv, ServerTypeOK
<1>3. ASSUME NEW q \in HttpRequests, req'[q] # Idle PROVE RequestOK(req[q])'
  <2>1. req'[q] = (IF q = r THEN next ELSE req[q])
    BY DEF ServerInv, ServerTypeOK
  <2> HIDE DEF Idle
  <2>2. RequestOK(req'[q])
    BY <1>3, <2>1 DEF ServerInv
  <2> QED
    BY <2>2 DEF RequestOK, Consistent, NoFalseSuccess, RightlyCounted
<1> QED
  BY <1>1, <1>2, <1>3 DEF ServerInv

(* A handler that has set no two statuses has set none or one.              *)
LEMMA OneStatus ==
  ASSUME NEW S \in SUBSET ({200} \union Statuses), ~(Cardinality(S) > 1)
  PROVE  S = {} \/ \E status : S = {status}
<1>1. IsFiniteSet({200} \union Statuses)
  <2>1. {200} \union Statuses \in SUBSET (200..599)
    BY StatusAssumption
  <2>2. IsFiniteSet(200..599)
    <3>1. 200 \in Int /\ 599 \in Int
      OBVIOUS
    <3>2. QED
      BY <3>1, FS_Interval, ZenonT(60)
  <2>3. QED
    BY <2>1, <2>2, FS_Subset
<1>2. IsFiniteSet(S) /\ Cardinality(S) \in Nat
  BY <1>1, FS_Subset, FS_CardinalityType
<1>3. Cardinality(S) = 0 \/ Cardinality(S) = 1
  BY <1>2
<1>4. QED
  BY <1>2, <1>3, FS_EmptySet, FS_Singleton

(* The clock and the time-outs can be compared.                             *)
LEMMA TimesAreNumbers ==
  ASSUME ServerInv, NEW x \in Request
  PROVE  x.elapsed \in Nat /\ config.timeoutDuration \in Nat /\ config.writeTimeout \in Nat
BY RequestFields, ServerAssumption DEF Ages, LastTick, ServerInv, ServerTypeOK

(* A status that is set is not 0.                                           *)
LEMMA NoStatusIsZero ==
  ASSUME NEW x \in Request
  PROVE  0 \notin x.wrote
BY RequestFields, StatusAssumption DEF WrittenSets, SetStatuses

(* A request in one of its phases is no idle one.                           *)
LEMMA AtPhase ==
  ASSUME ServerInv, NEW r \in HttpRequests, NEW phase \in Phases, At(r, phase)
  PROVE  /\ req[r] \in Request /\ req[r].phase = phase /\ config' = config
         /\ phase # "done" => Consistent(req[r])
<1>1. req[r] # Idle
  BY DEF At, Idle, Phases
<1> QED
  BY <1>1 DEF At, ServerInv, ServerTypeOK, RequestOK

(* What a handler sets is noted by the metrics, and sent at most once; a    *)
(* body sets nothing once a status is set.                                  *)
LEMMA HandlerSets ==
  ASSUME ServerInv, NEW r \in HttpRequests, At(r, "handler"),
         NEW w, NEW seen, NEW sent,
         \/ \E code \in SetStatuses : /\ w = req[r].wrote \union {code} /\ seen = code
                                      /\ sent = First(req[r].sent, code)
         \/ /\ w = BodySets(req[r].wrote) /\ seen = req[r].seen
            /\ sent \in {req[r].sent, First(req[r].sent, 200)},
         req' = [req EXCEPT ![r] = [req[r] EXCEPT !.wrote = w, !.seen = seen, !.sent = sent]]
  PROVE  ServerInv'
<1> DEFINE next == [req[r] EXCEPT !.wrote = w, !.seen = seen, !.sent = sent]
<1>1. /\ req[r] \in Request /\ req[r].phase = "handler" /\ config' = config
      /\ Consistent(req[r])
  BY AtPhase DEF Phases
<1>2. seen \in SetStatuses /\ sent \in SentStatuses /\ w \in WrittenSets
  BY <1>1, RequestFields, StatusAssumption
     DEF SetStatuses, SentStatuses, First, WrittenSets, BodySets
<1>3. req' = [req EXCEPT ![r] = next]
  OBVIOUS
<1>4. /\ next \in Request /\ next.phase = "handler"
      /\ next.wrote = w /\ next.seen = seen /\ next.sent = sent
  BY <1>1, <1>2, RequestFields
<1> HIDE DEF next
<1>5. Consistent(next)
  <2>1. CASE \E code \in SetStatuses : /\ w = req[r].wrote \union {code} /\ seen = code
                                       /\ sent = First(req[r].sent, code)
    BY <1>1, <1>4, <2>1 DEF Consistent, First
  <2>2. CASE /\ w = BodySets(req[r].wrote) /\ seen = req[r].seen
             /\ sent \in {req[r].sent, First(req[r].sent, 200)}
    <3>1. CASE req[r].wrote = {}
      <4>1. req[r].sent = 0 /\ req[r].seen = 200
        BY <1>1, <3>1 DEF Consistent
      <4>2. /\ next.wrote = {200} /\ next.seen = 200 /\ next.sent \in {0, 200}
            /\ next.phase = "handler"
        BY <1>4, <2>2, <3>1, <4>1 DEF First, BodySets
      <4>3. {200} # {} /\ \A status : {200} = {status} => status = 200
        OBVIOUS
      <4> QED
        BY <4>2, <4>3 DEF Consistent
    <3>2. CASE req[r].wrote # {}
      <4>1. next.wrote = req[r].wrote /\ next.seen = req[r].seen /\ next.phase = "handler"
        BY <1>4, <2>2, <3>2 DEF BodySets
      <4>2. ASSUME NEW status, next.wrote = {status}
            PROVE  next.seen = status /\ (next.sent = status \/ (next.sent = 0 /\ status = 200))
        <5>1. status # 0
          BY <1>1, <4>1, <4>2, NoStatusIsZero
        <5> QED
          BY <1>1, <1>4, <2>2, <4>1, <4>2, <5>1 DEF Consistent, First
      <4> QED
        BY <3>2, <4>1, <4>2 DEF Consistent
    <3> QED
      BY <3>1, <3>2
  <2> QED
    BY <2>1, <2>2
<1> QED
  BY <1>1, <1>3, <1>4, <1>5, RequestStep, ZenonT(60) DEF RequestOK

(* A body, kept back by the brotli writer or not, and a status.             *)
LEMMA HandlerWrites ==
  ASSUME ServerInv, NEW r \in HttpRequests,
         Write(r) \/ WriteCompressed(r) \/ \E code \in Statuses : WriteHeader(r, code)
  PROVE  ServerInv'
<1>1. At(r, "handler") /\ req[r] \in Request
  BY AtPhase DEF Write, WriteCompressed, WriteHeader, Phases
<1>2. CASE Write(r)
  <2> DEFINE w == BodySets(req[r].wrote)
             sent == First(req[r].sent, 200)
             seen == req[r].seen
  <2>1. req' = [req EXCEPT ![r] = [req[r] EXCEPT !.wrote = w, !.sent = sent]]
    BY <1>2, ZenonT(60) DEF Write
  <2> HIDE DEF w, sent
  <2>2. [req[r] EXCEPT !.wrote = w, !.sent = sent]
          = [req[r] EXCEPT !.wrote = w, !.seen = seen, !.sent = sent]
    BY <1>1, RequestFields
  <2>3. req' = [req EXCEPT ![r] = [req[r] EXCEPT !.wrote = w, !.seen = seen, !.sent = sent]]
    BY <2>1, <2>2
  <2>4. w = BodySets(req[r].wrote) /\ seen = req[r].seen /\ sent = First(req[r].sent, 200)
    BY DEF w, sent
  <2> HIDE DEF seen
  <2> QED
    BY <1>1, <2>3, <2>4, HandlerSets
<1>3. CASE WriteCompressed(r)
  <2> DEFINE w == BodySets(req[r].wrote)
             sent == req[r].sent
             seen == req[r].seen
  <2>1. req' = [req EXCEPT ![r] = [req[r] EXCEPT !.wrote = w]]
    BY <1>3 DEF WriteCompressed
  <2> HIDE DEF w
  <2>2. [req[r] EXCEPT !.wrote = w]
          = [req[r] EXCEPT !.wrote = w, !.seen = seen, !.sent = sent]
    BY <1>1, RequestFields
  <2>3. req' = [req EXCEPT ![r] = [req[r] EXCEPT !.wrote = w, !.seen = seen, !.sent = sent]]
    BY <2>1, <2>2
  <2>4. w = BodySets(req[r].wrote) /\ seen = req[r].seen /\ sent = req[r].sent
    BY DEF w
  <2> HIDE DEF sent, seen
  <2> QED
    BY <1>1, <2>3, <2>4, HandlerSets
<1>4. ASSUME NEW code \in Statuses, WriteHeader(r, code) PROVE ServerInv'
  <2> DEFINE w == req[r].wrote \union {code}
             sent == First(req[r].sent, code)
  <2>1. req' = [req EXCEPT ![r] = [req[r] EXCEPT !.wrote = w, !.seen = code, !.sent = sent]]
    BY <1>4 DEF WriteHeader
  <2>2. w = req[r].wrote \union {code} /\ sent = First(req[r].sent, code) /\ code \in SetStatuses
    BY DEF SetStatuses
  <2> HIDE DEF w, sent
  <2> QED
    BY <1>1, <2>1, <2>2, HandlerSets
<1> QED
  BY <1>2, <1>3, <1>4

(* The handler's return, or its panic.                                      *)
LEMMA HandlerLeaves ==
  ASSUME ServerInv, NEW r \in HttpRequests, HandlerReturns(r) \/ HandlerPanics(r)
  PROVE  ServerInv'
<1>1. /\ req[r] \in Request /\ req[r].phase = "handler" /\ config' = config
      /\ Consistent(req[r])
  BY AtPhase DEF HandlerReturns, HandlerPanics, Phases
<1>2. PICK panicked \in BOOLEAN :
        req' = [req EXCEPT ![r] = [req[r] EXCEPT !.phase = "close", !.panicked = panicked]]
  <2>1. CASE HandlerReturns(r)
    <3> DEFINE panicked == req[r].panicked
    <3>1. req' = [req EXCEPT ![r] = [req[r] EXCEPT !.phase = "close"]]
      BY <2>1 DEF HandlerReturns
    <3>2. /\ [req[r] EXCEPT !.phase = "close"]
               = [req[r] EXCEPT !.phase = "close", !.panicked = panicked]
          /\ panicked \in BOOLEAN
      BY <1>1, RequestFields
    <3> QED
      BY <3>1, <3>2
  <2>2. CASE HandlerPanics(r)
    <3>1. req' = [req EXCEPT ![r] = [req[r] EXCEPT !.phase = "close", !.panicked = TRUE]]
      BY <2>2 DEF HandlerPanics
    <3> QED
      BY <3>1
  <2> QED
    BY <2>1, <2>2
<1> DEFINE next == [req[r] EXCEPT !.phase = "close", !.panicked = panicked]
<1>3. /\ next \in Request /\ next.phase = "close" /\ next.wrote = req[r].wrote
      /\ next.seen = req[r].seen /\ next.sent = req[r].sent /\ next.br = req[r].br
  BY <1>1, RequestFields DEF Phases
<1>4. req' = [req EXCEPT ![r] = next]
  BY <1>2
<1> HIDE DEF next
<1>5. Consistent(next)
  BY <1>1, <1>3 DEF Consistent
<1> QED
  BY <1>1, <1>3, <1>4, <1>5, RequestStep DEF RequestOK

(* The brotli writer sends a 200 if nothing is sent yet.                    *)
LEMMA BrotliCloses ==
  ASSUME ServerInv, NEW r \in HttpRequests, CloseBrotli(r)
  PROVE  ServerInv'
<1> DEFINE sent == IF config.enableBrotli /\ req[r].br THEN First(req[r].sent, 200)
                   ELSE req[r].sent
           next == [req[r] EXCEPT !.phase = "count", !.sent = sent]
<1>1. /\ req[r] \in Request /\ req[r].phase = "close" /\ config' = config
      /\ Consistent(req[r])
  BY AtPhase DEF CloseBrotli, Phases
<1>2. req' = [req EXCEPT ![r] = next]
  BY DEF CloseBrotli
<1>3. sent \in SentStatuses
  BY <1>1, RequestFields DEF SentStatuses, First
<1> HIDE DEF sent
<1>4. /\ next \in Request /\ next.phase = "count" /\ next.wrote = req[r].wrote
      /\ next.seen = req[r].seen /\ next.sent = sent /\ next.br = req[r].br
  BY <1>1, <1>3, RequestFields DEF Phases
<1> HIDE DEF next
<1>5. Consistent(next)
  BY <1>1, <1>4, NoStatusIsZero DEF Consistent, sent, First
<1> QED
  BY <1>1, <1>2, <1>4, <1>5, RequestStep DEF RequestOK

(* What the metrics count is what they have seen.                           *)
LEMMA MetricsCount ==
  ASSUME ServerInv, NEW r \in HttpRequests, CountRequest(r)
  PROVE  ServerInv'
<1> DEFINE counted == IF req[r].panicked THEN 0 ELSE req[r].seen
           next == [req[r] EXCEPT !.phase = "respond", !.counted = counted]
<1>1. /\ req[r] \in Request /\ req[r].phase = "count" /\ config' = config
      /\ Consistent(req[r])
  BY AtPhase DEF CountRequest, Phases
<1>2. req' = [req EXCEPT ![r] = next]
  BY DEF CountRequest
<1>3. counted \in CountedStatuses
  BY <1>1, RequestFields DEF CountedStatuses, SetStatuses
<1> HIDE DEF counted
<1>4. /\ next \in Request /\ next.phase = "respond" /\ next.wrote = req[r].wrote
      /\ next.seen = req[r].seen /\ next.sent = req[r].sent /\ next.br = req[r].br
      /\ next.panicked = req[r].panicked /\ next.counted = counted
  BY <1>1, <1>3, RequestFields DEF Phases
<1> HIDE DEF next
<1>5. Consistent(next)
  BY <1>1, <1>4 DEF Consistent, counted
<1> QED
  BY <1>1, <1>2, <1>4, <1>5, RequestStep DEF RequestOK

(* Timeout, Recoverer and net/http send what no one has sent.               *)
LEMMA Responds ==
  ASSUME ServerInv, NEW r \in HttpRequests, Respond(r)
  PROVE  ServerInv'
<1> DEFINE timeout == IF req[r].elapsed >= config.timeoutDuration THEN First(req[r].sent, 504)
                      ELSE req[r].sent
           recover == IF req[r].panicked THEN First(timeout, 500) ELSE timeout
           sent == First(recover, 200)
           answer == IF req[r].elapsed >= config.writeTimeout THEN 0 ELSE sent
           next == [req[r] EXCEPT !.phase = "done", !.sent = sent, !.answer = answer]
<1>1. /\ req[r] \in Request /\ req[r].phase = "respond" /\ config' = config
      /\ Consistent(req[r])
  BY AtPhase DEF Respond, Phases
<1>2. req' = [req EXCEPT ![r] = next]
  <2>1. req' = [req EXCEPT ![r].phase = "done", ![r].sent = sent, ![r].answer = answer]
    BY DEF Respond
  <2> HIDE DEF sent, answer
  <2> QED
    BY <2>1
<1>3. sent \in SentStatuses /\ answer \in SentStatuses
  <2>1. req[r].sent \in SentStatuses
    BY <1>1, RequestFields
  <2>2. {0, 200, 500, 504} \subseteq SentStatuses
    BY DEF SentStatuses
  <2>3. \A status \in SentStatuses, default \in SentStatuses :
          First(status, default) \in SentStatuses
    BY DEF First
  <2>4. timeout \in SentStatuses
    BY <2>1, <2>2, <2>3
  <2> HIDE DEF timeout
  <2>5. recover \in SentStatuses
    BY <2>2, <2>3, <2>4
  <2> HIDE DEF recover
  <2>6. sent \in SentStatuses
    BY <2>2, <2>3, <2>5
  <2> HIDE DEF sent
  <2> QED
    BY <2>2, <2>6
<1> HIDE DEF sent, answer
<1>4. /\ next \in Request /\ next.phase = "done" /\ next.wrote = req[r].wrote
      /\ next.br = req[r].br /\ next.elapsed = req[r].elapsed
      /\ next.panicked = req[r].panicked /\ next.counted = req[r].counted
      /\ next.answer = answer
  BY <1>1, <1>3, RequestFields DEF Phases
<1> HIDE DEF next
<1>5. NoFalseSuccess(next)
  <2> SUFFICES ASSUME next.wrote = {}, next.answer = 200,
                      req[r].panicked \/ req[r].elapsed >= config.timeoutDuration
               PROVE  config.enableBrotli /\ req[r].br
    BY <1>1, <1>4, TimesAreNumbers DEF NoFalseSuccess
  <2>1. req[r].sent = 0 \/ (config.enableBrotli /\ req[r].br)
    BY <1>1, <1>4 DEF Consistent
  <2> QED
    BY <1>4, <2>1 DEF answer, sent, First
<1>6. RightlyCounted(next)
  <2> SUFFICES ASSUME ~(next.elapsed >= config.timeoutDuration),
                      ~(next.elapsed >= config.writeTimeout),
                      ~next.panicked, ~(Cardinality(next.wrote) > 1)
               PROVE  next.counted = next.answer
    BY <1>1, <1>4 DEF RightlyCounted, Consistent
  <2>1. next.wrote = {} \/ \E status : next.wrote = {status}
    BY <1>1, <1>4, OneStatus, RequestFields DEF WrittenSets, SetStatuses
  <2>2. next.answer = First(req[r].sent, 200) /\ next.counted = req[r].seen
    BY <1>1, <1>4 DEF answer, sent, Consistent, First
  <2> QED
    BY <1>1, <1>4, <2>1, <2>2, NoStatusIsZero DEF Consistent, First
<1> QED
  BY <1>1, <1>2, <1>4, <1>5, <1>6, RequestStep DEF RequestOK
(* A request arrives with nothing set and nothing sent.                     *)
LEMMA Arrives ==
  ASSUME ServerInv, NEW r \in HttpRequests, Arrive(r)
  PROVE  ServerInv'
<1>1. PICK br \in BOOLEAN :
        req' = [req EXCEPT ![r] =
                  [phase |-> "handler", br |-> br, elapsed |-> 0, wrote |-> {}, sent |-> 0,
                   seen |-> 200, panicked |-> FALSE, counted |-> 0, answer |-> 0]]
  BY DEF Arrive
<1> DEFINE next == [phase |-> "handler", br |-> br, elapsed |-> 0, wrote |-> {}, sent |-> 0,
                    seen |-> 200, panicked |-> FALSE, counted |-> 0, answer |-> 0]
<1>2. next \in Request
  <2>1. /\ "handler" \in Phases /\ {} \in WrittenSets /\ 0 \in SentStatuses
        /\ 200 \in SetStatuses /\ 0 \in CountedStatuses
    BY DEF Phases, WrittenSets, SentStatuses, SetStatuses, CountedStatuses
  <2>2. 0 \in Ages
    BY ServerAssumption DEF Ages, LastTick, ServerInv, ServerTypeOK
  <2> QED
    BY <2>1, <2>2, RequestFields
<1>3. RequestOK(next)
  BY DEF RequestOK, Consistent
<1>4. config' = config
  BY DEF Arrive
<1>5. req' = [req EXCEPT ![r] = next]
  BY <1>1
<1> HIDE DEF next
<1> QED
  BY <1>2, <1>3, <1>4, <1>5, RequestStep

(* Time passes for the requests that are on their way.                      *)
LEMMA TimePasses == ServerInv /\ ServerTick => ServerInv'
<1> SUFFICES ASSUME ServerInv, ServerTick PROVE ServerInv'
  OBVIOUS
<1>1. config' = config /\ Request' = Request /\ Idle' = Idle
  BY DEF ServerTick, Request, LastTick, Idle
<1>2. /\ req' \in [HttpRequests -> Request \union {Idle}]
      /\ \A r \in HttpRequests : req'[r] # Idle => RequestOK(req'[r])
  <2> SUFFICES ASSUME NEW r \in HttpRequests
               PROVE  /\ req'[r] \in Request \union {Idle}
                      /\ req'[r] # Idle => RequestOK(req'[r])
    BY DEF ServerTick
  <2>1. CASE req'[r] = req[r]
    BY <2>1 DEF ServerInv, ServerTypeOK
  <2>2. CASE req'[r] # req[r]
    <3>1. /\ req'[r] = [req[r] EXCEPT !.elapsed = req[r].elapsed + 1]
          /\ req[r].phase \notin {"idle", "done"} /\ req[r].elapsed # LastTick
      BY <2>2 DEF ServerTick
    <3>2. req[r] \in Request /\ RequestOK(req[r])
      BY <3>1 DEF ServerInv, ServerTypeOK, Idle
    <3> DEFINE next == [req[r] EXCEPT !.elapsed = req[r].elapsed + 1]
    <3>3. req[r].elapsed + 1 \in Ages
      BY <3>1, <3>2, RequestFields, ServerAssumption
         DEF Ages, LastTick, ServerInv, ServerTypeOK
    <3>4. /\ next \in Request /\ next.phase = req[r].phase /\ next.br = req[r].br
          /\ next.wrote = req[r].wrote /\ next.sent = req[r].sent /\ next.seen = req[r].seen
          /\ next.panicked = req[r].panicked /\ next.counted = req[r].counted
      BY <3>2, <3>3, RequestFields
    <3>5. req'[r] = next
      BY <3>1
    <3> HIDE DEF next
    <3>6. RequestOK(next)
      BY <3>1, <3>2, <3>4 DEF RequestOK, Consistent
    <3> QED
      BY <3>4, <3>5, <3>6
  <2> QED
    BY <2>1, <2>2
<1>3. ServerTypeOK'
  BY <1>1, <1>2 DEF ServerInv, ServerTypeOK
<1>4. ASSUME NEW r \in HttpRequests, req'[r] # Idle PROVE RequestOK(req[r])'
  <2>1. RequestOK(req'[r])
    BY <1>2, <1>4
  <2> QED
    BY <1>1, <2>1 DEF RequestOK, Consistent, NoFalseSuccess, RightlyCounted
<1> QED
  BY <1>1, <1>3, <1>4 DEF ServerInv

(* No step of a request, nor of the clock, breaks what is known of each.    *)
LEMMA ServerInvStep == ServerInv /\ [ServerNext]_serverVars => ServerInv'
<1> SUFFICES ASSUME ServerInv, [ServerNext]_serverVars PROVE ServerInv'
  OBVIOUS
<1>1. ASSUME NEW r \in HttpRequests, Arrive(r) PROVE ServerInv'
  BY <1>1, Arrives
<1>2. ASSUME NEW r \in HttpRequests,
             Write(r) \/ WriteCompressed(r) \/ \E code \in Statuses : WriteHeader(r, code)
      PROVE  ServerInv'
  BY <1>2, HandlerWrites
<1>3. ASSUME NEW r \in HttpRequests, HandlerReturns(r) \/ HandlerPanics(r) PROVE ServerInv'
  BY <1>3, HandlerLeaves
<1>4. ASSUME NEW r \in HttpRequests, CloseBrotli(r) PROVE ServerInv'
  BY <1>4, BrotliCloses
<1>5. ASSUME NEW r \in HttpRequests, CountRequest(r) PROVE ServerInv'
  BY <1>5, MetricsCount
<1>6. ASSUME NEW r \in HttpRequests, Respond(r) PROVE ServerInv'
  BY <1>6, Responds
<1>7. CASE ServerTick
  BY <1>7, TimePasses
<1>8. CASE UNCHANGED serverVars
  BY <1>8, SMTT(30)
  DEF serverVars, ServerInv, ServerTypeOK, Request, LastTick, Idle, RequestOK, Consistent,
      NoFalseSuccess, RightlyCounted
<1> QED
  BY <1>1, <1>2, <1>3, <1>4, <1>5, <1>6, <1>7, <1>8 DEF ServerNext

(* No request is known before the first arrives.                            *)
LEMMA ServerInvInit == NewServer => ServerInv
BY DEF NewServer, ServerInv, ServerTypeOK

(* For any handlers, statuses and settings: who panics or is late before a  *)
(* word is written is not answered with a 200 unless the brotli writer has  *)
(* sent it (server.go:318).                                                 *)
THEOREM FailuresAreNotSuccesses == ServerSpec => [](ServerTypeOK /\ FailureIsNotSuccess)
<1>1. ServerInv => ServerTypeOK /\ FailureIsNotSuccess
  BY DEF ServerInv, RequestOK, NoFalseSuccess, FailureIsNotSuccess, Idle
<1> QED
  BY <1>1, ServerInvInit, ServerInvStep, PTL DEF ServerSpec

(* For any handlers, statuses and settings: the metrics count what the      *)
(* client received, whether a body was written after the status or not,     *)
(* except when the handler was late, panicked, or called WriteHeader again  *)
(* with another status, or after a body with one that is not 200            *)
(* (server.go:285-288, 354-357).                                            *)
THEOREM RequestsAreCountedAsAnswered == ServerSpec => []CountedAsAnswered
<1>1. ServerInv => CountedAsAnswered
  BY DEF ServerInv, RequestOK, RightlyCounted, CountedAsAnswered, Idle
<1> QED
  BY <1>1, ServerInvInit, ServerInvStep, PTL DEF ServerSpec

-----------------------------------------------------------------------------
\* Task runner: a call returns the errors of its tasks.

RunStates == {"run", "nested", "end", "failed", "done"}

\* Where the tasks of a call are: in its list, at the indices that it has yet
\* to submit, that are with the pool, and that its wait group counts.
Indices(c) == 1..Len(TasksOf[c])
InPool(t) == t \in ToSet(queue) \/ t \in DOMAIN running
Outstanding(c) ==
  {i \in Indices(c) : InPool(TasksOf[c][i]) \/ (submitted[c] # -1 /\ i > submitted[c])}

\* The types, except for how far a wait group counts.
RunnerTypes ==
  /\ submitted \in [Calls -> Int] /\ wg \in [Calls -> Int]
  /\ errors \in [Calls -> Seq(Tasks)] /\ failed \in [Calls -> SUBSET Tasks]
  /\ \A c \in Calls : /\ submitted[c] \in -1..Len(TasksOf[c])
                      /\ errors[c] \in Seq(ToSet(TasksOf[c]))
                      /\ failed[c] \subseteq ToSet(TasksOf[c])
  /\ queue \in Seq(Tasks)
  /\ running \in [DOMAIN running -> RunStates] /\ DOMAIN running \subseteq Tasks
  /\ IsFiniteSet(DOMAIN running) /\ Cardinality(DOMAIN running) <= Workers

\* A task is with the pool once, as long as its call has it submitted.
PoolInv ==
  /\ \A i, j \in 1..Len(queue) : queue[i] = queue[j] => i = j
  /\ \A i \in 1..Len(queue) : queue[i] \notin DOMAIN running
  /\ \A c \in Calls : \A i \in Indices(c) : InPool(TasksOf[c][i]) => i <= submitted[c]

\* A call made by a task goes on while the task waits for it.
NestedInv ==
  \A c \in Nesting : submitted[c] # -1 <=> c \in DOMAIN running /\ running[c] = "nested"

CountInv == \A c \in Calls : wg[c] = Cardinality(Outstanding(c))

\* The tasks that failed are in the list or about to be appended to it; what
\* is in the list is there once and is over.
Appending(c) == {t \in DOMAIN running : running[t] = "failed" /\ CallOf(t) = c}
ErrorsInv ==
  \A c \in Calls :
    /\ failed[c] = ToSet(errors[c]) \union Appending(c)
    /\ Len(errors[c]) = Cardinality(ToSet(errors[c]))
    /\ \A i \in Indices(c) : TasksOf[c][i] \in ToSet(errors[c]) =>
         /\ submitted[c] # -1 => i <= submitted[c]
         /\ \A j \in 1..Len(queue) : queue[j] # TasksOf[c][i]
         /\ TasksOf[c][i] \in DOMAIN running => running[TasksOf[c][i]] = "done"

RunnerInv == RunnerTypes /\ PoolInv /\ NestedInv /\ CountInv /\ ErrorsInv

(* Each task has one call and one place in its list.                        *)
LEMMA TasksHaveCalls ==
  /\ \A c \in Calls : /\ TasksOf[c] \in Seq(Tasks) /\ Len(TasksOf[c]) \in Nat
                      /\ DOMAIN TasksOf[c] = Indices(c)
                      /\ ToSet(TasksOf[c]) \subseteq Tasks
  /\ \A t \in Tasks : /\ CallOf(t) \in Calls
                      /\ \E i \in Indices(CallOf(t)) : TasksOf[CallOf(t)][i] = t
                      /\ t \in ToSet(TasksOf[CallOf(t)])
  /\ \A c \in Calls : \A i \in Indices(c) :
       /\ TasksOf[c][i] \in Tasks /\ CallOf(TasksOf[c][i]) = c
       /\ \A d \in Calls : \A j \in Indices(d) : TasksOf[d][j] = TasksOf[c][i] => d = c /\ j = i
<1>1. \A c \in Calls : /\ TasksOf[c] \in Seq(Tasks) /\ Len(TasksOf[c]) \in Nat
                       /\ DOMAIN TasksOf[c] = Indices(c)
  BY RunnerAssumption DEF Indices
<1>2. \A c \in Calls : \A i \in Indices(c) : TasksOf[c][i] \in Tasks
  BY <1>1
<1>3. \A c \in Calls : ToSet(TasksOf[c]) = {TasksOf[c][i] : i \in Indices(c)}
  BY <1>1 DEF ToSet
<1>4. \A t \in Tasks : \E c \in Calls : \E i \in Indices(c) :
        /\ TasksOf[c][i] = t
        /\ \A d \in Calls : \A j \in Indices(d) : TasksOf[d][j] = t => d = c /\ j = i
  BY <1>1, RunnerAssumption
<1> HIDE DEF Indices
<1>5. \A t \in Tasks : /\ CallOf(t) \in Calls
                       /\ \E i \in Indices(CallOf(t)) : TasksOf[CallOf(t)][i] = t
  BY <1>3, <1>4 DEF CallOf
<1>6. \A c \in Calls : \A i \in Indices(c) :
        \A d \in Calls : \A j \in Indices(d) : TasksOf[d][j] = TasksOf[c][i] => d = c /\ j = i
  BY <1>2, <1>4
<1>7. \A c \in Calls : \A i \in Indices(c) : CallOf(TasksOf[c][i]) = c
  BY <1>2, <1>5, <1>6
<1>8. \A c \in Calls : ToSet(TasksOf[c]) \subseteq Tasks
  BY <1>2, <1>3
<1>9. ASSUME NEW t \in Tasks PROVE t \in ToSet(TasksOf[CallOf(t)])
  <2>1. PICK i \in Indices(CallOf(t)) : TasksOf[CallOf(t)][i] = t
    BY <1>5
  <2>2. CallOf(t) \in Calls
    BY <1>5
  <2>3. ToSet(TasksOf[CallOf(t)]) = {TasksOf[CallOf(t)][j] : j \in Indices(CallOf(t))}
    BY <1>3, <2>2
  <2> QED
    BY <2>1, <2>3
<1> QED
  BY <1>1, <1>2, <1>5, <1>6, <1>7, <1>8, <1>9

(* What a sequence holds.                                                   *)
LEMMA SeqSet ==
  ASSUME NEW S, NEW s \in Seq(S)
  PROVE  /\ Len(s) \in Nat /\ DOMAIN s = 1..Len(s)
         /\ ToSet(s) = {s[i] : i \in 1..Len(s)}
         /\ \A t : t \in ToSet(s) <=> \E i \in 1..Len(s) : s[i] = t
<1>1. Len(s) \in Nat /\ DOMAIN s = 1..Len(s)
  OBVIOUS
<1>2. ToSet(s) = {s[i] : i \in 1..Len(s)}
  BY <1>1 DEF ToSet
<1> QED
  BY <1>1, <1>2

(* What a sequence holds when something is appended.                        *)
LEMMA Appended ==
  ASSUME NEW S, NEW s \in Seq(S), NEW e \in S
  PROVE  /\ Append(s, e) \in Seq(S) /\ Len(Append(s, e)) = Len(s) + 1
         /\ \A i \in 1..Len(s) : Append(s, e)[i] = s[i]
         /\ Append(s, e)[Len(s) + 1] = e
         /\ ToSet(Append(s, e)) = ToSet(s) \union {e}
<1>1. /\ Append(s, e) \in Seq(S) /\ Len(Append(s, e)) = Len(s) + 1
      /\ \A i \in 1..Len(s) : Append(s, e)[i] = s[i]
      /\ Append(s, e)[Len(s) + 1] = e
      /\ Len(s) \in Nat
  OBVIOUS
<1>2. /\ ToSet(s) = {s[i] : i \in 1..Len(s)}
      /\ ToSet(Append(s, e)) = {Append(s, e)[i] : i \in 1..(Len(s) + 1)}
  BY <1>1 DEF ToSet
<1> QED
  BY <1>1, <1>2

(* What is left of a sequence without its head.                             *)
LEMMA Headless ==
  ASSUME NEW S, NEW s \in Seq(S), s # <<>>
  PROVE  /\ Tail(s) \in Seq(S) /\ Len(Tail(s)) = Len(s) - 1
         /\ Len(s) \in Nat \ {0} /\ Head(s) = s[1] /\ Head(s) \in S
         /\ \A i \in 1..Len(Tail(s)) : Tail(s)[i] = s[i + 1]
         /\ ToSet(s) = ToSet(Tail(s)) \union {Head(s)}
<1>1. /\ Tail(s) \in Seq(S) /\ Len(Tail(s)) = Len(s) - 1
      /\ Len(s) \in Nat \ {0} /\ Head(s) = s[1] /\ Head(s) \in S
      /\ \A i \in 1..Len(Tail(s)) : Tail(s)[i] = s[i + 1]
  <2>1. /\ Tail(s) \in Seq(S) /\ Len(Tail(s)) = Len(s) - 1 /\ Head(s) \in S
        /\ \A i \in 1..Len(Tail(s)) : Tail(s)[i] = s[i + 1]
    BY HeadTailProperties
  <2>2. Len(s) \in Nat \ {0} /\ Head(s) = s[1]
    BY EmptySeq
  <2> QED
    BY <2>1, <2>2
<1>2. /\ ToSet(s) = {s[i] : i \in 1..Len(s)}
      /\ ToSet(Tail(s)) = {Tail(s)[i] : i \in 1..Len(Tail(s))}
  <2>1. Tail(s) \in Seq(S)
    BY <1>1
  <2>2. ToSet(s) = {s[i] : i \in 1..Len(s)}
    BY ONLY s \in Seq(S), SeqSet
  <2>3. ToSet(Tail(s)) = {Tail(s)[i] : i \in 1..Len(Tail(s))}
    <3> DEFINE tail == Tail(s)
    <3>1. tail \in Seq(S)
      BY <2>1
    <3> HIDE DEF tail
    <3>2. ToSet(tail) = {tail[i] : i \in 1..Len(tail)}
      BY ONLY <3>1, SeqSet
    <3> QED
      BY <3>2 DEF tail
  <2> QED
    BY <2>2, <2>3
<1>3. ASSUME NEW t \in ToSet(s) PROVE t = Head(s) \/ t \in ToSet(Tail(s))
  <2>1. PICK i \in 1..Len(s) : t = s[i]
    BY <1>2
  <2>2. i # 1 => i - 1 \in 1..Len(Tail(s)) /\ s[i] = Tail(s)[i - 1]
    BY <1>1
  <2> QED
    BY <1>1, <1>2, <2>1, <2>2
<1>4. ASSUME NEW t \in ToSet(Tail(s)) PROVE t \in ToSet(s)
  <2>1. PICK i \in 1..Len(Tail(s)) : t = Tail(s)[i]
    BY <1>2
  <2>2. i + 1 \in 1..Len(s) /\ t = s[i + 1]
    BY <1>1, <2>1
  <2> QED
    BY <1>2, <2>2
<1>5. Head(s) \in ToSet(s)
  BY <1>1, <1>2
<1> QED
  BY <1>1, <1>3, <1>4, <1>5

(* A call begins with a wait group, a list and observers of its own.        *)
LEMMA BeginTypes ==
  ASSUME RunnerTypes, NEW c \in Calls, Begin(c)
  PROVE  /\ submitted' \in [Calls -> Int] /\ wg' \in [Calls -> Int]
         /\ errors' \in [Calls -> Seq(Tasks)] /\ failed' \in [Calls -> SUBSET Tasks]
         /\ \A d \in Calls : /\ submitted'[d] \in -1..Len(TasksOf[d])
                             /\ errors'[d] \in Seq(ToSet(TasksOf[d]))
                             /\ failed'[d] \subseteq ToSet(TasksOf[d])
<1>1. Len(TasksOf[c]) \in Nat
  BY TasksHaveCalls
<1>2. <<>> \in Seq(Tasks) /\ <<>> \in Seq(ToSet(TasksOf[c]))
  OBVIOUS
<1>3. /\ submitted' \in [Calls -> Int] /\ wg' \in [Calls -> Int]
      /\ \A d \in Calls : submitted'[d] \in -1..Len(TasksOf[d])
  BY <1>1 DEF Begin, RunnerTypes
<1>4. /\ errors' \in [Calls -> Seq(Tasks)]
      /\ \A d \in Calls : errors'[d] \in Seq(ToSet(TasksOf[d]))
  BY <1>2 DEF Begin, RunnerTypes
<1>5. /\ failed' \in [Calls -> SUBSET Tasks]
      /\ \A d \in Calls : failed'[d] \subseteq ToSet(TasksOf[d])
  BY DEF Begin, RunnerTypes
<1> QED
  BY <1>3, <1>4, <1>5

(* A task that a worker has goes on.                                        *)
LEMMA GotoTypes ==
  ASSUME RunnerTypes, NEW t, NEW from, NEW to \in RunStates, TaskGoto(t, from, to)
  PROVE  /\ t \in DOMAIN running /\ t \in Tasks /\ DOMAIN running' = DOMAIN running
         /\ running' \in [DOMAIN running -> RunStates]
         /\ running[t] \in from /\ running'[t] = to
         /\ \A u \in DOMAIN running : u # t => running'[u] = running[u]
BY DEF RunnerTypes, TaskGoto

(* Every step of a call, a worker or a task keeps the types.                *)
LEMMA TypesStep ==
  ASSUME RunnerTypes, [RunnerNext]_runnerVars
  PROVE  RunnerTypes'
<1>1. ASSUME NEW c \in Calls, RunTasks(c) PROVE RunnerTypes'
  BY <1>1, BeginTypes DEF RunTasks, RunnerTypes
<1>2. ASSUME NEW c \in Calls, Submit(c) PROVE RunnerTypes'
  <2>1. TasksOf[c][submitted[c] + 1] \in Tasks /\ Len(TasksOf[c]) \in Nat
    BY <1>2, TasksHaveCalls DEF Submit, Indices, RunnerTypes
  <2>2. queue' \in Seq(Tasks)
    BY <1>2, <2>1, Appended DEF Submit, RunnerTypes
  <2> QED
    BY <1>2, <2>1, <2>2, SMTT(30) DEF Submit, RunnerTypes
<1>3. ASSUME NEW c \in Calls, Return(c) PROVE RunnerTypes'
  <2>1. /\ running' \in [DOMAIN running -> RunStates]
        /\ DOMAIN running' = DOMAIN running
    BY <1>3 DEF Return, RunnerTypes, RunStates
  <2>2. /\ submitted' \in [Calls -> Int]
        /\ \A d \in Calls : submitted'[d] \in -1..Len(TasksOf[d])
    BY <1>3, TasksHaveCalls DEF Return, RunnerTypes
  <2> QED
    BY <1>3, <2>1, <2>2 DEF Return, RunnerTypes
<1>4. CASE TakeTask
  <2>1. queue' \in Seq(Tasks) /\ Head(queue) \in Tasks
    BY <1>4, Headless DEF TakeTask, RunnerTypes
  <2>2. /\ DOMAIN running' = DOMAIN running \union {Head(queue)}
        /\ running' \in [DOMAIN running' -> RunStates]
    BY <1>4 DEF TakeTask, RunnerTypes, RunStates
  <2>3. IsFiniteSet(DOMAIN running') /\ Cardinality(DOMAIN running') <= Workers
    <3> DEFINE D == DOMAIN running
    <3>1. /\ IsFiniteSet(D) /\ Cardinality(D) \in Nat /\ Workers \in Nat
          /\ Cardinality(D) < Workers
      BY <1>4, FS_CardinalityType, RunnerAssumption DEF TakeTask, RunnerTypes
    <3>2. /\ IsFiniteSet(D \union {Head(queue)})
          /\ Cardinality(D \union {Head(queue)}) \in {Cardinality(D), Cardinality(D) + 1}
      BY <3>1, FS_AddElement
    <3> QED
      BY <2>2, <3>1, <3>2
  <2> QED
    BY <1>4, <2>1, <2>2, <2>3 DEF TakeTask, RunnerTypes
<1>5. ASSUME NEW t \in Tasks, NestedRunTasks(t) PROVE RunnerTypes'
  <2>1. t \in Calls /\ Begin(t) /\ queue' = queue /\ TaskGoto(t, {"run"}, "nested")
    BY <1>5 DEF NestedRunTasks, Nesting
  <2> QED
    BY <2>1, BeginTypes, GotoTypes DEF RunnerTypes, RunStates
<1>6. ASSUME NEW t \in Tasks, TaskEnds(t) PROVE RunnerTypes'
  BY <1>6, GotoTypes DEF TaskEnds, RunnerTypes, RunStates
<1>7. ASSUME NEW t \in Tasks, TaskFails(t) PROVE RunnerTypes'
  <2>1. t \in ToSet(TasksOf[CallOf(t)]) /\ CallOf(t) \in Calls
    BY TasksHaveCalls
  <2>2. /\ failed' \in [Calls -> SUBSET Tasks]
        /\ \A d \in Calls : failed'[d] \subseteq ToSet(TasksOf[d])
    BY <1>7, <2>1 DEF TaskFails, RunnerTypes
  <2> QED
    BY <1>7, <2>2, GotoTypes DEF TaskFails, RunnerTypes, RunStates
<1>8. ASSUME NEW t \in Tasks, AppendError(t) PROVE RunnerTypes'
  <2>1. t \in ToSet(TasksOf[CallOf(t)]) /\ CallOf(t) \in Calls
    BY TasksHaveCalls
  <2>2. /\ Append(errors[CallOf(t)], t) \in Seq(Tasks)
        /\ Append(errors[CallOf(t)], t) \in Seq(ToSet(TasksOf[CallOf(t)]))
    BY <2>1, Appended DEF RunnerTypes
  <2>3. /\ errors' \in [Calls -> Seq(Tasks)]
        /\ \A d \in Calls : errors'[d] \in Seq(ToSet(TasksOf[d]))
    BY <1>8, <2>1, <2>2 DEF AppendError, RunnerTypes
  <2> QED
    BY <1>8, <2>3, GotoTypes DEF AppendError, RunnerTypes, RunStates
<1>9. ASSUME NEW t \in Tasks, Done(t) PROVE RunnerTypes'
  <2>1. /\ DOMAIN running' = DOMAIN running \ {t}
        /\ running' \in [DOMAIN running' -> RunStates]
    BY <1>9 DEF Done, RunnerTypes
  <2>2. IsFiniteSet(DOMAIN running') /\ Cardinality(DOMAIN running') <= Workers
    <3> DEFINE D == DOMAIN running
    <3>1. /\ IsFiniteSet(D) /\ Cardinality(D) \in Nat /\ Workers \in Nat
          /\ Cardinality(D) <= Workers
      BY FS_CardinalityType, RunnerAssumption DEF RunnerTypes
    <3>2. /\ IsFiniteSet(D \ {t})
          /\ Cardinality(D \ {t}) \in {Cardinality(D), Cardinality(D) - 1}
      BY <3>1, FS_RemoveElement
    <3> QED
      BY <2>1, <3>1, <3>2
  <2>3. wg' \in [Calls -> Int]
    BY <1>9, TasksHaveCalls DEF Done, RunnerTypes
  <2> QED
    BY <1>9, <2>1, <2>2, <2>3 DEF Done, RunnerTypes
<1>10. CASE UNCHANGED runnerVars
  BY <1>10 DEF runnerVars, RunnerTypes
<1> QED
  BY <1>1, <1>2, <1>3, <1>4, <1>5, <1>6, <1>7, <1>8, <1>9, <1>10 DEF RunnerNext

(* The next task of a call enters the pool, which did not hold it.          *)
LEMMA SubmitEnters ==
  ASSUME RunnerTypes, PoolInv, NEW c \in Calls, Submit(c)
  PROVE  LET t == TasksOf[c][submitted[c] + 1] IN
         /\ submitted[c] + 1 \in Indices(c) /\ submitted[c] # -1 /\ t \in Tasks /\ ~InPool(t)
         /\ submitted' = [submitted EXCEPT ![c] = submitted[c] + 1]
         /\ queue' = Append(queue, t)
         /\ \A u : InPool(u)' <=> InPool(u) \/ u = t
<1> DEFINE t == TasksOf[c][submitted[c] + 1]
<1>1. /\ submitted[c] + 1 \in Indices(c) /\ submitted[c] # -1
      /\ submitted' = [submitted EXCEPT ![c] = submitted[c] + 1]
      /\ queue' = Append(queue, t) /\ running' = running
  <2>1. Len(TasksOf[c]) \in Nat /\ submitted[c] \in 0..(Len(TasksOf[c]) - 1)
    BY TasksHaveCalls DEF Submit
  <2>2. submitted[c] + 1 \in Indices(c) /\ submitted[c] # -1
    BY <2>1 DEF Indices
  <2> QED
    BY <2>2 DEF Submit
<1>2. t \in Tasks
  BY <1>1, TasksHaveCalls
<1>3. ~InPool(t)
  <2>1. submitted[c] \in Int /\ ~(submitted[c] + 1 <= submitted[c])
    BY DEF RunnerTypes
  <2> QED
    BY <1>1, <2>1 DEF PoolInv
<1>4. ToSet(queue') = ToSet(queue) \union {t}
  BY <1>1, <1>2, Appended DEF RunnerTypes
<1> QED
  BY <1>1, <1>2, <1>3, <1>4 DEF InPool

(* A worker's task leaves the queue, and the pool holds what it held.       *)
LEMMA TakeKeeps ==
  ASSUME RunnerTypes, PoolInv, TakeTask
  PROVE  /\ Head(queue) \in Tasks /\ Head(queue) \notin DOMAIN running /\ InPool(Head(queue))
         /\ DOMAIN running' = DOMAIN running \union {Head(queue)}
         /\ running'[Head(queue)] = "run"
         /\ \A t \in DOMAIN running : running'[t] = running[t]
         /\ Len(queue) \in Nat \ {0} /\ Head(queue) = queue[1]
         /\ Len(queue') = Len(queue) - 1
         /\ \A i \in 1..Len(queue') : queue'[i] = queue[i + 1]
         /\ \A u : InPool(u)' <=> InPool(u)
<1>1. /\ Len(queue) \in Nat \ {0} /\ Head(queue) = queue[1] /\ Head(queue) \in Tasks
      /\ Len(queue') = Len(queue) - 1
      /\ \A i \in 1..Len(queue') : queue'[i] = queue[i + 1]
      /\ ToSet(queue) = ToSet(queue') \union {Head(queue)}
  BY Headless DEF TakeTask, RunnerTypes
<1>2. Head(queue) \notin DOMAIN running
  BY <1>1 DEF PoolInv
<1>3. /\ DOMAIN running' = DOMAIN running \union {Head(queue)}
      /\ running'[Head(queue)] = "run"
      /\ \A t \in DOMAIN running : running'[t] = running[t]
  BY <1>2 DEF TakeTask
<1> QED
  BY <1>1, <1>2, <1>3 DEF InPool

(* A task that is done leaves the pool.                                     *)
LEMMA DoneLeaves ==
  ASSUME RunnerTypes, PoolInv, NEW t \in Tasks, Done(t)
  PROVE  /\ InPool(t) /\ \A u : InPool(u)' <=> InPool(u) /\ u # t
         /\ DOMAIN running' = DOMAIN running \ {t}
         /\ \A u \in DOMAIN running' : running'[u] = running[u]
<1>1. /\ DOMAIN running' = DOMAIN running \ {t} /\ t \in DOMAIN running
      /\ \A u \in DOMAIN running' : running'[u] = running[u]
      /\ queue' = queue
  BY DEF Done
<1>2. t \notin ToSet(queue)
  BY <1>1, SeqSet DEF PoolInv, RunnerTypes
<1> QED
  BY <1>1, <1>2 DEF InPool

(* The other steps leave the pool's tasks alone.                            *)
LEMMA PoolStays ==
  ASSUME RunnerTypes
  PROVE  /\ \A c \in Calls : RunTasks(c) \/ Return(c) =>
              /\ queue' = queue /\ DOMAIN running' = DOMAIN running
              /\ \A u : InPool(u)' <=> InPool(u)
         /\ \A t \in Tasks :
              NestedRunTasks(t) \/ TaskEnds(t) \/ TaskFails(t) \/ AppendError(t) =>
                /\ queue' = queue /\ DOMAIN running' = DOMAIN running
                /\ \A u : InPool(u)' <=> InPool(u)
<1>1. ASSUME NEW c \in Calls, RunTasks(c) \/ Return(c)
      PROVE  queue' = queue /\ DOMAIN running' = DOMAIN running
  BY <1>1 DEF RunTasks, Return, RunnerTypes
<1>2. ASSUME NEW t \in Tasks,
             NestedRunTasks(t) \/ TaskEnds(t) \/ TaskFails(t) \/ AppendError(t)
      PROVE  queue' = queue /\ DOMAIN running' = DOMAIN running
  BY <1>2 DEF NestedRunTasks, TaskEnds, TaskFails, AppendError, TaskGoto, RunnerTypes
<1> QED
  BY <1>1, <1>2 DEF InPool

(* The outstanding tasks of a call are at most all of them.                 *)
LEMMA OutstandingCounts ==
  ASSUME RunnerTypes, NEW c \in Calls
  PROVE  /\ IsFiniteSet(Outstanding(c)) /\ Cardinality(Outstanding(c)) \in 0..Len(TasksOf[c])
         /\ Cardinality(Outstanding(c)) = 0 <=> Outstanding(c) = {}
<1>1. Len(TasksOf[c]) \in Nat
  BY TasksHaveCalls
<1>2. IsFiniteSet(1..Len(TasksOf[c])) /\ Cardinality(1..Len(TasksOf[c])) = Len(TasksOf[c])
  <2>1. 1 \in Int /\ Len(TasksOf[c]) \in Int
    BY <1>1
  <2>2. /\ IsFiniteSet(1..Len(TasksOf[c]))
        /\ Cardinality(1..Len(TasksOf[c]))
             = IF 1 > Len(TasksOf[c]) THEN 0 ELSE Len(TasksOf[c]) - 1 + 1
    BY <2>1, FS_Interval
  <2> QED
    BY <1>1, <2>2
<1>3. Outstanding(c) \subseteq 1..Len(TasksOf[c])
  BY DEF Outstanding, Indices
<1>4. /\ IsFiniteSet(Outstanding(c)) /\ Cardinality(Outstanding(c)) \in Nat
      /\ Cardinality(Outstanding(c)) <= Len(TasksOf[c])
  BY <1>2, <1>3, FS_Subset, FS_CardinalityType
<1>5. Cardinality(Outstanding(c)) = 0 <=> Outstanding(c) = {}
  BY <1>4, FS_EmptySet
<1> QED
  BY <1>1, <1>4, <1>5

(* When a call's wait group is at 0, the pool holds none of its tasks.      *)
LEMMA NothingOutstanding ==
  ASSUME RunnerTypes, CountInv, NEW c \in Calls, wg[c] = 0
  PROVE  \A i \in Indices(c) : ~InPool(TasksOf[c][i])
BY OutstandingCounts DEF CountInv, Outstanding

(* A task is never with the pool twice, and a call waits for those it has   *)
(* submitted.                                                               *)
LEMMA PoolStep ==
  ASSUME RunnerInv, [RunnerNext]_runnerVars
  PROVE  PoolInv'
<1> USE DEF RunnerInv
<1>1. ASSUME NEW c \in Calls, RunTasks(c) PROVE PoolInv'
  <2>1. \A i \in Indices(c) : ~InPool(TasksOf[c][i])
    BY <1>1 DEF RunTasks, Begin, PoolInv, Indices
  <2> QED
    BY <1>1, <2>1, PoolStays DEF RunTasks, Begin, PoolInv, RunnerTypes
<1>2. ASSUME NEW c \in Calls, Submit(c) PROVE PoolInv'
  <2> DEFINE t == TasksOf[c][submitted[c] + 1]
  <2>1. /\ submitted[c] + 1 \in Indices(c) /\ submitted[c] # -1 /\ t \in Tasks /\ ~InPool(t)
        /\ submitted' = [submitted EXCEPT ![c] = submitted[c] + 1]
        /\ queue' = Append(queue, t) /\ running' = running
        /\ \A u : InPool(u)' <=> InPool(u) \/ u = t
    BY <1>2, SubmitEnters DEF Submit
  <2>2. /\ Len(queue') = Len(queue) + 1 /\ queue'[Len(queue) + 1] = t
        /\ \A i \in 1..Len(queue) : queue'[i] = queue[i] /\ queue[i] # t
        /\ Len(queue) \in Nat
    BY <2>1, Appended, SeqSet DEF RunnerTypes, InPool
  <2>3. \A d \in Calls : \A i \in Indices(d) : TasksOf[d][i] = t => d = c /\ i = submitted[c] + 1
    BY <2>1, TasksHaveCalls
  <2>4. t \notin DOMAIN running
    BY <2>1 DEF InPool
  <2> HIDE DEF t
  <2>5. \A i, j \in 1..Len(queue') : queue'[i] = queue'[j] => i = j
    BY <2>2 DEF PoolInv
  <2>6. \A i \in 1..Len(queue') : queue'[i] \notin DOMAIN running'
    BY <2>1, <2>2, <2>4 DEF PoolInv
  <2>7. ASSUME NEW d \in Calls, NEW i \in Indices(d), InPool(TasksOf[d][i])'
        PROVE  i <= submitted'[d]
    <3>1. /\ submitted' \in [Calls -> Int] /\ submitted \in [Calls -> Int] /\ i \in Int
          /\ submitted'[d] = IF d = c THEN submitted[c] + 1 ELSE submitted[d]
      BY <2>1 DEF RunnerTypes, Indices
    <3>2. InPool(TasksOf[d][i]) \/ TasksOf[d][i] = t
      BY <2>1, <2>7
    <3>3. InPool(TasksOf[d][i]) => i <= submitted[d]
      BY DEF PoolInv
    <3> QED
      BY <2>3, <3>1, <3>2, <3>3
  <2> QED
    BY <2>5, <2>6, <2>7 DEF PoolInv, Indices
<1>3. ASSUME NEW c \in Calls, Return(c) PROVE PoolInv'
  <2>1. \A i \in Indices(c) : ~InPool(TasksOf[c][i])
    BY <1>3, NothingOutstanding DEF Return, WaitOver
  <2> QED
    BY <1>3, <2>1, PoolStays DEF Return, PoolInv, RunnerTypes
<1>4. CASE TakeTask
  <2>1. \A i, j \in 1..Len(queue') : queue'[i] = queue'[j] => i = j
    <3>1. SUFFICES ASSUME NEW i \in 1..Len(queue'), NEW j \in 1..Len(queue'),
                          queue'[i] = queue'[j]
                   PROVE  i = j
      OBVIOUS
    <3>2. /\ i \in Int /\ j \in Int
          /\ i + 1 \in 1..Len(queue) /\ j + 1 \in 1..Len(queue)
      BY <1>4, TakeKeeps
    <3>3. queue[i + 1] = queue[j + 1]
      BY <1>4, <3>1, TakeKeeps
    <3>4. i + 1 = j + 1
      BY <3>2, <3>3 DEF PoolInv
    <3> QED
      BY <3>2, <3>4
  <2>2. \A i \in 1..Len(queue') : queue'[i] \notin DOMAIN running'
    <3>1. ASSUME NEW i \in 1..Len(queue') PROVE queue'[i] \notin DOMAIN running'
      <4>1. i + 1 \in 1..Len(queue) /\ 1 \in 1..Len(queue) /\ i + 1 # 1
        BY <1>4, TakeKeeps
      <4> QED
        BY <1>4, <4>1, TakeKeeps DEF PoolInv
    <3> QED
      BY <3>1
  <2> QED
    BY <1>4, <2>1, <2>2, TakeKeeps DEF PoolInv, TakeTask
<1>5. ASSUME NEW t \in Tasks, NestedRunTasks(t) PROVE PoolInv'
  <2>1. t \in Calls /\ \A i \in Indices(t) : ~InPool(TasksOf[t][i])
    BY <1>5 DEF NestedRunTasks, Begin, PoolInv, Indices, Nesting
  <2> QED
    BY <1>5, <2>1, PoolStays DEF NestedRunTasks, Begin, PoolInv, RunnerTypes
<1>6. ASSUME NEW t \in Tasks, TaskEnds(t) \/ TaskFails(t) \/ AppendError(t) PROVE PoolInv'
  <2>1. submitted' = submitted
    BY <1>6 DEF TaskEnds, TaskFails, AppendError
  <2> QED
    BY <1>6, <2>1, PoolStays DEF PoolInv
<1>7. ASSUME NEW t \in Tasks, Done(t) PROVE PoolInv'
  <2>1. queue' = queue /\ submitted' = submitted
    BY <1>7 DEF Done
  <2> QED
    BY <1>7, <2>1, DoneLeaves DEF PoolInv
<1>8. CASE UNCHANGED runnerVars
  BY <1>8 DEF runnerVars, PoolInv, InPool
<1> QED
  BY <1>1, <1>2, <1>3, <1>4, <1>5, <1>6, <1>7, <1>8 DEF RunnerNext

(* While a task waits in a RunTasks of its own, and only then, that call is *)
(* on its way.                                                              *)
LEMMA NestedStep ==
  ASSUME RunnerInv, [RunnerNext]_runnerVars
  PROVE  NestedInv'
<1> USE DEF RunnerInv
<1>0. submitted \in [Calls -> Int] /\ Nesting \subseteq Calls
  BY DEF RunnerTypes, Nesting
<1>1. ASSUME NEW c \in Calls, RunTasks(c) PROVE NestedInv'
  BY <1>0, <1>1 DEF RunTasks, Begin, NestedInv, Nesting
<1>2. ASSUME NEW c \in Calls, Submit(c) PROVE NestedInv'
  <2>1. /\ submitted' = [submitted EXCEPT ![c] = submitted[c] + 1] /\ running' = running
        /\ submitted[c] # -1 /\ submitted[c] + 1 # -1
    BY <1>0, <1>2, SubmitEnters DEF Submit, RunnerTypes, Indices
  <2> QED
    BY <1>0, <2>1 DEF NestedInv
<1>3. ASSUME NEW c \in Calls, Return(c) PROVE NestedInv'
  BY <1>0, <1>3 DEF Return, NestedInv, RunnerTypes
<1>4. CASE TakeTask
  <2>1. submitted' = submitted
    BY <1>4 DEF TakeTask
  <2> QED
    BY <1>0, <1>4, <2>1, TakeKeeps DEF NestedInv
<1>5. ASSUME NEW t \in Tasks, NestedRunTasks(t) PROVE NestedInv'
  BY <1>0, <1>5, GotoTypes DEF NestedRunTasks, Begin, NestedInv, RunStates
<1>6. ASSUME NEW t \in Tasks, TaskEnds(t) PROVE NestedInv'
  BY <1>6, GotoTypes DEF TaskEnds, NestedInv, RunStates
<1>7. ASSUME NEW t \in Tasks, TaskFails(t) PROVE NestedInv'
  BY <1>7, GotoTypes DEF TaskFails, NestedInv, RunStates
<1>8. ASSUME NEW t \in Tasks, AppendError(t) PROVE NestedInv'
  BY <1>8, GotoTypes DEF AppendError, NestedInv, RunStates
<1>9. ASSUME NEW t \in Tasks, Done(t) PROVE NestedInv'
  BY <1>9, DoneLeaves DEF Done, NestedInv
<1>10. CASE UNCHANGED runnerVars
  BY <1>10 DEF runnerVars, NestedInv
<1> QED
  BY <1>1, <1>2, <1>3, <1>4, <1>5, <1>6, <1>7, <1>8, <1>9, <1>10 DEF RunnerNext

(* A call that begins has all its tasks outstanding.                        *)
LEMMA BeginCounts ==
  ASSUME RunnerInv, NEW c \in Calls, Begin(c), \A u : InPool(u)' <=> InPool(u)
  PROVE  CountInv'
<1>1. Outstanding(c)' = 1..Len(TasksOf[c])
  BY DEF Begin, Outstanding, Indices, RunnerInv, RunnerTypes
<1>2. wg'[c] = Cardinality(Outstanding(c)')
  <2>1. Len(TasksOf[c]) \in Nat
    BY TasksHaveCalls
  <2>2. 1 \in Int /\ Len(TasksOf[c]) \in Int
    BY <2>1
  <2>3. Cardinality(1..Len(TasksOf[c]))
          = IF 1 > Len(TasksOf[c]) THEN 0 ELSE Len(TasksOf[c]) - 1 + 1
    BY <2>2, FS_Interval
  <2>4. wg'[c] = Len(TasksOf[c])
    BY DEF Begin, RunnerInv, RunnerTypes
  <2> QED
    BY <1>1, <2>1, <2>3, <2>4
<1>3. ASSUME NEW d \in Calls, d # c PROVE wg'[d] = wg[d] /\ Outstanding(d)' = Outstanding(d)
  BY <1>3 DEF Begin, Outstanding, Indices, RunnerInv, RunnerTypes
<1> QED
  BY <1>2, <1>3 DEF CountInv, RunnerInv

(* A wait group counts the tasks of its call that are outstanding.          *)
LEMMA CountStep ==
  ASSUME RunnerInv, [RunnerNext]_runnerVars
  PROVE  CountInv'
<1> USE DEF RunnerInv
<1>1. ASSUME NEW c \in Calls, RunTasks(c) PROVE CountInv'
  BY <1>1, PoolStays, BeginCounts DEF RunTasks
<1>2. ASSUME NEW c \in Calls, Submit(c) PROVE CountInv'
  <2> DEFINE t == TasksOf[c][submitted[c] + 1]
  <2>1. /\ submitted[c] + 1 \in Indices(c) /\ submitted[c] # -1
        /\ submitted' = [submitted EXCEPT ![c] = submitted[c] + 1] /\ wg' = wg
        /\ \A u : InPool(u)' <=> InPool(u) \/ u = t
    BY <1>2, SubmitEnters DEF Submit
  <2>2. \A d \in Calls : \A i \in Indices(d) : TasksOf[d][i] = t <=> d = c /\ i = submitted[c] + 1
    BY <2>1, TasksHaveCalls
  <2> HIDE DEF t
  <2>3. ASSUME NEW d \in Calls, NEW i \in Indices(d)
        PROVE  i \in Outstanding(d)' <=> i \in Outstanding(d)
    <3>1. /\ i \in Int /\ submitted[c] \in Int /\ submitted[c] + 1 # -1
          /\ submitted'[d] = IF d = c THEN submitted[c] + 1 ELSE submitted[d]
      BY <2>1 DEF RunnerTypes, Indices
    <3> QED
      BY <2>1, <2>2, <3>1 DEF Outstanding, Indices
  <2>4. \A d \in Calls : Outstanding(d)' = Outstanding(d)
    BY <2>3 DEF Outstanding, Indices
  <2> QED
    BY <2>1, <2>4 DEF CountInv
<1>3. ASSUME NEW c \in Calls, Return(c) PROVE CountInv'
  <2>1. \A i \in Indices(c) : ~InPool(TasksOf[c][i])
    BY <1>3, NothingOutstanding DEF Return, WaitOver
  <2>2. Outstanding(c) = {}
    BY <1>3, OutstandingCounts DEF Return, WaitOver, CountInv
  <2>3. /\ wg' = wg /\ \A u : InPool(u)' <=> InPool(u)
        /\ \A d \in Calls : submitted'[d] = IF d = c THEN -1 ELSE submitted[d]
    BY <1>3, PoolStays DEF Return, RunnerTypes
  <2>4. \A d \in Calls : Outstanding(d)' = Outstanding(d)
    BY <2>1, <2>2, <2>3 DEF Outstanding, Indices
  <2> QED
    BY <2>3, <2>4 DEF CountInv
<1>4. CASE TakeTask
  <2>1. submitted' = submitted /\ wg' = wg /\ \A u : InPool(u)' <=> InPool(u)
    BY <1>4, TakeKeeps DEF TakeTask
  <2> QED
    BY <2>1 DEF CountInv, Outstanding, Indices
<1>5. ASSUME NEW t \in Tasks, NestedRunTasks(t) PROVE CountInv'
  BY <1>5, PoolStays, BeginCounts DEF NestedRunTasks, Nesting
<1>6. ASSUME NEW t \in Tasks, TaskEnds(t) \/ TaskFails(t) \/ AppendError(t) PROVE CountInv'
  <2>1. submitted' = submitted /\ wg' = wg /\ \A u : InPool(u)' <=> InPool(u)
    BY <1>6, PoolStays DEF TaskEnds, TaskFails, AppendError
  <2> QED
    BY <2>1 DEF CountInv, Outstanding, Indices
<1>7. ASSUME NEW t \in Tasks, Done(t) PROVE CountInv'
  <2> DEFINE c == CallOf(t)
  <2>1. c \in Calls
    BY TasksHaveCalls
  <2>2. PICK k \in Indices(c) : TasksOf[c][k] = t
    BY TasksHaveCalls
  <2>3. \A d \in Calls : \A i \in Indices(d) : TasksOf[d][i] = t <=> d = c /\ i = k
    BY <2>1, <2>2, TasksHaveCalls
  <2>4. InPool(t) /\ submitted' = submitted /\ \A u : InPool(u)' <=> InPool(u) /\ u # t
    BY <1>7, DoneLeaves DEF Done
  <2>5. \A d \in Calls : wg'[d] = IF d = c THEN wg[c] - 1 ELSE wg[d]
    BY <1>7, <2>1 DEF Done, RunnerTypes
  <2> HIDE DEF c
  <2>6. k <= submitted[c]
    BY <2>1, <2>2, <2>4 DEF PoolInv
  <2>7. k \in Outstanding(c) /\ Outstanding(c)' = Outstanding(c) \ {k}
    <3>1. ASSUME NEW i \in Indices(c)
          PROVE  i \in Outstanding(c)' <=> i \in Outstanding(c) \ {k}
      <4>1. ~(k > submitted[c])
        BY <2>1, <2>6 DEF RunnerTypes, Indices
      <4> QED
        BY <2>1, <2>3, <2>4, <4>1 DEF Outstanding, Indices
    <3>2. Outstanding(c)' = Outstanding(c) \ {k}
      BY <3>1 DEF Outstanding, Indices
    <3> QED
      BY <2>2, <2>4, <3>2 DEF Outstanding
  <2>8. \A d \in Calls \ {c} : Outstanding(d)' = Outstanding(d)
    BY <2>3, <2>4 DEF Outstanding, Indices
  <2>9. Cardinality(Outstanding(c)') = Cardinality(Outstanding(c)) - 1
    BY <2>1, <2>7, OutstandingCounts, FS_RemoveElement
  <2> QED
    BY <2>5, <2>8, <2>9 DEF CountInv
<1>8. CASE UNCHANGED runnerVars
  BY <1>8 DEF runnerVars, CountInv, Outstanding, InPool, Indices
<1> QED
  BY <1>1, <1>2, <1>3, <1>4, <1>5, <1>6, <1>7, <1>8 DEF RunnerNext

(* What is known of the errors of one call.                                 *)
ErrorsOf(c) ==
  /\ failed[c] = ToSet(errors[c]) \union Appending(c)
  /\ Len(errors[c]) = Cardinality(ToSet(errors[c]))
  /\ \A i \in Indices(c) : TasksOf[c][i] \in ToSet(errors[c]) =>
       /\ submitted[c] # -1 => i <= submitted[c]
       /\ \A j \in 1..Len(queue) : queue[j] # TasksOf[c][i]
       /\ TasksOf[c][i] \in DOMAIN running => running[TasksOf[c][i]] = "done"

(* A call begins with no error, when none of its tasks is with the pool.    *)
LEMMA BeginErrors ==
  ASSUME RunnerInv, NEW c \in Calls, Begin(c), queue' = queue,
         DOMAIN running' = DOMAIN running,
         \A u \in DOMAIN running : running'[u] # running[u] =>
           running[u] = "run" /\ running'[u] = "nested"
  PROVE  ErrorsInv'
<1> USE DEF RunnerInv
<1>1. \A d \in Calls : Appending(d)' = Appending(d)
  BY DEF Appending
<1>2. Appending(c) = {}
  <2>1. ASSUME NEW t \in Appending(c) PROVE FALSE
    <3>1. t \in Tasks /\ CallOf(t) = c /\ InPool(t)
      BY <2>1 DEF Appending, RunnerTypes, InPool
    <3>2. PICK i \in Indices(c) : TasksOf[c][i] = t
      BY <3>1, TasksHaveCalls
    <3> QED
      BY <3>1, <3>2 DEF PoolInv, Begin, Indices
  <2> QED
    BY <2>1
<1>3. /\ errors'[c] = <<>> /\ failed'[c] = {}
      /\ \A d \in Calls \ {c} : /\ errors'[d] = errors[d] /\ failed'[d] = failed[d]
                                /\ submitted'[d] = submitted[d]
  BY DEF Begin, RunnerTypes
<1>4. ToSet(<<>>) = {} /\ Len(<<>>) = 0 /\ Cardinality({}) = 0
  BY FS_EmptySet DEF ToSet
<1>5. ErrorsOf(c)'
  BY <1>1, <1>2, <1>3, <1>4 DEF ErrorsOf
<1>6. ASSUME NEW d \in Calls \ {c} PROVE ErrorsOf(d)'
  BY <1>1, <1>3 DEF ErrorsOf, ErrorsInv
<1> QED
  BY <1>5, <1>6 DEF ErrorsInv, ErrorsOf

(* What a sequence holds is finite.                                         *)
LEMMA ErrorsAreFinite ==
  ASSUME NEW s \in Seq(Tasks)
  PROVE  Len(s) \in Nat /\ IsFiniteSet(ToSet(s))
<1>1. Len(s) \in Nat /\ ToSet(s) = {s[i] : i \in 1..Len(s)}
  BY SeqSet
<1>2. IsFiniteSet(1..Len(s))
  <2>1. 1 \in Int /\ Len(s) \in Int
    BY <1>1
  <2> QED
    BY <2>1, FS_Interval
<1>3. IsFiniteSet(ToSet(s))
  <2> DEFINE f == [i \in 1..Len(s) |-> s[i]]
  <2>1. f \in Surjection(1..Len(s), ToSet(s))
    BY <1>1 DEF Surjection
  <2> QED
    BY <1>2, <2>1, FS_Surjection
<1> QED
  BY <1>1, <1>3

(* A task that failed is in the list of its call once it is over, and is    *)
(* not appended again.                                                      *)
LEMMA ErrorsStep ==
  ASSUME RunnerInv, [RunnerNext]_runnerVars
  PROVE  ErrorsInv'
<1> USE DEF RunnerInv
<1>1. ASSUME NEW c \in Calls, RunTasks(c) PROVE ErrorsInv'
  BY <1>1, BeginErrors DEF RunTasks
<1>2. ASSUME NEW c \in Calls, Submit(c) PROVE ErrorsInv'
  <2> DEFINE t == TasksOf[c][submitted[c] + 1]
  <2>1. /\ submitted[c] + 1 \in Indices(c) /\ submitted[c] # -1 /\ t \in Tasks
        /\ \A d \in Calls : submitted'[d] = IF d = c THEN submitted[c] + 1 ELSE submitted[d]
        /\ queue' = Append(queue, t) /\ running' = running
        /\ errors' = errors /\ failed' = failed
    BY <1>2, SubmitEnters DEF Submit, RunnerTypes
  <2>2. /\ Len(queue') = Len(queue) + 1 /\ queue'[Len(queue) + 1] = t
        /\ \A i \in 1..Len(queue) : queue'[i] = queue[i]
        /\ Len(queue) \in Nat
    BY <2>1, Appended, SeqSet DEF RunnerTypes
  <2>3. \A d \in Calls : \A i \in Indices(d) : TasksOf[d][i] = t => d = c /\ i = submitted[c] + 1
    BY <2>1, TasksHaveCalls
  <2> HIDE DEF t
  <2>4. ASSUME NEW d \in Calls, NEW i \in Indices(d), TasksOf[d][i] \in ToSet(errors[d])
        PROVE  /\ submitted'[d] # -1 => i <= submitted'[d]
               /\ \A j \in 1..Len(queue') : queue'[j] # TasksOf[d][i]
               /\ TasksOf[d][i] \in DOMAIN running => running[TasksOf[d][i]] = "done"
    <3>1. /\ submitted[d] # -1 => i <= submitted[d]
          /\ \A j \in 1..Len(queue) : queue[j] # TasksOf[d][i]
          /\ TasksOf[d][i] \in DOMAIN running => running[TasksOf[d][i]] = "done"
      BY <2>4 DEF ErrorsInv
    <3>2. i \in Int /\ submitted[c] \in Int
      BY DEF RunnerTypes, Indices
    <3>3. TasksOf[d][i] # t
      BY <2>1, <2>3, <3>1, <3>2
    <3> QED
      BY <2>1, <2>2, <3>1, <3>2, <3>3
  <2>5. \A d \in Calls : Appending(d)' = Appending(d)
    BY <2>1 DEF Appending
  <2> QED
    BY <2>1, <2>4, <2>5 DEF ErrorsInv, Indices
<1>3. ASSUME NEW c \in Calls, Return(c) PROVE ErrorsInv'
  <2>1. /\ errors' = errors /\ failed' = failed /\ queue' = queue
        /\ \A d \in Calls : submitted'[d] = IF d = c THEN -1 ELSE submitted[d]
    BY <1>3 DEF Return, RunnerTypes
  <2>2. /\ DOMAIN running' = DOMAIN running
        /\ \A u \in DOMAIN running : running'[u] # running[u] =>
             running[u] = "nested" /\ running'[u] = "end"
    <3>1. c \in Nesting => c \in DOMAIN running /\ running[c] = "nested"
      BY <1>3, TasksHaveCalls DEF Return, WaitOver, NestedInv
    <3> QED
      BY <1>3, <3>1 DEF Return, RunnerTypes
  <2>3. \A d \in Calls : Appending(d)' = Appending(d)
    BY <2>2 DEF Appending
  <2> QED
    BY <2>1, <2>2, <2>3 DEF ErrorsInv, Indices
<1>4. CASE TakeTask
  <2>1. errors' = errors /\ failed' = failed /\ submitted' = submitted
    BY <1>4 DEF TakeTask
  <2>2. \A d \in Calls : Appending(d)' = Appending(d)
    BY <1>4, TakeKeeps DEF Appending
  <2>3. ASSUME NEW d \in Calls, NEW i \in Indices(d), TasksOf[d][i] \in ToSet(errors[d])
        PROVE  /\ \A j \in 1..Len(queue') : queue'[j] # TasksOf[d][i]
               /\ TasksOf[d][i] \in DOMAIN running' => running'[TasksOf[d][i]] = "done"
    <3>1. /\ \A j \in 1..Len(queue) : queue[j] # TasksOf[d][i]
          /\ TasksOf[d][i] \in DOMAIN running => running[TasksOf[d][i]] = "done"
      BY <2>3 DEF ErrorsInv
    <3>2. TasksOf[d][i] # Head(queue) /\ \A j \in 1..Len(queue') : queue'[j] # TasksOf[d][i]
      BY <1>4, <3>1, TakeKeeps
    <3> QED
      BY <1>4, <3>1, <3>2, TakeKeeps
  <2> QED
    BY <2>1, <2>2, <2>3 DEF ErrorsInv, Indices
<1>5. ASSUME NEW t \in Tasks, NestedRunTasks(t) PROVE ErrorsInv'
  <2>1. /\ t \in Calls /\ Begin(t) /\ queue' = queue /\ DOMAIN running' = DOMAIN running
        /\ \A u \in DOMAIN running : running'[u] # running[u] =>
             running[u] = "run" /\ running'[u] = "nested"
    BY <1>5, GotoTypes DEF NestedRunTasks, Nesting, RunStates
  <2> QED
    BY <2>1, BeginErrors
<1>6. ASSUME NEW t \in Tasks, TaskEnds(t) PROVE ErrorsInv'
  <2>1. /\ errors' = errors /\ failed' = failed /\ submitted' = submitted /\ queue' = queue
        /\ DOMAIN running' = DOMAIN running
        /\ running[t] \in {"run", "end"} /\ running'[t] = "done"
        /\ \A u \in DOMAIN running : u # t => running'[u] = running[u]
    BY <1>6, GotoTypes DEF TaskEnds, RunStates
  <2>2. \A d \in Calls : Appending(d)' = Appending(d)
    BY <2>1 DEF Appending
  <2> QED
    BY <2>1, <2>2 DEF ErrorsInv, Indices
<1>7. ASSUME NEW t \in Tasks, TaskFails(t) PROVE ErrorsInv'
  <2> DEFINE c == CallOf(t)
  <2>1. /\ errors' = errors /\ submitted' = submitted /\ queue' = queue
        /\ DOMAIN running' = DOMAIN running /\ t \in DOMAIN running
        /\ running[t] \in {"run", "end"} /\ running'[t] = "failed"
        /\ \A u \in DOMAIN running : u # t => running'[u] = running[u]
    BY <1>7, GotoTypes DEF TaskFails, RunStates
  <2>2. c \in Calls
    BY TasksHaveCalls
  <2>3. \A d \in Calls : failed'[d] = IF d = c THEN failed[c] \union {t} ELSE failed[d]
    BY <1>7, <2>2 DEF TaskFails, RunnerTypes
  <2>4. \A d \in Calls : Appending(d)' = IF d = c THEN Appending(c) \union {t} ELSE Appending(d)
    BY <2>1 DEF Appending
  <2>5. \A d \in Calls : failed'[d] = ToSet(errors[d]) \union Appending(d)'
    BY <2>3, <2>4 DEF ErrorsInv
  <2>6. ASSUME NEW d \in Calls, NEW i \in Indices(d), TasksOf[d][i] \in ToSet(errors[d])
        PROVE  TasksOf[d][i] \in DOMAIN running => running'[TasksOf[d][i]] = "done"
    <3>1. TasksOf[d][i] \in DOMAIN running => running[TasksOf[d][i]] = "done"
      BY <2>6 DEF ErrorsInv
    <3> QED
      BY <2>1, <3>1
  <2> HIDE DEF c
  <2> QED
    BY <2>1, <2>5, <2>6 DEF ErrorsInv, Indices
<1>8. ASSUME NEW t \in Tasks, AppendError(t) PROVE ErrorsInv'
  <2> DEFINE c == CallOf(t)
  <2>1. /\ failed' = failed /\ submitted' = submitted /\ queue' = queue
        /\ DOMAIN running' = DOMAIN running /\ t \in DOMAIN running
        /\ running[t] = "failed" /\ running'[t] = "done"
        /\ \A u \in DOMAIN running : u # t => running'[u] = running[u]
    BY <1>8, GotoTypes DEF AppendError, RunStates
  <2>2. c \in Calls
    BY TasksHaveCalls
  <2>3. PICK k \in Indices(c) : TasksOf[c][k] = t
    BY TasksHaveCalls
  <2>4. \A d \in Calls : \A i \in Indices(d) : TasksOf[d][i] = t => d = c
    BY <2>2, <2>3, TasksHaveCalls
  <2>5. \A d \in Calls : errors'[d] = IF d = c THEN Append(errors[c], t) ELSE errors[d]
    BY <1>8, <2>2 DEF AppendError, RunnerTypes
  <2>6. /\ ToSet(errors'[c]) = ToSet(errors[c]) \union {t}
        /\ Len(errors'[c]) = Len(errors[c]) + 1
        /\ errors[c] \in Seq(Tasks)
    <3>1. errors[c] \in Seq(Tasks) /\ errors'[c] = Append(errors[c], t)
      BY <2>2, <2>5 DEF RunnerTypes
    <3> HIDE DEF c
    <3> QED
      BY <3>1, Appended
  <2>7. \A d \in Calls : Appending(d)' = IF d = c THEN Appending(c) \ {t} ELSE Appending(d)
    BY <2>1 DEF Appending
  <2>8. t \in Appending(c)
    BY <2>1 DEF Appending
  <2>9. t \notin ToSet(errors[c])
    BY <2>1, <2>2, <2>3 DEF ErrorsInv
  <2>10. InPool(t) /\ t \notin ToSet(queue)
    BY <2>1, SeqSet DEF InPool, PoolInv, RunnerTypes
  <2>11. k <= submitted[c] /\ \A j \in 1..Len(queue) : queue[j] # t
    <3>1. k <= submitted[c]
      BY <2>2, <2>3, <2>10 DEF PoolInv
    <3> QED
      BY <3>1, <2>10, SeqSet DEF RunnerTypes
  <2> HIDE DEF c
  <2>12. failed[c] = ToSet(errors'[c]) \union Appending(c)'
    BY <2>2, <2>6, <2>7, <2>8 DEF ErrorsInv
  <2>13. Len(errors'[c]) = Cardinality(ToSet(errors'[c]))
    <3>1. /\ Len(errors[c]) \in Nat /\ IsFiniteSet(ToSet(errors[c]))
          /\ Len(errors[c]) = Cardinality(ToSet(errors[c]))
      BY <2>2, <2>6, ErrorsAreFinite DEF ErrorsInv
    <3> QED
      BY <2>6, <2>9, <3>1, FS_AddElement
  <2>14. ASSUME NEW i \in Indices(c), TasksOf[c][i] \in ToSet(errors'[c])
         PROVE  /\ submitted[c] # -1 => i <= submitted[c]
                /\ \A j \in 1..Len(queue) : queue[j] # TasksOf[c][i]
                /\ TasksOf[c][i] \in DOMAIN running' => running'[TasksOf[c][i]] = "done"
    <3>1. CASE TasksOf[c][i] = t
      <4>1. i = k
        BY <2>2, <2>3, <3>1, TasksHaveCalls
      <4> QED
        BY <2>1, <2>11, <3>1, <4>1
    <3>2. CASE TasksOf[c][i] # t
      <4>1. TasksOf[c][i] \in ToSet(errors[c])
        BY <2>6, <2>14, <3>2
      <4> QED
        BY <2>1, <2>2, <3>2, <4>1 DEF ErrorsInv
    <3> QED
      BY <3>1, <3>2
  <2>15. ErrorsOf(c)'
    BY <2>1, <2>12, <2>13, <2>14 DEF ErrorsOf, Indices
  <2>16. ASSUME NEW d \in Calls, d # c PROVE ErrorsOf(d)'
    <3>1. errors'[d] = errors[d] /\ Appending(d)' = Appending(d)
      BY <2>5, <2>7, <2>16
    <3>2. \A i \in Indices(d) : TasksOf[d][i] # t
      BY <2>4, <2>16
    <3> QED
      BY <2>1, <3>1, <3>2 DEF ErrorsOf, ErrorsInv, Indices
  <2> QED
    BY <2>15, <2>16 DEF ErrorsInv, ErrorsOf
<1>9. ASSUME NEW t \in Tasks, Done(t) PROVE ErrorsInv'
  <2>1. /\ errors' = errors /\ failed' = failed /\ submitted' = submitted /\ queue' = queue
        /\ running[t] = "done" /\ DOMAIN running' = DOMAIN running \ {t}
        /\ \A u \in DOMAIN running' : running'[u] = running[u]
    BY <1>9 DEF Done
  <2>2. \A d \in Calls : Appending(d)' = Appending(d)
    BY <2>1 DEF Appending
  <2> QED
    BY <2>1, <2>2 DEF ErrorsInv, Indices
<1>10. CASE UNCHANGED runnerVars
  BY <1>10 DEF runnerVars, ErrorsInv, Appending, Indices
<1> QED
  BY <1>1, <1>2, <1>3, <1>4, <1>5, <1>6, <1>7, <1>8, <1>9, <1>10 DEF RunnerNext

(* Before any call nothing is submitted, in the pool or collected.          *)
LEMMA RunnerInvInit == NewRunner => RunnerInv
<1> SUFFICES ASSUME NewRunner PROVE RunnerInv
  OBVIOUS
<1>1. /\ <<>> \in Seq(Tasks) /\ \A c \in Calls : <<>> \in Seq(ToSet(TasksOf[c]))
      /\ Len(<<>>) = 0 /\ DOMAIN <<>> = {} /\ ToSet(<<>>) = {}
      /\ <<>> \in [{} -> RunStates]
  BY DEF ToSet
<1>2. IsFiniteSet({}) /\ Cardinality({}) = 0
  BY FS_EmptySet
<1>3. RunnerTypes
  BY <1>1, <1>2, TasksHaveCalls, RunnerAssumption DEF NewRunner, RunnerTypes
<1>4. \A t : ~InPool(t)
  BY <1>1 DEF NewRunner, InPool
<1>5. PoolInv
  BY <1>1, <1>4 DEF NewRunner, PoolInv
<1>6. NestedInv
  BY <1>1 DEF NewRunner, NestedInv, Nesting
<1>7. CountInv
  <2>1. \A c \in Calls : Outstanding(c) = {}
    BY <1>4 DEF NewRunner, Outstanding
  <2> QED
    BY <1>2, <2>1 DEF NewRunner, CountInv
<1>8. ErrorsInv
  BY <1>1, <1>2 DEF NewRunner, ErrorsInv, Appending
<1> QED
  BY <1>3, <1>5, <1>6, <1>7, <1>8 DEF RunnerInv

(* Every step of calls, workers and tasks preserves the invariant.          *)
LEMMA RunnerInvStep == RunnerInv /\ [RunnerNext]_runnerVars => RunnerInv'
BY TypesStep, PoolStep, NestedStep, CountStep, ErrorsStep DEF RunnerInv

(* What is outstanding bounds the wait groups.                              *)
LEMMA InvRunnerTypes == RunnerInv => RunnerTypeOK
<1>1. ASSUME RunnerInv, NEW c \in Calls PROVE wg[c] \in 0..Len(TasksOf[c])
  BY <1>1, OutstandingCounts DEF RunnerInv, CountInv
<1> QED
  BY <1>1 DEF RunnerInv, RunnerTypes, RunnerTypeOK, RunStates

(* For any calls, tasks and workers: no wait group counts below 0, and no   *)
(* more tasks are running than there are workers.                           *)
THEOREM RunnerTypesHold == RunnerSpec => []RunnerTypeOK
BY InvRunnerTypes, RunnerInvInit, RunnerInvStep, PTL DEF RunnerSpec

(* When wg.Wait is over, nobody is about to append to the call's list.      *)
LEMMA InvReturnsErrors ==
  ASSUME RunnerInv, NEW c \in Calls, WaitOver(c)
  PROVE  ToSet(errors[c]) = failed[c] /\ Len(errors[c]) = Cardinality(failed[c])
<1>1. Appending(c) = {}
  <2>1. ASSUME NEW t \in Appending(c) PROVE FALSE
    <3>1. t \in Tasks /\ CallOf(t) = c /\ InPool(t)
      BY <2>1 DEF Appending, RunnerInv, RunnerTypes, InPool
    <3>2. PICK i \in Indices(c) : TasksOf[c][i] = t
      BY <3>1, TasksHaveCalls
    <3>3. RunnerTypes /\ PoolInv /\ CountInv
      BY DEF RunnerInv
    <3> QED
      BY <3>1, <3>2, <3>3, NothingOutstanding DEF WaitOver
  <2> QED
    BY <2>1
<1>2. ErrorsInv
  BY DEF RunnerInv
<1>3. /\ failed[c] = ToSet(errors[c]) \union Appending(c)
      /\ Len(errors[c]) = Cardinality(ToSet(errors[c]))
  BY <1>2, Zenon DEF ErrorsInv
<1> HIDE DEF Appending
<1> QED
  BY <1>1, <1>3

(* For any calls, tasks and workers, nested calls among them: the list that *)
(* RunTasks returns holds every task that failed, once, and no other        *)
(* (taskrunner.go:46-58).                                                   *)
THEOREM CallsReturnTheirErrors == RunnerSpec => []ErrorsAreComplete
<1>1. RunnerInv => ErrorsAreComplete
  BY InvReturnsErrors DEF ErrorsAreComplete
<1> QED
  BY <1>1, RunnerInvInit, RunnerInvStep, PTL DEF RunnerSpec

\* The tasks in the queue or run by a worker that has not seen them return, and
\* those of the tasks of a call with s submitted that are not, or among them.
Working == ToSet(queue) \union {t \in DOMAIN running : running[t] \notin {"failed", "done"}}
Members(c, s, W) ==
  {TasksOf[c][i] : i \in {j \in Indices(c) : (s # -1 /\ j >= s + 1) \/ TasksOf[c][j] \in W}}

(* A task of a call is a member at its place in the list.                   *)
LEMMA MembersAt ==
  ASSUME NEW c \in Calls, NEW s \in -1..Len(TasksOf[c]), NEW W
  PROVE  /\ \A t \in Members(c, s, W) : \E i \in Indices(c) : TasksOf[c][i] = t
         /\ \A i \in Indices(c) :
              TasksOf[c][i] \in Members(c, s, W) <=>
                (s # -1 /\ i >= s + 1) \/ TasksOf[c][i] \in W
BY TasksHaveCalls DEF Members

(* The tasks of a call that are not over, by their places.                  *)
LEMMA MembersAre ==
  ASSUME NEW c \in Calls, NEW s \in -1..Len(TasksOf[c]), NEW W
  PROVE  {t \in ToSet(TasksOf[c]) :
            \/ s # -1 /\ \E i \in (s + 1)..Len(TasksOf[c]) : TasksOf[c][i] = t
            \/ t \in W} = Members(c, s, W)
<1>1. Len(TasksOf[c]) \in Nat /\ s \in Int
  BY TasksHaveCalls
<1>2. \A t : t \in ToSet(TasksOf[c]) <=> \E i \in Indices(c) : TasksOf[c][i] = t
  BY TasksHaveCalls, SeqSet DEF Indices
<1>3. ASSUME NEW i \in Indices(c), s # -1
      PROVE  (\E j \in (s + 1)..Len(TasksOf[c]) : TasksOf[c][j] = TasksOf[c][i]) <=> i >= s + 1
  <2>1. ASSUME NEW j \in (s + 1)..Len(TasksOf[c]), TasksOf[c][j] = TasksOf[c][i]
        PROVE  i >= s + 1
    <3>1. j \in Indices(c) /\ j >= s + 1
      BY <1>1, <1>3, <2>1 DEF Indices
    <3> QED
      BY <2>1, <3>1, TasksHaveCalls
  <2>2. i >= s + 1 => i \in (s + 1)..Len(TasksOf[c])
    BY <1>1 DEF Indices
  <2> QED
    BY <2>1, <2>2
<1>4. ASSUME NEW i \in Indices(c)
      PROVE  TasksOf[c][i] \in Members(c, s, W) <=>
               \/ s # -1 /\ \E j \in (s + 1)..Len(TasksOf[c]) : TasksOf[c][j] = TasksOf[c][i]
               \/ TasksOf[c][i] \in W
  BY <1>3, MembersAt
<1> QED
  BY <1>2, <1>4, MembersAt

(* NotOver, now and after a step.                                           *)
LEMMA NotOverIs ==
  ASSUME RunnerTypes, RunnerTypes'
  PROVE  /\ NotOver = [c \in Calls |-> Members(c, submitted[c], Working)]
         /\ NotOver' = [c \in Calls |-> Members(c, submitted'[c], Working')]
<1>1. ASSUME NEW c \in Calls PROVE NotOver[c] = Members(c, submitted[c], Working)
  <2>1. submitted[c] \in -1..Len(TasksOf[c])
    BY DEF RunnerTypes
  <2>2. NotOver[c] = {t \in ToSet(TasksOf[c]) :
            \/ submitted[c] # -1
               /\ \E i \in (submitted[c] + 1)..Len(TasksOf[c]) : TasksOf[c][i] = t
            \/ t \in Working}
    BY DEF NotOver, Working, TasksIn, OnTheirWay
  <2> QED
    BY <2>1, <2>2, MembersAre
<1>2. ASSUME NEW c \in Calls PROVE NotOver'[c] = Members(c, submitted'[c], Working')
  <2>1. submitted'[c] \in -1..Len(TasksOf[c])
    BY DEF RunnerTypes
  <2>2. NotOver'[c] = {t \in ToSet(TasksOf[c]) :
            \/ submitted'[c] # -1
               /\ \E i \in (submitted'[c] + 1)..Len(TasksOf[c]) : TasksOf[c][i] = t
            \/ t \in Working'}
    BY DEF NotOver, Working, TasksIn, OnTheirWay
  <2> QED
    BY <2>1, <2>2, MembersAre
<1> QED
  BY <1>1, <1>2 DEF NotOver

(* What each step does to the tasks that are at work.                       *)
LEMMA WorkingSteps ==
  ASSUME RunnerInv
  PROVE  /\ \A c \in Calls : RunTasks(c) \/ Return(c) => Working' = Working
         /\ \A c \in Calls : Submit(c) =>
              Working' = Working \union {TasksOf[c][submitted[c] + 1]}
         /\ TakeTask => Working' = Working
         /\ \A t \in Tasks : NestedRunTasks(t) \/ AppendError(t) \/ Done(t) => Working' = Working
         /\ \A t \in Tasks : TaskEnds(t) \/ TaskFails(t) =>
              t \in Working /\ Working' = Working \ {t}
<1> USE DEF RunnerInv
<1>1. ASSUME NEW c \in Calls, RunTasks(c) PROVE Working' = Working
  BY <1>1 DEF RunTasks, Working
<1>2. ASSUME NEW c \in Calls, Return(c) PROVE Working' = Working
  <2>1. c \in Nesting => c \in DOMAIN running /\ running[c] = "nested"
    BY <1>2, TasksHaveCalls DEF Return, WaitOver, NestedInv
  <2> QED
    BY <1>2, <2>1 DEF Return, Working, RunnerTypes
<1>3. ASSUME NEW c \in Calls, Submit(c)
      PROVE  Working' = Working \union {TasksOf[c][submitted[c] + 1]}
  <2> DEFINE t == TasksOf[c][submitted[c] + 1]
  <2>1. t \in Tasks /\ queue' = Append(queue, t) /\ running' = running
    BY <1>3, SubmitEnters DEF Submit
  <2>2. ToSet(queue') = ToSet(queue) \union {t}
    BY <2>1, Appended DEF RunnerTypes
  <2> QED
    BY <2>1, <2>2 DEF Working
<1>4. ASSUME TakeTask PROVE Working' = Working
  <2>1. ToSet(queue) = ToSet(queue') \union {Head(queue)}
    BY <1>4, Headless DEF TakeTask, RunnerTypes
  <2> QED
    BY <1>4, <2>1, TakeKeeps DEF Working
<1>5. ASSUME NEW t \in Tasks, NestedRunTasks(t) \/ AppendError(t) PROVE Working' = Working
  BY <1>5 DEF NestedRunTasks, AppendError, TaskGoto, Working, RunnerTypes
<1>6. ASSUME NEW t \in Tasks, Done(t) PROVE Working' = Working
  BY <1>6 DEF Done, Working, RunnerTypes
<1>7. ASSUME NEW t \in Tasks, TaskEnds(t) \/ TaskFails(t)
      PROVE  t \in Working /\ Working' = Working \ {t}
  <2>1. /\ t \in DOMAIN running /\ running[t] \in {"run", "end"} /\ queue' = queue
        /\ DOMAIN running' = DOMAIN running /\ running'[t] \in {"failed", "done"}
        /\ \A u \in DOMAIN running : u # t => running'[u] = running[u]
    BY <1>7, GotoTypes DEF TaskEnds, TaskFails, RunStates
  <2>2. t \notin ToSet(queue)
    BY <2>1, SeqSet DEF PoolInv, RunnerTypes
  <2> QED
    BY <2>1, <2>2 DEF Working
<1> QED
  BY <1>1, <1>2, <1>3, <1>4, <1>5, <1>6, <1>7

(* A call that begins has all its tasks to do.                              *)
LEMMA BeginForks ==
  ASSUME RunnerInv, RunnerTypes', NEW c \in Calls, Begin(c), Working' = Working,
         c \in Nesting => \E d \in OnTheirWay : c \in NotOver[d]
  PROVE  FJ!Fork(c)
<1>1. /\ submitted'[c] = 0 /\ errors'[c] = <<>> /\ submitted[c] = -1
      /\ \A d \in Calls : d # c => submitted'[d] = submitted[d] /\ errors'[d] = errors[d]
      /\ failed' = [failed EXCEPT ![c] = {}]
  BY DEF Begin, RunnerInv, RunnerTypes
<1>2. OnTheirWay' = OnTheirWay \union {c} /\ c \notin OnTheirWay
  BY <1>1 DEF OnTheirWay
<1>3. Members(c, 0, Working) = TasksIn[c]
  <2>1. 0 \in -1..Len(TasksOf[c]) /\ \A i \in Indices(c) : i >= 0 + 1
    BY TasksHaveCalls DEF Indices
  <2>2. \A t : t \in TasksIn[c] <=> \E i \in Indices(c) : TasksOf[c][i] = t
    BY TasksHaveCalls, SeqSet DEF TasksIn, Indices
  <2>3. \A i \in Indices(c) : TasksOf[c][i] \in Members(c, 0, Working)
    BY <2>1, MembersAt
  <2>4. \A t \in Members(c, 0, Working) : \E i \in Indices(c) : TasksOf[c][i] = t
    BY <2>1, MembersAt
  <2> QED
    BY <2>2, <2>3, <2>4
<1>4. NotOver' = [NotOver EXCEPT ![c] = TasksIn[c]]
  BY <1>1, <1>3, NotOverIs DEF RunnerInv
<1>5. Returned' = [Returned EXCEPT ![c] = <<>>]
  BY <1>1, <1>2 DEF Returned
<1> QED
  BY <1>1, <1>2, <1>4, <1>5 DEF FJ!Fork

(* The call of a task that is with the pool is on its way.                  *)
LEMMA PoolIsOnItsWay ==
  ASSUME RunnerTypes, PoolInv, NEW t \in Tasks, InPool(t)
  PROVE  CallOf(t) \in OnTheirWay
<1>1. PICK i \in Indices(CallOf(t)) : TasksOf[CallOf(t)][i] = t
  BY TasksHaveCalls
<1>2. CallOf(t) \in Calls
  BY TasksHaveCalls
<1>3. i <= submitted[CallOf(t)] /\ i \in Nat \ {0} /\ submitted[CallOf(t)] \in Int
  BY <1>1, <1>2 DEF PoolInv, Indices, RunnerTypes
<1> QED
  BY <1>2, <1>3 DEF OnTheirWay

(* Every step of the runner is one of the abstract fork and join, or none.  *)
LEMMA RunnerForksAndJoins ==
  ASSUME RunnerInv, RunnerTypes', [RunnerNext]_runnerVars
  PROVE  [FJ!ForkJoinNext]_(FJ!promised)
<1> USE DEF RunnerInv
<1>1. /\ NotOver = [c \in Calls |-> Members(c, submitted[c], Working)]
      /\ NotOver' = [c \in Calls |-> Members(c, submitted'[c], Working')]
  BY NotOverIs
<1>2. ASSUME NEW c \in Calls, RunTasks(c) PROVE FJ!Fork(c)
  BY <1>2, WorkingSteps, BeginForks, RunnerAssumption DEF RunTasks, Nesting
<1>3. ASSUME NEW c \in Calls, Submit(c) PROVE UNCHANGED FJ!promised
  <2> DEFINE s == submitted[c]
  <2>1. /\ s + 1 \in Indices(c) /\ s # -1 /\ s \in -1..Len(TasksOf[c])
        /\ submitted' = [submitted EXCEPT ![c] = s + 1]
        /\ submitted'[c] \in -1..Len(TasksOf[c])
        /\ Working' = Working \union {TasksOf[c][s + 1]}
        /\ errors' = errors /\ failed' = failed
    BY <1>3, SubmitEnters, WorkingSteps DEF Submit, RunnerTypes
  <2>2. OnTheirWay' = OnTheirWay /\ Returned' = Returned
    BY <2>1 DEF OnTheirWay, Returned, Indices, RunnerTypes
  <2>3. Members(c, s + 1, Working') = Members(c, s, Working)
    <3>1. ASSUME NEW i \in Indices(c)
          PROVE  (i >= s + 2 \/ TasksOf[c][i] \in Working')
                   <=> (i >= s + 1 \/ TasksOf[c][i] \in Working)
      BY <2>1, TasksHaveCalls DEF Indices
    <3> QED
      BY <2>1, <3>1 DEF Members
  <2>4. ASSUME NEW d \in Calls, d # c
        PROVE  Members(d, submitted'[d], Working') = Members(d, submitted[d], Working)
    <3>1. \A i \in Indices(d) : TasksOf[d][i] # TasksOf[c][s + 1]
      BY <2>1, <2>4, TasksHaveCalls
    <3> QED
      BY <2>1, <2>4, <3>1 DEF Members
  <2>5. NotOver' = NotOver
    BY <1>1, <2>1, <2>3, <2>4 DEF RunnerTypes
  <2> QED
    BY <2>1, <2>2, <2>5 DEF FJ!promised
<1>4. ASSUME NEW c \in Calls, Return(c) PROVE FJ!Join(c)
  <2>1. /\ submitted[c] = Len(TasksOf[c]) /\ wg[c] = 0 /\ Len(TasksOf[c]) \in Nat
        /\ submitted' = [submitted EXCEPT ![c] = -1]
        /\ errors' = errors /\ failed' = failed /\ Working' = Working
    BY <1>4, WorkingSteps, TasksHaveCalls DEF Return, WaitOver
  <2>2. c \in OnTheirWay /\ OnTheirWay' = OnTheirWay \ {c}
    BY <2>1 DEF OnTheirWay, RunnerTypes
  <2>3. Returned'[c] = errors[c] /\ Returned' = [Returned EXCEPT ![c] = Returned'[c]]
    BY <2>1, <2>2 DEF Returned
  <2>4. \A i \in Indices(c) : TasksOf[c][i] \notin Working
    BY <2>1, NothingOutstanding DEF Working, InPool
  <2>5. Members(c, submitted[c], Working) = {} /\ Members(c, -1, Working) = {}
    BY <2>1, <2>4 DEF Members, Indices
  <2>6. NotOver[c] = {} /\ NotOver' = NotOver
    BY <1>1, <2>1, <2>5 DEF RunnerTypes
  <2>7. ToSet(errors[c]) = failed[c] /\ Len(errors[c]) = Cardinality(failed[c])
    BY <1>4, InvReturnsErrors DEF Return
  <2>8. FJ!ToSet(errors[c]) = ToSet(errors[c])
    BY DEF ToSet, FJ!ToSet
  <2>9. FJ!Cardinality(failed[c]) = Cardinality(failed[c])
    BY DEF Cardinality, FJ!Cardinality
  <2> QED
    BY <2>1, <2>2, <2>3, <2>6, <2>7, <2>8, <2>9 DEF FJ!Join
<1>5. CASE TakeTask
  <2>1. submitted' = submitted /\ errors' = errors /\ failed' = failed /\ Working' = Working
    BY <1>5, WorkingSteps DEF TakeTask
  <2> QED
    BY <1>1, <2>1 DEF FJ!promised, OnTheirWay, Returned
<1>6. ASSUME NEW t \in Tasks, t \in Working
      PROVE  CallOf(t) \in OnTheirWay /\ t \in NotOver[CallOf(t)]
  <2>1. PICK i \in Indices(CallOf(t)) : TasksOf[CallOf(t)][i] = t
    BY TasksHaveCalls
  <2>2. CallOf(t) \in Calls /\ CallOf(t) \in OnTheirWay
    BY <1>6, PoolIsOnItsWay, TasksHaveCalls DEF Working, InPool
  <2>3. submitted[CallOf(t)] \in -1..Len(TasksOf[CallOf(t)])
    BY <2>2 DEF RunnerTypes
  <2>4. t \in Members(CallOf(t), submitted[CallOf(t)], Working)
    BY <1>6, <2>1, <2>2, <2>3, MembersAt
  <2> QED
    BY <1>1, <2>2, <2>4
<1>7. ASSUME NEW t \in Tasks, NestedRunTasks(t) PROVE t \in Calls /\ FJ!Fork(t)
  <2>1. t \in Calls /\ Begin(t) /\ t \in DOMAIN running /\ running[t] = "run"
    BY <1>7 DEF NestedRunTasks, TaskGoto, Nesting
  <2>2. t \in Working
    BY <2>1 DEF Working
  <2> QED
    BY <1>6, <1>7, <2>1, <2>2, WorkingSteps, BeginForks
<1>8. ASSUME NEW t \in Tasks, TaskEnds(t) \/ TaskFails(t)
      PROVE  CallOf(t) \in Calls /\ t \in TasksIn[CallOf(t)] /\ FJ!TaskOver(CallOf(t), t)
  <2> DEFINE c == CallOf(t)
  <2>1. /\ submitted' = submitted /\ errors' = errors
        /\ failed' \in {failed, [failed EXCEPT ![c] = @ \union {t}]}
        /\ t \in Working /\ Working' = Working \ {t}
    BY <1>8, WorkingSteps DEF TaskEnds, TaskFails
  <2>2. c \in Calls /\ c \in OnTheirWay /\ t \in NotOver[c] /\ t \in TasksIn[c]
    BY <1>6, <2>1, TasksHaveCalls DEF TasksIn
  <2>3. t \notin Nesting \intersect OnTheirWay
    BY <1>8 DEF TaskEnds, TaskFails, TaskGoto, NestedInv, OnTheirWay
  <2>4. OnTheirWay' = OnTheirWay /\ Returned' = Returned
    BY <2>1 DEF OnTheirWay, Returned
  <2>5. PICK k \in Indices(c) : TasksOf[c][k] = t
    BY TasksHaveCalls
  <2>6. k <= submitted[c]
    BY <2>1, <2>2, <2>5 DEF PoolInv, InPool, Working
  <2> HIDE DEF c
  <2>7. Members(c, submitted[c], Working') = Members(c, submitted[c], Working) \ {t}
    <3>1. submitted[c] \in Int /\ submitted[c] \in -1..Len(TasksOf[c])
      BY <2>2 DEF RunnerTypes
    <3>2. ASSUME NEW i \in Indices(c)
          PROVE  (submitted[c] # -1 /\ i >= submitted[c] + 1) \/ TasksOf[c][i] \in Working'
                   <=> /\ (submitted[c] # -1 /\ i >= submitted[c] + 1) \/ TasksOf[c][i] \in Working
                       /\ TasksOf[c][i] # t
      <4>1. TasksOf[c][i] = t => i = k
        BY <2>2, <2>5, TasksHaveCalls
      <4> QED
        BY <2>1, <2>5, <2>6, <3>1, <4>1 DEF Indices
    <3> QED
      BY <3>2 DEF Members
  <2>8. ASSUME NEW d \in Calls, d # c
        PROVE  Members(d, submitted[d], Working') = Members(d, submitted[d], Working)
    <3>1. \A i \in Indices(d) : TasksOf[d][i] # t
      BY <2>2, <2>5, <2>8, TasksHaveCalls
    <3> QED
      BY <2>1, <3>1 DEF Members
  <2>9. NotOver' = [NotOver EXCEPT ![c] = @ \ {t}]
    BY <1>1, <2>1, <2>2, <2>7, <2>8
  <2>10. FJ!TaskOver(c, t)
    BY <2>1, <2>2, <2>3, <2>4, <2>9 DEF FJ!TaskOver
  <2> QED
    BY <2>2, <2>10 DEF c
<1>9. ASSUME NEW t \in Tasks, AppendError(t) PROVE UNCHANGED FJ!promised
  <2>1. /\ submitted' = submitted /\ failed' = failed /\ Working' = Working
        /\ errors' = [errors EXCEPT ![CallOf(t)] = Append(@, t)]
        /\ t \in DOMAIN running
    BY <1>9, WorkingSteps DEF AppendError, TaskGoto
  <2>2. CallOf(t) \in OnTheirWay
    BY <2>1, PoolIsOnItsWay DEF InPool
  <2>3. OnTheirWay' = OnTheirWay /\ Returned' = Returned
    BY <2>1, <2>2 DEF OnTheirWay, Returned, RunnerTypes
  <2> QED
    BY <1>1, <2>1, <2>3 DEF FJ!promised
<1>10. ASSUME NEW t \in Tasks, Done(t) PROVE UNCHANGED FJ!promised
  <2>1. submitted' = submitted /\ errors' = errors /\ failed' = failed /\ Working' = Working
    BY <1>10, WorkingSteps DEF Done
  <2> QED
    BY <1>1, <2>1 DEF FJ!promised, OnTheirWay, Returned
<1>11. CASE UNCHANGED runnerVars
  BY <1>11 DEF runnerVars, FJ!promised, OnTheirWay, Returned, NotOver
<1> QED
  BY <1>2, <1>3, <1>4, <1>5, <1>7, <1>8, <1>9, <1>10, <1>11 DEF RunnerNext, FJ!ForkJoinNext

(* RunTasks is a fork and join, for any calls, tasks and workers and any    *)
(* nesting of calls: a call returns when all its tasks are over, and with   *)
(* the errors of those that failed (taskrunner.go:33-59).                   *)
THEOREM RunnerIsForkJoin == RunnerSpec => ForksAndJoins
<1>1. NewRunner => FJ!ForkJoinInit
  <2> SUFFICES ASSUME NewRunner PROVE FJ!ForkJoinInit
    OBVIOUS
  <2>1. ToSet(<<>>) = {} /\ DOMAIN <<>> = {}
    BY DEF ToSet
  <2> QED
    BY <2>1 DEF NewRunner, FJ!ForkJoinInit, OnTheirWay, NotOver, Returned
<1>2. RunnerInv /\ RunnerInv' /\ [RunnerNext]_runnerVars => [FJ!ForkJoinNext]_(FJ!promised)
  BY RunnerForksAndJoins DEF RunnerInv
<1> QED
  BY <1>1, <1>2, RunnerInvInit, RunnerInvStep, PTL DEF RunnerSpec, ForksAndJoins, FJ!ForkJoinSpec

-----------------------------------------------------------------------------
\* Storage: metadata.dat lists every saved partition and is never torn, as long
\* as two saves of it have not overlapped.

FileMuHolders == {t \in StoreThreads : storeOp[t] \in {"save", "repair"}}

\* Where the calls are: fileMu excludes SavePartition and Repair from each other,
\* and the metadata file is open from its creation to the deferred Remove.
CallsInv ==
  /\ \A t, u \in FileMuHolders : t = u
  /\ \A t \in StoreThreads :
       /\ storeOp[t] = "none" <=> storePc[t] = "idle"
       /\ storePc[t] \in {"rename", "list"} => storeOp[t] = "save"
       /\ storePc[t] = "found" => storeOp[t] = "repair"
       /\ fd[t] # "none" <=> storePc[t] \in {"write", "swap", "remove"}

\* What is acknowledged is on disk and in the map, and a Repair found it; what a
\* save has listed stays in the map as long as its file exists.
ListInv ==
  /\ acked \subseteq onDisk /\ acked \subseteq partitionMap
  /\ \A t \in StoreThreads :
       /\ storePc[t] = "found" => acked \subseteq subject[t]
       /\ storeOp[t] = "save" /\ storePc[t] \notin {"rename", "list"} =>
            subject[t] \intersect onDisk \subseteq partitionMap

\* A save of the metadata that is alone has the temporary file, and with its
\* list in it may rename it; nobody else has a metadata file open.
AloneInv ==
  \A t \in alone :
    /\ Saving = {t}
    /\ storePc[t] \in {"write", "swap"} => fd[t] = "metaTemp"
    /\ storePc[t] = "swap" => /\ metaTemp # Torn
                              /\ acked \subseteq metaTemp
                              /\ storeOp[t] = "save" =>
                                   subject[t] \intersect onDisk \subseteq metaTemp

\* As long as no saves overlapped, the present one is alone and the file good.
FileInv ==
  ~spoiled => Saving = alone /\ metaFile # Torn /\ acked \subseteq Listed

StoreInv == StoreTypeOK /\ CallsInv /\ ListInv /\ AloneInv /\ FileInv

-----------------------------------------------------------------------------
(* The list, the files and the calls stay well formed under each step of    *)
(* SavePartition, DeleteOldPartitions, Repair and saveMetadata, and under a *)
(* crash (storage.go:72-330).                                               *)
LEMMA StoreTypesStep ==
  StoreTypeOK /\ [StoreNext]_storeVars => StoreTypeOK'
<1> SUFFICES ASSUME StoreTypeOK, [StoreNext]_storeVars PROVE StoreTypeOK'
  OBVIOUS
<1> USE DEF StoreTypeOK, dirVars, metaVars, callVars, Listed
<1>1. ASSUME NEW t \in StoreThreads, SavePartition(t) PROVE StoreTypeOK'
  BY <1>1 DEF SavePartition, StoreCall, FileMuFree
<1>2. ASSUME NEW t \in StoreThreads, SavePartitionFails(t) \/ OpenTempFails(t) PROVE StoreTypeOK'
  BY <1>2 DEF SavePartitionFails, OpenTempFails, StoreReturn
<1>3. ASSUME NEW t \in StoreThreads, RenameFile(t) PROVE StoreTypeOK'
  BY <1>3 DEF RenameFile, Step
<1>4. ASSUME NEW t \in StoreThreads, ListFile(t) PROVE StoreTypeOK'
  BY <1>4 DEF ListFile, Step
<1>5. ASSUME NEW t \in StoreThreads, DeleteOldPartitions(t) PROVE StoreTypeOK'
  BY <1>5 DEF DeleteOldPartitions, StoreCall
<1>6. ASSUME NEW t \in StoreThreads, DeleteFile(t) PROVE StoreTypeOK'
  BY <1>6 DEF DeleteFile
<1>7. ASSUME NEW t \in StoreThreads, DeleteFails(t) PROVE StoreTypeOK'
  BY <1>7 DEF DeleteFails, StoreReturn
<1>8. ASSUME NEW t \in StoreThreads, DeleteEnds(t) PROVE StoreTypeOK'
  BY <1>8 DEF DeleteEnds, Step
<1>9. ASSUME NEW t \in StoreThreads, Repair(t) PROVE StoreTypeOK'
  BY <1>9 DEF Repair, StoreCall, FileMuFree
<1>10. ASSUME NEW t \in StoreThreads, ReplaceMap(t) PROVE StoreTypeOK'
  BY <1>10 DEF ReplaceMap, Step
<1>11. ASSUME NEW t \in StoreThreads, OpenTemp(t) PROVE StoreTypeOK'
  BY <1>11 DEF OpenTemp, Step, Observe
<1>12. ASSUME NEW t \in StoreThreads, WriteList(t) PROVE StoreTypeOK'
  BY <1>12 DEF WriteList, Step, Encoded
<1>13. ASSUME NEW t \in StoreThreads, RenameMeta(t) PROVE StoreTypeOK'
  BY <1>13 DEF RenameMeta, Step
<1>14. ASSUME NEW t \in StoreThreads, SaveMetaFails(t) PROVE StoreTypeOK'
  BY <1>14 DEF SaveMetaFails, Step
<1>15. ASSUME NEW t \in StoreThreads, RemoveTemp(t) PROVE StoreTypeOK'
  BY <1>15 DEF RemoveTemp, StoreReturn
<1>16. ASSUME CrashAndLoad PROVE StoreTypeOK'
  BY <1>16 DEF CrashAndLoad, Listed
<1>17. CASE UNCHANGED storeVars
  BY <1>17 DEF storeVars
<1> QED
  BY <1>1, <1>2, <1>3, <1>4, <1>5, <1>6, <1>7, <1>8, <1>9, <1>10, <1>11, <1>12,
     <1>13, <1>14, <1>15, <1>16, <1>17 DEF StoreNext

(* fileMu is let go on every way out of SavePartition and Repair, and a     *)
(* metadata file is open in saveMetadata only (storage.go:72-152).          *)
LEMMA CallsInvStep ==
  StoreTypeOK /\ CallsInv /\ [StoreNext]_storeVars => CallsInv'
<1> SUFFICES ASSUME StoreTypeOK, CallsInv,
                    [StoreNext]_storeVars
             PROVE  CallsInv'
  OBVIOUS
<1> USE DEF StoreTypeOK, dirVars, metaVars, callVars, CallsInv, FileMuHolders
<1>1. ASSUME NEW t \in StoreThreads, SavePartition(t) PROVE CallsInv'
  BY <1>1 DEF SavePartition, StoreCall, FileMuFree
<1>2. ASSUME NEW t \in StoreThreads, SavePartitionFails(t) \/ OpenTempFails(t) PROVE CallsInv'
  BY <1>2 DEF SavePartitionFails, OpenTempFails, StoreReturn
<1>3. ASSUME NEW t \in StoreThreads, RenameFile(t) PROVE CallsInv'
  BY <1>3 DEF RenameFile, Step
<1>4. ASSUME NEW t \in StoreThreads, ListFile(t) PROVE CallsInv'
  BY <1>4 DEF ListFile, Step
<1>5. ASSUME NEW t \in StoreThreads, DeleteOldPartitions(t) PROVE CallsInv'
  BY <1>5 DEF DeleteOldPartitions, StoreCall
<1>6. ASSUME NEW t \in StoreThreads, DeleteFile(t) PROVE CallsInv'
  BY <1>6 DEF DeleteFile
<1>7. ASSUME NEW t \in StoreThreads, DeleteFails(t) PROVE CallsInv'
  BY <1>7 DEF DeleteFails, StoreReturn
<1>8. ASSUME NEW t \in StoreThreads, DeleteEnds(t) PROVE CallsInv'
  BY <1>8 DEF DeleteEnds, Step
<1>9. ASSUME NEW t \in StoreThreads, Repair(t) PROVE CallsInv'
  BY <1>9 DEF Repair, StoreCall, FileMuFree
<1>10. ASSUME NEW t \in StoreThreads, ReplaceMap(t) PROVE CallsInv'
  BY <1>10 DEF ReplaceMap, Step
<1>11. ASSUME NEW t \in StoreThreads, OpenTemp(t) PROVE CallsInv'
  BY <1>11 DEF OpenTemp, Step, Observe
<1>12. ASSUME NEW t \in StoreThreads, WriteList(t) PROVE CallsInv'
  BY <1>12 DEF WriteList, Step, Encoded
<1>13. ASSUME NEW t \in StoreThreads, RenameMeta(t) PROVE CallsInv'
  BY <1>13 DEF RenameMeta, Step
<1>14. ASSUME NEW t \in StoreThreads, SaveMetaFails(t) PROVE CallsInv'
  BY <1>14 DEF SaveMetaFails, Step
<1>15. ASSUME NEW t \in StoreThreads, RemoveTemp(t) PROVE CallsInv'
  BY <1>15 DEF RemoveTemp, StoreReturn
<1>16. ASSUME CrashAndLoad PROVE CallsInv'
  BY <1>16 DEF CrashAndLoad, Listed
<1>17. CASE UNCHANGED storeVars
  BY <1>17 DEF storeVars
<1> QED
  BY <1>1, <1>2, <1>3, <1>4, <1>5, <1>6, <1>7, <1>8, <1>9, <1>10, <1>11, <1>12,
     <1>13, <1>14, <1>15, <1>16, <1>17 DEF StoreNext

(* Nothing acknowledged leaves the map: a Repair puts back the directory it *)
(* read under fileMu, a deletion takes the file and its acknowledgement,    *)
(* and a crash reads the list back (storage.go:189-330).                    *)
LEMMA ListInvStep ==
  StoreTypeOK /\ CallsInv /\ ListInv /\ FileInv /\ [StoreNext]_storeVars => ListInv'
<1> SUFFICES ASSUME StoreTypeOK, CallsInv, ListInv, FileInv,
                    [StoreNext]_storeVars
             PROVE  ListInv'
  OBVIOUS
<1> USE DEF StoreTypeOK, dirVars, metaVars, callVars, CallsInv, FileMuHolders, ListInv, FileInv, Listed
<1>1. ASSUME NEW t \in StoreThreads, SavePartition(t) PROVE ListInv'
  BY <1>1 DEF SavePartition, StoreCall, FileMuFree
<1>2. ASSUME NEW t \in StoreThreads, SavePartitionFails(t) \/ OpenTempFails(t) PROVE ListInv'
  BY <1>2 DEF SavePartitionFails, OpenTempFails, StoreReturn
<1>3. ASSUME NEW t \in StoreThreads, RenameFile(t) PROVE ListInv'
  BY <1>3 DEF RenameFile, Step
<1>4. ASSUME NEW t \in StoreThreads, ListFile(t) PROVE ListInv'
  BY <1>4 DEF ListFile, Step
<1>5. ASSUME NEW t \in StoreThreads, DeleteOldPartitions(t) PROVE ListInv'
  BY <1>5 DEF DeleteOldPartitions, StoreCall
<1>6. ASSUME NEW t \in StoreThreads, DeleteFile(t) PROVE ListInv'
  BY <1>6 DEF DeleteFile
<1>7. ASSUME NEW t \in StoreThreads, DeleteFails(t) PROVE ListInv'
  BY <1>7 DEF DeleteFails, StoreReturn
<1>8. ASSUME NEW t \in StoreThreads, DeleteEnds(t) PROVE ListInv'
  BY <1>8 DEF DeleteEnds, Step
<1>9. ASSUME NEW t \in StoreThreads, Repair(t) PROVE ListInv'
  BY <1>9 DEF Repair, StoreCall, FileMuFree
<1>10. ASSUME NEW t \in StoreThreads, ReplaceMap(t) PROVE ListInv'
  BY <1>10 DEF ReplaceMap, Step
<1>11. ASSUME NEW t \in StoreThreads, OpenTemp(t) PROVE ListInv'
  BY <1>11 DEF OpenTemp, Step, Observe
<1>12. ASSUME NEW t \in StoreThreads, WriteList(t) PROVE ListInv'
  BY <1>12 DEF WriteList, Step, Encoded
<1>13. ASSUME NEW t \in StoreThreads, RenameMeta(t) PROVE ListInv'
  BY <1>13 DEF RenameMeta, Step
<1>14. ASSUME NEW t \in StoreThreads, SaveMetaFails(t) PROVE ListInv'
  BY <1>14 DEF SaveMetaFails, Step
<1>15. ASSUME NEW t \in StoreThreads, RemoveTemp(t) PROVE ListInv'
  BY <1>15 DEF RemoveTemp, StoreReturn
<1>16. ASSUME CrashAndLoad PROVE ListInv'
  BY <1>16 DEF CrashAndLoad, Listed
<1>17. CASE UNCHANGED storeVars
  BY <1>17 DEF storeVars
<1> QED
  BY <1>1, <1>2, <1>3, <1>4, <1>5, <1>6, <1>7, <1>8, <1>9, <1>10, <1>11, <1>12,
     <1>13, <1>14, <1>15, <1>16, <1>17 DEF StoreNext

(* What a lone save has written to the temporary file stays there, and      *)
(* stays good, until it renames it, whatever other calls do to the map.     *)
LEMMA AloneInvStep ==
  StoreTypeOK /\ CallsInv /\ ListInv /\ AloneInv /\ [StoreNext]_storeVars => AloneInv'
<1> SUFFICES ASSUME StoreTypeOK, CallsInv, ListInv, AloneInv,
                    [StoreNext]_storeVars
             PROVE  AloneInv'
  OBVIOUS
<1> USE DEF StoreTypeOK, dirVars, metaVars, callVars, CallsInv, FileMuHolders, ListInv, AloneInv, Saving
<1>1. ASSUME NEW t \in StoreThreads, SavePartition(t) PROVE AloneInv'
  BY <1>1 DEF SavePartition, StoreCall, FileMuFree
<1>2. ASSUME NEW t \in StoreThreads, SavePartitionFails(t) \/ OpenTempFails(t) PROVE AloneInv'
  BY <1>2 DEF SavePartitionFails, OpenTempFails, StoreReturn
<1>3. ASSUME NEW t \in StoreThreads, RenameFile(t) PROVE AloneInv'
  BY <1>3 DEF RenameFile, Step
<1>4. ASSUME NEW t \in StoreThreads, ListFile(t) PROVE AloneInv'
  BY <1>4 DEF ListFile, Step
<1>5. ASSUME NEW t \in StoreThreads, DeleteOldPartitions(t) PROVE AloneInv'
  BY <1>5 DEF DeleteOldPartitions, StoreCall
<1>6. ASSUME NEW t \in StoreThreads, DeleteFile(t) PROVE AloneInv'
  BY <1>6 DEF DeleteFile
<1>7. ASSUME NEW t \in StoreThreads, DeleteFails(t) PROVE AloneInv'
  BY <1>7 DEF DeleteFails, StoreReturn
<1>8. ASSUME NEW t \in StoreThreads, DeleteEnds(t) PROVE AloneInv'
  BY <1>8 DEF DeleteEnds, Step
<1>9. ASSUME NEW t \in StoreThreads, Repair(t) PROVE AloneInv'
  BY <1>9 DEF Repair, StoreCall, FileMuFree
<1>10. ASSUME NEW t \in StoreThreads, ReplaceMap(t) PROVE AloneInv'
  BY <1>10 DEF ReplaceMap, Step
<1>11. ASSUME NEW t \in StoreThreads, OpenTemp(t) PROVE AloneInv'
  BY <1>11 DEF OpenTemp, Step, Observe
<1>12. ASSUME NEW t \in StoreThreads, WriteList(t) PROVE AloneInv'
  <2>1. UNCHANGED <<dirVars, storeOp, subject, fd, alone>> /\ Saving' = Saving
    BY <1>12 DEF WriteList, Step
  <2>2. ASSUME NEW u \in alone, u = t
        PROVE  metaTemp' = partitionMap
    BY <1>12, <2>2 DEF WriteList, Step, Encoded
  <2>3. ASSUME NEW u \in alone, u # t
        PROVE  FALSE
    BY <1>12, <2>3 DEF WriteList, Step
  <2>4. partitionMap # Torn
    BY StorageAssumption
  <2> QED
    BY <1>12, <2>1, <2>2, <2>3, <2>4 DEF WriteList, Step
<1>13. ASSUME NEW t \in StoreThreads, RenameMeta(t) PROVE AloneInv'
  BY <1>13 DEF RenameMeta, Step
<1>14. ASSUME NEW t \in StoreThreads, SaveMetaFails(t) PROVE AloneInv'
  BY <1>14 DEF SaveMetaFails, Step
<1>15. ASSUME NEW t \in StoreThreads, RemoveTemp(t) PROVE AloneInv'
  BY <1>15 DEF RemoveTemp, StoreReturn
<1>16. ASSUME CrashAndLoad PROVE AloneInv'
  BY <1>16 DEF CrashAndLoad, Listed
<1>17. CASE UNCHANGED storeVars
  BY <1>17 DEF storeVars
<1> QED
  BY <1>1, <1>2, <1>3, <1>4, <1>5, <1>6, <1>7, <1>8, <1>9, <1>10, <1>11, <1>12,
     <1>13, <1>14, <1>15, <1>16, <1>17 DEF StoreNext

(* metadata.dat is replaced by the list of a lone save, which lists every   *)
(* acknowledged file, and ends any earlier overlap (storage.go:239-271).    *)
LEMMA FileInvStep ==
  StoreTypeOK /\ CallsInv /\ ListInv /\ AloneInv /\ FileInv /\ [StoreNext]_storeVars => FileInv'
<1> SUFFICES ASSUME StoreTypeOK, CallsInv, ListInv, AloneInv, FileInv,
                    [StoreNext]_storeVars
             PROVE  FileInv'
  OBVIOUS
<1> USE DEF StoreTypeOK, dirVars, metaVars, callVars, CallsInv, FileMuHolders, ListInv, AloneInv, FileInv, Saving, Listed
<1>1. ASSUME NEW t \in StoreThreads, SavePartition(t) PROVE FileInv'
  BY <1>1 DEF SavePartition, StoreCall, FileMuFree
<1>2. ASSUME NEW t \in StoreThreads, SavePartitionFails(t) \/ OpenTempFails(t) PROVE FileInv'
  BY <1>2 DEF SavePartitionFails, OpenTempFails, StoreReturn
<1>3. ASSUME NEW t \in StoreThreads, RenameFile(t) PROVE FileInv'
  BY <1>3 DEF RenameFile, Step
<1>4. ASSUME NEW t \in StoreThreads, ListFile(t) PROVE FileInv'
  BY <1>4 DEF ListFile, Step
<1>5. ASSUME NEW t \in StoreThreads, DeleteOldPartitions(t) PROVE FileInv'
  BY <1>5 DEF DeleteOldPartitions, StoreCall
<1>6. ASSUME NEW t \in StoreThreads, DeleteFile(t) PROVE FileInv'
  BY <1>6 DEF DeleteFile
<1>7. ASSUME NEW t \in StoreThreads, DeleteFails(t) PROVE FileInv'
  BY <1>7 DEF DeleteFails, StoreReturn
<1>8. ASSUME NEW t \in StoreThreads, DeleteEnds(t) PROVE FileInv'
  BY <1>8 DEF DeleteEnds, Step
<1>9. ASSUME NEW t \in StoreThreads, Repair(t) PROVE FileInv'
  BY <1>9 DEF Repair, StoreCall, FileMuFree
<1>10. ASSUME NEW t \in StoreThreads, ReplaceMap(t) PROVE FileInv'
  BY <1>10 DEF ReplaceMap, Step
<1>11. ASSUME NEW t \in StoreThreads, OpenTemp(t) PROVE FileInv'
  <2>1. SUFFICES ASSUME ~spoiled' PROVE Saving' = alone'
    BY <1>11 DEF OpenTemp, Observe
  <2>2. Saving = {} /\ alone' = {t}
    BY <1>11, <2>1 DEF OpenTemp, Observe
  <2>3. \A u \in StoreThreads : fd'[u] # "none" <=> u = t
    BY <1>11, <2>2 DEF OpenTemp
  <2> QED
    BY <2>2, <2>3
<1>12. ASSUME NEW t \in StoreThreads, WriteList(t) PROVE FileInv'
  BY <1>12 DEF WriteList, Step, Encoded
<1>13. ASSUME NEW t \in StoreThreads, RenameMeta(t) PROVE FileInv'
  BY <1>13 DEF RenameMeta, Step
<1>14. ASSUME NEW t \in StoreThreads, SaveMetaFails(t) PROVE FileInv'
  BY <1>14 DEF SaveMetaFails, Step
<1>15. ASSUME NEW t \in StoreThreads, RemoveTemp(t) PROVE FileInv'
  BY <1>15 DEF RemoveTemp, StoreReturn
<1>16. ASSUME CrashAndLoad PROVE FileInv'
  BY <1>16 DEF CrashAndLoad, Listed
<1>17. CASE UNCHANGED storeVars
  BY <1>17 DEF storeVars
<1> QED
  BY <1>1, <1>2, <1>3, <1>4, <1>5, <1>6, <1>7, <1>8, <1>9, <1>10, <1>11, <1>12,
     <1>13, <1>14, <1>15, <1>16, <1>17 DEF StoreNext

(* The files in use stay well formed in every behaviour, for any threads    *)
(* and partition times.                                                     *)
THEOREM StorageTypes == StoreSpec => []StoreTypeOK
<1>1. NewStorage => StoreTypeOK
  BY DEF NewStorage, StoreTypeOK
<1> QED
  BY <1>1, StoreTypesStep, PTL DEF StoreSpec

(* A store opened on whole files satisfies the invariant.                   *)
LEMMA StoreInvInit == NewStorage => StoreInv
<1> SUFFICES ASSUME NewStorage PROVE StoreInv
  OBVIOUS
<1> USE DEF NewStorage
<1>1. StoreTypeOK /\ CallsInv /\ ListInv /\ AloneInv
  BY DEF StoreTypeOK, CallsInv, FileMuHolders, ListInv, AloneInv
<1>2. FileInv
  BY StorageAssumption DEF FileInv, Saving, Listed
<1> QED
  BY <1>1, <1>2 DEF StoreInv

(* Every step of the threads, and a crash, preserves it.                    *)
LEMMA StoreInvStep == StoreInv /\ [StoreNext]_storeVars => StoreInv'
BY StoreTypesStep, CallsInvStep, ListInvStep, AloneInvStep, FileInvStep DEF StoreInv

(* The conjunction of the parts holds in every behaviour.                   *)
LEMMA StoreInvariant == StoreSpec => []StoreInv
BY StoreInvInit, StoreInvStep, PTL DEF StoreSpec

(* Unless two calls have saved the metadata at once, a partition whose save *)
(* succeeded is found by the next NewStorage (storage.go:142).              *)
THEOREM SavedFilesAreListed == StoreSpec => []SavedIsListed
<1>1. StoreInv => SavedIsListed
  BY DEF StoreInv, FileInv, SavedIsListed
<1> QED
  BY <1>1, StoreInvariant, PTL

(* A save that is alone writes to the temporary file only.                  *)
LEMMA InvMetadata == StoreInv => MetadataIsWhole
<1> SUFFICES ASSUME StoreInv, ~spoiled PROVE MetadataIsWhole
  BY DEF MetadataIsWhole
<1>1. Saving = alone /\ metaFile # Torn
  BY DEF StoreInv, FileInv
<1>2. ASSUME NEW t \in StoreThreads, storePc[t] \in {"write", "swap"}
      PROVE  fd[t] = "metaTemp"
  <2>1. t \in alone
    BY <1>1, <1>2 DEF StoreInv, CallsInv, Saving
  <2> QED
    BY <1>2, <2>1 DEF StoreInv, AloneInv
<1> QED
  BY <1>1, <1>2 DEF MetadataIsWhole

(* Unless two calls have saved the metadata at once, metadata.dat is a      *)
(* whole list, and no thread writes into it (storage.go:218-271).           *)
THEOREM MetadataStaysWhole == StoreSpec => []MetadataIsWhole
BY InvMetadata, StoreInvariant, PTL

-----------------------------------------------------------------------------
\* Rate limiter: windows, and what is admitted in them.

LimitSet == [Interval : 1..Horizon, MaxCount : Nat \ {0}]
UserData == [Age : [Intervals -> Nat], Count : [Intervals -> Nat], Ok : BOOLEAN]

\* No window is older than its interval.
AgesOK(age) == \A interval \in Intervals : age[interval] <= interval

\* Each count is at most one of the interval's limits.
CountsOK(count) ==
  \A interval \in Intervals : \E j \in 1..Len(rateLimits) :
    rateLimits[j].Interval = interval /\ count[interval] <= rateLimits[j].MaxCount

\* The count a request begins with: 0 in a window that has ended.
Begun(age, count, interval) == IF age[interval] >= interval THEN 0 ELSE count[interval]

(* What the limits are.                                                     *)
LEMMA LimitsAre ==
  ASSUME rateLimits \in Configurations
  PROVE  /\ Len(rateLimits) \in Nat /\ DOMAIN rateLimits = 1..Len(rateLimits)
         /\ \A i \in 1..Len(rateLimits) :
              /\ rateLimits[i] \in LimitSet
              /\ rateLimits[i].Interval \in Intervals
         /\ \A interval \in Intervals :
              /\ interval \in 1..Horizon /\ interval \in Nat
              /\ \E i \in 1..Len(rateLimits) : rateLimits[i].Interval = interval
<1>1. rateLimits \in Seq(LimitSet) /\ Horizon \in Nat
  BY LimiterAssumption DEF LimitSet
<1>2. Len(rateLimits) \in Nat /\ DOMAIN rateLimits = 1..Len(rateLimits)
  BY <1>1, LenProperties
<1>3. \A i \in 1..Len(rateLimits) : rateLimits[i] \in LimitSet
  BY <1>1, ElementOfSeq
<1>4. Intervals = {rateLimits[i].Interval : i \in 1..Len(rateLimits)}
  BY <1>2 DEF Intervals
<1>5. \A i \in 1..Len(rateLimits) : rateLimits[i].Interval \in 1..Horizon
  BY <1>3 DEF LimitSet
<1> QED
  BY <1>1, <1>2, <1>3, <1>4, <1>5

(* One turn of the loop over the limits (limiter.go:75-91).                 *)
LEMMA ChargeTurn ==
  ASSUME NEW user \in UserData, NEW limit \in LimitSet, limit.Interval \in Intervals
  PROVE  LET i == limit.Interval
             n == Begun(user.Age, user.Count, i)
             new == Charge(user, limit)
         IN /\ new \in UserData
            /\ ~user.Ok => new = user
            /\ user.Ok =>
                 /\ new.Ok <=> n < limit.MaxCount
                 /\ new.Age[i] = IF user.Age[i] >= i THEN 0 ELSE user.Age[i]
                 /\ new.Count[i] = IF n < limit.MaxCount THEN n + 1 ELSE n
                 /\ \A j \in Intervals \ {i} :
                      new.Age[j] = user.Age[j] /\ new.Count[j] = user.Count[j]
<1> DEFINE i == limit.Interval
           n == Begun(user.Age, user.Count, i)
           age == IF user.Age[i] >= i THEN [user.Age EXCEPT ![i] = 0] ELSE user.Age
           count == IF user.Age[i] >= i THEN [user.Count EXCEPT ![i] = 0] ELSE user.Count
           counted == [count EXCEPT ![i] = n + 1]
<1>1. /\ i \in Nat /\ limit.MaxCount \in Nat
      /\ user = [Age |-> user.Age, Count |-> user.Count, Ok |-> user.Ok]
      /\ user.Age \in [Intervals -> Nat] /\ user.Count \in [Intervals -> Nat]
      /\ user.Ok \in BOOLEAN
  BY DEF LimitSet, UserData
<1>2. /\ age \in [Intervals -> Nat] /\ count \in [Intervals -> Nat]
      /\ age[i] = IF user.Age[i] >= i THEN 0 ELSE user.Age[i]
      /\ count[i] = n /\ n \in Nat
      /\ \A j \in Intervals \ {i} : age[j] = user.Age[j] /\ count[j] = user.Count[j]
  BY <1>1 DEF Begun
<1>3. /\ counted \in [Intervals -> Nat] /\ counted[i] = n + 1
      /\ \A j \in Intervals \ {i} : counted[j] = user.Count[j]
  <2> HIDE DEF count, n
  <2> QED
    BY <1>2
<1>4. ASSUME user.Ok
      PROVE  Charge(user, limit) = IF n >= limit.MaxCount
                                   THEN [Age |-> age, Count |-> count, Ok |-> FALSE]
                                   ELSE [Age |-> age, Count |-> counted, Ok |-> TRUE]
  <2> DEFINE opened == IF user.Age[i] >= i
                       THEN [user EXCEPT !.Age[i] = 0, !.Count[i] = 0] ELSE user
  <2>1. opened = [Age |-> age, Count |-> count, Ok |-> TRUE]
    BY <1>1, <1>4
  <2>2. Charge(user, limit) = IF opened.Count[i] >= limit.MaxCount
                              THEN [opened EXCEPT !.Ok = FALSE]
                              ELSE [opened EXCEPT !.Count[i] = @ + 1]
    BY <1>4 DEF Charge
  <2>3. CASE n >= limit.MaxCount
    <3> HIDE DEF opened, age, count, n
    <3> QED
      BY <1>2, <2>1, <2>2, <2>3
  <2>4. CASE ~(n >= limit.MaxCount)
    <3>1. ~(opened.Count[i] >= limit.MaxCount) /\ opened.Count = count
      <4> HIDE DEF opened, age, count, n
      <4> QED
        BY <1>2, <2>1, <2>4
    <3>2. Charge(user, limit) = [opened EXCEPT !.Count = [opened.Count EXCEPT ![i] = opened.Count[i] + 1]]
      <4> HIDE DEF opened
      <4> QED
        BY <2>1, <2>2, <3>1
    <3> HIDE DEF opened, age, count, n
    <3> QED
      BY <1>2, <2>1, <2>4, <3>2
  <2> QED
    BY <2>3, <2>4
<1>5. ~user.Ok => Charge(user, limit) = user
  BY DEF Charge
<1>6. CASE ~user.Ok
  BY <1>5, <1>6
<1>7. CASE user.Ok /\ n >= limit.MaxCount
  <2> HIDE DEF age, count, counted, n
  <2>1. Charge(user, limit) = [Age |-> age, Count |-> count, Ok |-> FALSE]
    BY <1>4, <1>7
  <2> QED
    BY <1>1, <1>2, <1>7, <2>1 DEF UserData, n
<1>8. CASE user.Ok /\ ~(n >= limit.MaxCount)
  <2> HIDE DEF age, count, counted, n
  <2>1. Charge(user, limit) = [Age |-> age, Count |-> counted, Ok |-> TRUE]
    BY <1>4, <1>8
  <2> QED
    BY <1>1, <1>2, <1>3, <1>8, <2>1 DEF UserData, n
<1> QED
  BY <1>1, <1>6, <1>7, <1>8

(* The loop has a value at each of its turns.                               *)
LEMMA LimitTurns ==
  ASSUME rateLimits \in Configurations,
         NEW age \in [Intervals -> Nat], NEW count \in [Intervals -> Nat]
  PROVE  \E f \in [0..Len(rateLimits) -> UserData] :
           /\ f[0] = [Age |-> age, Count |-> count, Ok |-> TRUE]
           /\ \A n \in 1..Len(rateLimits) : f[n] = Charge(f[n - 1], rateLimits[n])
           /\ Charged(age, count) = f[Len(rateLimits)]
<1> DEFINE N == Len(rateLimits)
           c == [Age |-> age, Count |-> count, Ok |-> TRUE]
           turn == [n \in 1..N |-> [x \in UserData |-> Charge(x, rateLimits[n])]]
           Loop(f) == f = [n \in 0..N |-> IF n = 0 THEN c ELSE Charge(f[n - 1], rateLimits[n])]
<1>0. N \in Nat /\ N \in Int /\ 0 \in Int
  BY LimitsAre
<1>1. \A n \in 1..N : rateLimits[n] \in LimitSet /\ rateLimits[n].Interval \in Intervals
  BY LimitsAre
<1>2. c \in UserData
  BY DEF UserData
<1>3. turn \in Turns(N, UserData)
  <2>1. \A n \in 1..N, x \in UserData : Charge(x, rateLimits[n]) \in UserData
    BY <1>1, ChargeTurn
  <2> QED
    BY <2>1 DEF Turns
<1>4. \A n \in 1..N, x \in UserData : turn[n][x] = Charge(x, rateLimits[n])
  OBVIOUS
<1> HIDE DEF N, c, turn
<1>5. PICK g \in [0..N -> UserData] : IsLoop(g, N, c, turn)
  BY <1>0, <1>2, <1>3, LoopHasValues
<1>6. g[0] = c /\ \A n \in 1..N : g[n] = Charge(g[n - 1], rateLimits[n])
  BY <1>0, <1>4, <1>5 DEF IsLoop
<1>7. Loop(g)
  BY <1>0, <1>5, <1>6
<1> DEFINE f == CHOOSE f : Loop(f)
<1>8. Loop(f)
  <2> HIDE DEF Loop
  <2> QED
    BY <1>7
<1>9. Charged(age, count) = f[N]
  BY DEF Charged, N, c
<1> HIDE DEF f
<1>10. f[0] = c /\ \A n \in 1..N : f[n] = Charge(f[n - 1], rateLimits[n])
  BY <1>0, <1>8
<1>11. f \in [0..N -> UserData]
  <2> DEFINE T == {n \in 0..N : f[n] \in UserData}
  <2>1. 0 \in T
    BY <1>0, <1>2, <1>10
  <2>2. \A n \in (0 + 1)..N : n - 1 \in T => n \in T
    BY <1>0, <1>1, <1>10, ChargeTurn
  <2> HIDE DEF T
  <2>3. \A n \in 0..N : n \in T
    BY ONLY <1>0, <2>1, <2>2, EachTurn
  <2> QED
    BY <1>0, <1>8, <2>3 DEF T
<1> QED
  BY <1>9, <1>10, <1>11 DEF N, c

(* What AllowRequest leaves of a user: a window goes on or begins anew with *)
(* the request, counts do not fall in a window, and a request that is       *)
(* admitted has been counted by every limit, within its maximum.            *)
LEMMA ChargedUser ==
  ASSUME rateLimits \in Configurations,
         NEW age \in [Intervals -> Nat], AgesOK(age), NEW count \in [Intervals -> Nat]
  PROVE  LET user == Charged(age, count) IN
         /\ user \in UserData
         /\ \A i \in Intervals :
              \/ user.Age[i] = age[i] /\ user.Count[i] >= count[i] /\ age[i] < i
              \/ user.Age[i] = age[i] /\ user.Count[i] = count[i] /\ age[i] = i
              \/ user.Age[i] = 0 /\ age[i] = i
         /\ CountsOK(count) => CountsOK(user.Count)
         /\ user.Ok => \A m \in 1..Len(rateLimits) :
              LET i == rateLimits[m].Interval IN
              /\ user.Age[i] < i
              /\ Begun(age, count, i) + 1 <= user.Count[i]
              /\ Begun(age, count, i) + 1 <= rateLimits[m].MaxCount
<1> DEFINE N == Len(rateLimits)
           Moved(user, i) ==
             \/ user.Age[i] = age[i] /\ user.Count[i] >= count[i] /\ age[i] < i
             \/ user.Age[i] = age[i] /\ user.Count[i] = count[i] /\ age[i] = i
             \/ user.Age[i] = 0 /\ age[i] = i
           Passed(user, m) ==
             LET i == rateLimits[m].Interval IN
             /\ user.Age[i] < i
             /\ Begun(age, count, i) + 1 <= user.Count[i]
             /\ Begun(age, count, i) + 1 <= rateLimits[m].MaxCount
           Good(user, n) ==
             /\ \A i \in Intervals : Moved(user, i)
             /\ CountsOK(count) => CountsOK(user.Count)
             /\ user.Ok => \A m \in 1..n : Passed(user, m)
<1>0. N \in Nat /\ 0 \in Int /\ N \in Int
  BY LimitsAre
<1>1. /\ \A n \in 1..N : /\ rateLimits[n] \in LimitSet /\ rateLimits[n].Interval \in Intervals
                         /\ rateLimits[n].MaxCount \in Nat
      /\ \A i \in Intervals : i \in Nat /\ i > 0 /\ age[i] \in Nat /\ age[i] <= i /\ count[i] \in Nat
  BY LimitsAre DEF AgesOK, LimitSet
<1>2. PICK f \in [0..N -> UserData] :
             /\ f[0] = [Age |-> age, Count |-> count, Ok |-> TRUE]
             /\ \A n \in 1..N : f[n] = Charge(f[n - 1], rateLimits[n])
             /\ Charged(age, count) = f[N]
  BY LimitTurns
<1>3. Good(f[0], 0)
  BY <1>1, <1>2
<1>4. ASSUME NEW n \in 1..N, Good(f[n - 1], n - 1) PROVE Good(f[n], n)
  <2> DEFINE user == f[n - 1]
             new == f[n]
             limit == rateLimits[n]
             i == limit.Interval
             b == Begun(user.Age, user.Count, i)
  <2>1. /\ user \in UserData /\ new = Charge(user, limit) /\ limit \in LimitSet /\ i \in Intervals
        /\ i \in Nat /\ i > 0 /\ age[i] \in Nat /\ age[i] <= i /\ count[i] \in Nat
        /\ limit.MaxCount \in Nat /\ new \in UserData
    <3>1. n - 1 \in 0..N /\ n \in 0..N
      BY <1>0
    <3>2. user \in UserData /\ new \in UserData /\ new = Charge(user, limit)
      BY <1>2, <3>1
    <3>3. limit \in LimitSet /\ i \in Intervals /\ limit.MaxCount \in Nat
      BY <1>1
    <3> QED
      BY <1>1, <3>2, <3>3
  <2> HIDE DEF user, new, limit, Good, Moved, Passed
  <2>2. /\ ~user.Ok => new = user
        /\ user.Ok =>
             /\ new.Ok <=> b < limit.MaxCount
             /\ new.Age[i] = IF user.Age[i] >= i THEN 0 ELSE user.Age[i]
             /\ new.Count[i] = IF b < limit.MaxCount THEN b + 1 ELSE b
             /\ \A j \in Intervals \ {i} :
                  new.Age[j] = user.Age[j] /\ new.Count[j] = user.Count[j]
    BY <2>1, ChargeTurn
  <2>3. /\ \A j \in Intervals : Moved(user, j)
        /\ CountsOK(count) => CountsOK(user.Count)
        /\ user.Ok => \A m \in 1..(n - 1) : Passed(user, m)
    BY <1>4 DEF Good, user
  <2>4. CASE ~user.Ok
    BY <2>2, <2>3, <2>4 DEF Good, new
  <2>5. CASE user.Ok
    <3> HIDE DEF i
    <3>1. /\ user.Age[i] \in Nat /\ user.Count[i] \in Nat /\ b \in Nat
          /\ new.Age[i] \in Nat /\ new.Count[i] \in Nat
      BY <2>1 DEF UserData, Begun
    <3>2. Begun(age, count, i) <= b
      BY <2>1, <2>3, <3>1 DEF Moved, Begun
    <3>3. Moved(new, i) /\ new.Age[i] < i
      <4>1. /\ Moved(user, i)
            /\ new.Age[i] = IF user.Age[i] >= i THEN 0 ELSE user.Age[i]
            /\ new.Count[i] = IF b < limit.MaxCount THEN b + 1 ELSE b
        BY <2>1, <2>2, <2>3, <2>5
      <4>2. CASE user.Age[i] >= i
        BY <2>1, <3>1, <4>1, <4>2 DEF Moved
      <4>3. CASE user.Age[i] < i
        <5>1. b = user.Count[i] /\ new.Count[i] >= user.Count[i] /\ new.Age[i] = user.Age[i]
          BY <2>1, <3>1, <4>1, <4>3 DEF Begun
        <5> QED
          BY <2>1, <3>1, <4>1, <4>3, <5>1 DEF Moved
      <4> QED
        BY <2>1, <3>1, <4>2, <4>3
    <3>4. ASSUME NEW j \in Intervals PROVE Moved(new, j)
      BY <2>2, <2>3, <2>5, <3>3 DEF Moved
    <3>5. CountsOK(user.Count) => CountsOK(new.Count)
      <4>1. SUFFICES ASSUME CountsOK(user.Count), NEW j \in Intervals
                     PROVE  \E k \in 1..N : rateLimits[k].Interval = j
                                            /\ new.Count[j] <= rateLimits[k].MaxCount
        BY DEF CountsOK
      <4>2. PICK k \in 1..N : rateLimits[k].Interval = j /\ user.Count[j] <= rateLimits[k].MaxCount
        BY <4>1 DEF CountsOK
      <4>3. CASE j # i
        BY <2>2, <2>5, <4>2, <4>3
      <4>4. CASE j = i /\ b < limit.MaxCount
        <5>1. new.Count[i] <= limit.MaxCount
          BY <2>1, <2>2, <2>5, <3>1, <4>4
        <5> QED
          BY <4>4, <5>1 DEF i, limit
      <4>5. CASE j = i /\ ~(b < limit.MaxCount)
        <5>1. new.Count[i] <= user.Count[i]
          BY <2>1, <2>2, <2>5, <3>1, <4>5 DEF Begun
        <5>2. rateLimits[k].MaxCount \in Nat
          BY <1>1
        <5> QED
          BY <3>1, <4>2, <4>5, <5>1, <5>2
      <4> QED
        BY <4>3, <4>4, <4>5
    <3>6. ASSUME new.Ok, NEW m \in 1..n PROVE Passed(new, m)
      <4>1. b < limit.MaxCount
        BY <2>2, <2>5, <3>6
      <4>2. CASE m = n
        <5>1. rateLimits[m].Interval = i /\ rateLimits[m] = limit
          BY <4>2 DEF i, limit
        <5> QED
          BY <2>1, <2>2, <2>5, <3>1, <3>2, <3>3, <4>1, <5>1 DEF Passed, Begun
      <4>3. CASE m < n
        <5>1. m \in 1..(n - 1) /\ m \in 1..N
          BY <1>0, <4>3
        <5>2. Passed(user, m) /\ rateLimits[m].Interval \in Intervals
          BY <1>1, <2>3, <2>5, <5>1
        <5>3. CASE rateLimits[m].Interval = i
          <6> DEFINE begun == Begun(age, count, i)
          <6>1. begun \in Nat
            BY <2>1 DEF Begun
          <6>2. /\ user.Age[i] < i /\ begun + 1 <= user.Count[i]
                /\ begun + 1 <= rateLimits[m].MaxCount
            BY <5>2, <5>3 DEF Passed
          <6>3. new.Count[i] >= user.Count[i]
            BY <2>1, <2>2, <2>5, <3>1, <4>1, <6>2 DEF Begun
          <6>4. begun + 1 <= new.Count[i]
            <7> HIDE DEF begun
            <7> QED
              BY <3>1, <6>1, <6>2, <6>3
          <6> QED
            BY <3>3, <5>3, <6>2, <6>4 DEF Passed
        <5>4. CASE rateLimits[m].Interval # i
          BY <2>2, <2>5, <5>2, <5>4 DEF Passed
        <5> QED
          BY <5>3, <5>4
      <4> QED
        BY <1>0, <4>2, <4>3
    <3> QED
      BY <2>3, <3>4, <3>5, <3>6 DEF Good, new
  <2> QED
    BY <2>4, <2>5 DEF new
<1>5. Good(f[N], N)
  <2> DEFINE T == {n \in 0..N : Good(f[n], n)}
  <2> HIDE DEF Good
  <2>1. 0 \in T
    BY <1>0, <1>3
  <2>2. \A n \in (0 + 1)..N : n - 1 \in T => n \in T
    BY <1>0, <1>4
  <2> HIDE DEF T
  <2>3. \A n \in 0..N : n \in T
    BY <1>0, <2>1, <2>2, EachTurn
  <2> QED
    BY <1>0, <2>3 DEF T
<1>6. f[N] \in UserData
  BY <1>0
<1> QED
  BY <1>2, <1>5, <1>6

(* The totals of a user's admissions: of the last 0, 1, 2, ... ticks.       *)
LEMMA TotalsAre ==
  ASSUME NEW counts \in [0..(Horizon - 1) -> Nat]
  PROVE  /\ Totals(counts) \in [0..Horizon -> Nat]
         /\ Totals(counts)[0] = 0
         /\ \A n \in 1..Horizon : Totals(counts)[n] = Totals(counts)[n - 1] + counts[n - 1]
<1> DEFINE turn == [n \in 1..Horizon |-> [x \in Nat |-> x + counts[n - 1]]]
           Loop(f) == f = [n \in 0..Horizon |-> IF n = 0 THEN 0 ELSE f[n - 1] + counts[n - 1]]
<1>0. Horizon \in Nat /\ Horizon \in Int /\ 0 \in Int /\ 1 \in Int
  BY LimiterAssumption
<1>1. \A n \in 1..Horizon : counts[n - 1] \in Nat
  BY <1>0
<1>2. turn \in Turns(Horizon, Nat)
  BY <1>0, <1>1 DEF Turns
<1>3. \A n \in 1..Horizon, x \in Nat : turn[n][x] = x + counts[n - 1]
  OBVIOUS
<1> HIDE DEF turn
<1>4. PICK g \in [0..Horizon -> Nat] : IsLoop(g, Horizon, 0, turn)
  BY <1>0, <1>2, LoopHasValues
<1>5. g[0] = 0 /\ \A n \in 1..Horizon : g[n] = g[n - 1] + counts[n - 1]
  <2>1. \A n \in 1..Horizon : n - 1 \in 0..Horizon /\ g[n - 1] \in Nat
    BY <1>0, <1>4
  <2> QED
    BY <1>3, <1>4, <2>1 DEF IsLoop
<1>6. Loop(g)
  BY <1>0, <1>4, <1>5
<1> DEFINE T == CHOOSE f : Loop(f)
<1>7. Loop(T)
  <2> HIDE DEF Loop
  <2> QED
    BY <1>6
<1>8. Totals(counts) = T
  BY DEF Totals
<1> HIDE DEF T
<1>9. T[0] = 0 /\ \A n \in 1..Horizon : T[n] = T[n - 1] + counts[n - 1]
  BY <1>0, <1>7
<1>10. \A n \in 0..Horizon : T[n] \in Nat
  <2> DEFINE S == {n \in 0..Horizon : T[n] \in Nat}
  <2>1. 0 \in S
    BY <1>0, <1>9
  <2>2. \A n \in (0 + 1)..Horizon : n - 1 \in S => n \in S
    BY <1>0, <1>1, <1>9
  <2> HIDE DEF S
  <2>3. \A n \in 0..Horizon : n \in S
    BY <1>0, <2>1, <2>2, EachTurn
  <2> QED
    BY <2>3 DEF S
<1> QED
  BY <1>0, <1>7, <1>8, <1>9, <1>10

(* More ticks, no fewer admissions.                                         *)
LEMMA TotalsGrow ==
  ASSUME NEW counts \in [0..(Horizon - 1) -> Nat],
         NEW j \in 0..Horizon, NEW k \in j..Horizon
  PROVE  Totals(counts)[j] <= Totals(counts)[k]
<1> DEFINE T == Totals(counts)
           S == {n \in j..Horizon : T[j] <= T[n]}
<1>0. Horizon \in Nat /\ j \in Int /\ Horizon \in Int
  BY LimiterAssumption
<1>1. /\ T \in [0..Horizon -> Nat]
      /\ \A n \in 1..Horizon : T[n] = T[n - 1] + counts[n - 1] /\ counts[n - 1] \in Nat
  <2>1. \A n \in 1..Horizon : counts[n - 1] \in Nat
    BY <1>0
  <2> QED
    BY <2>1, TotalsAre
<1> HIDE DEF T
<1>2. j \in S
  BY <1>0, <1>1
<1>3. \A n \in (j + 1)..Horizon : n - 1 \in S => n \in S
  <2> TAKE n \in (j + 1)..Horizon
  <2>1. n \in 1..Horizon /\ n - 1 \in 0..Horizon /\ n \in j..Horizon
    BY <1>0
  <2> QED
    BY <1>0, <1>1, <2>1
<1> HIDE DEF S
<1>4. \A n \in j..Horizon : n \in S
  BY <1>0, <1>2, <1>3, EachTurn
<1> QED
  BY <1>4 DEF S, T

(* An admission now counts in every interval that reaches back from now.    *)
LEMMA TotalsAdmit ==
  ASSUME NEW counts \in [0..(Horizon - 1) -> Nat]
  PROVE  LET new == [counts EXCEPT ![0] = @ + 1] IN
         /\ new \in [0..(Horizon - 1) -> Nat]
         /\ \A k \in 1..Horizon : Totals(new)[k] = Totals(counts)[k] + 1
<1> DEFINE new == [counts EXCEPT ![0] = @ + 1]
           T == Totals(counts)
           U == Totals(new)
           S == {n \in 1..Horizon : U[n] = T[n] + 1}
<1>0. Horizon \in Nat /\ Horizon \in Int /\ 0 \in Int /\ 1 \in Int
  BY LimiterAssumption
<1>1. new \in [0..(Horizon - 1) -> Nat]
  <2>1. \A n \in 0..(Horizon - 1) : counts[n] \in Nat /\ counts[n] + 1 \in Nat
    BY <1>0
  <2>2. new = [n \in 0..(Horizon - 1) |-> IF n = 0 THEN counts[0] + 1 ELSE counts[n]]
    OBVIOUS
  <2> QED
    BY <2>1, <2>2
<1>2. \A n \in 1..Horizon : new[n - 1] = IF n = 1 THEN counts[n - 1] + 1 ELSE counts[n - 1]
  BY <1>0
<1>3. /\ T \in [0..Horizon -> Nat] /\ T[0] = 0
      /\ \A n \in 1..Horizon : T[n] = T[n - 1] + counts[n - 1] /\ counts[n - 1] \in Nat
  <2>1. \A n \in 1..Horizon : counts[n - 1] \in Nat
    BY <1>0
  <2> QED
    BY <2>1, TotalsAre
<1> HIDE DEF new
<1>4. /\ U[0] = 0
      /\ \A n \in 1..Horizon : U[n] = U[n - 1] + new[n - 1]
  BY <1>1, TotalsAre
<1> HIDE DEF T, U
<1>5. CASE Horizon >= 1
  <2>1. 1 \in S
    <3>1. 1 \in 1..Horizon /\ 1 - 1 = 0
      BY <1>0, <1>5
    <3>2. U[1] = U[0] + (counts[0] + 1) /\ T[1] = T[0] + counts[0] /\ counts[0] \in Nat
      BY <1>2, <1>3, <1>4, <3>1
    <3> QED
      BY <1>3, <1>4, <3>1, <3>2
  <2>2. \A n \in (1 + 1)..Horizon : n - 1 \in S => n \in S
    <3> TAKE n \in (1 + 1)..Horizon
    <3>1. n \in 1..Horizon /\ n - 1 \in 1..Horizon /\ n - 1 \in 0..Horizon /\ n # 1
      BY <1>0
    <3>2. U[n] = U[n - 1] + counts[n - 1] /\ T[n] = T[n - 1] + counts[n - 1]
      BY <1>2, <1>3, <1>4, <3>1
    <3>3. T[n - 1] \in Nat /\ counts[n - 1] \in Nat
      BY <1>3, <3>1
    <3> QED
      BY <3>1, <3>2, <3>3
  <2> HIDE DEF S
  <2>3. \A n \in 1..Horizon : n \in S
    BY <1>0, <2>1, <2>2, EachTurn
  <2> QED
    BY <1>1, <2>3 DEF S, T, U, new
<1>6. CASE ~(Horizon >= 1)
  BY <1>0, <1>1, <1>6 DEF new
<1> QED
  BY <1>5, <1>6

(* A tick later the last k + 1 ticks have seen what the last k had.         *)
LEMMA TotalsTick ==
  ASSUME NEW counts \in [0..(Horizon - 1) -> Nat]
  PROVE  LET new == [age \in 0..(Horizon - 1) |-> IF age = 0 THEN 0 ELSE counts[age - 1]] IN
         /\ new \in [0..(Horizon - 1) -> Nat]
         /\ \A k \in 0..(Horizon - 1) : Totals(new)[k + 1] = Totals(counts)[k]
<1> DEFINE new == [age \in 0..(Horizon - 1) |-> IF age = 0 THEN 0 ELSE counts[age - 1]]
           T == Totals(counts)
           U == Totals(new)
           S == {k \in 0..(Horizon - 1) : U[k + 1] = T[k]}
<1>0. Horizon \in Nat /\ Horizon - 1 \in Int /\ 0 \in Int
  BY LimiterAssumption
<1>1. new \in [0..(Horizon - 1) -> Nat]
  BY <1>0
<1>2. \A k \in 0..(Horizon - 1) : new[k] = IF k = 0 THEN 0 ELSE counts[k - 1]
  OBVIOUS
<1>3. /\ T \in [0..Horizon -> Nat] /\ T[0] = 0
      /\ \A n \in 1..Horizon : T[n] = T[n - 1] + counts[n - 1]
  BY TotalsAre
<1> HIDE DEF new
<1>4. U[0] = 0 /\ \A n \in 1..Horizon : U[n] = U[n - 1] + new[n - 1]
  BY <1>1, TotalsAre
<1> HIDE DEF T, U
<1>5. CASE Horizon >= 1
  <2>1. 0 \in S
    BY <1>0, <1>2, <1>3, <1>4, <1>5
  <2>2. \A k \in (0 + 1)..(Horizon - 1) : k - 1 \in S => k \in S
    <3> TAKE k \in (0 + 1)..(Horizon - 1)
    <3>1. /\ k \in 1..Horizon /\ k + 1 \in 1..Horizon /\ k \in 0..(Horizon - 1) /\ k # 0
          /\ (k + 1) - 1 = k /\ (k - 1) + 1 = k
      BY <1>0
    <3>2. U[k + 1] = U[k] + counts[k - 1] /\ T[k] = T[k - 1] + counts[k - 1]
      BY <1>2, <1>3, <1>4, <3>1
    <3> QED
      BY <3>1, <3>2
  <2> HIDE DEF S
  <2>3. \A k \in 0..(Horizon - 1) : k \in S
    BY <1>0, <2>1, <2>2, EachTurn
  <2> QED
    BY <1>1, <2>3 DEF S, T, U, new
<1>6. CASE ~(Horizon >= 1)
  BY <1>0, <1>1, <1>6 DEF new
<1> QED
  BY <1>5, <1>6

\* What a window knows of an interval, of age a and with count c, when T are
\* the totals of the admissions: it has counted what was admitted since it
\* began, and what was admitted before it began is within the maximum.
Accounts(a, c, T, interval, max) ==
  IF a < interval
  THEN T[a + 1] <= c /\ T[a + 1] <= max /\ T[interval] - T[a + 1] <= max
  ELSE T[1] = 0 /\ T[interval] <= max

AccountsOf(age, count, counts) ==
  \A m \in 1..Len(rateLimits) :
    LET i == rateLimits[m].Interval IN
    Accounts(age[i], count[i], Totals(counts), i, rateLimits[m].MaxCount)

LimiterInv ==
  /\ rateLimits \in Configurations
  /\ windowAge \in [Users -> [Intervals -> Nat]]
  /\ requestCounts \in [Users -> [Intervals -> Nat]]
  /\ admitted \in [Users -> [0..(Horizon - 1) -> Nat]]
  /\ \A u \in Users :
       /\ AgesOK(windowAge[u])
       /\ CountsOK(requestCounts[u])
       /\ AccountsOf(windowAge[u], requestCounts[u], admitted[u])

(* A new user has asked for nothing.                                        *)
LEMMA LimiterInit == NewRateLimiter => LimiterInv
<1> SUFFICES ASSUME NewRateLimiter PROVE LimiterInv
  OBVIOUS
<1>1. rateLimits \in Configurations /\ Horizon \in Nat
  BY LimiterAssumption DEF NewRateLimiter
<1>2. /\ \A i \in Intervals : i \in Nat /\ i \in 1..Horizon
      /\ \A m \in 1..Len(rateLimits) :
           /\ rateLimits[m].Interval \in Intervals
           /\ rateLimits[m].MaxCount \in Nat
      /\ \A i \in Intervals : \E m \in 1..Len(rateLimits) : rateLimits[m].Interval = i
  BY <1>1, LimitsAre DEF LimitSet
<1>3. /\ windowAge \in [Users -> [Intervals -> Nat]]
      /\ requestCounts \in [Users -> [Intervals -> Nat]]
      /\ admitted \in [Users -> [0..(Horizon - 1) -> Nat]]
  BY <1>2 DEF NewRateLimiter, NewUser
<1>4. ASSUME NEW u \in Users
      PROVE  /\ AgesOK(windowAge[u]) /\ CountsOK(requestCounts[u])
             /\ AccountsOf(windowAge[u], requestCounts[u], admitted[u])
  <2> DEFINE T == Totals(admitted[u])
  <2>1. \A i \in Intervals : windowAge[u][i] = i /\ requestCounts[u][i] = 0
    BY DEF NewRateLimiter, NewUser
  <2>2. \A n \in 0..(Horizon - 1) : admitted[u][n] = 0
    BY DEF NewRateLimiter
  <2>3. /\ T[0] = 0
        /\ \A n \in 1..Horizon : T[n] = T[n - 1] + admitted[u][n - 1]
    BY <1>3, TotalsAre
  <2> HIDE DEF T
  <2>4. \A n \in 0..Horizon : T[n] = 0
    <3> DEFINE S == {n \in 0..Horizon : T[n] = 0}
    <3>1. 0 \in S /\ 0 \in Int /\ Horizon \in Int
      BY <1>1, <2>3
    <3>2. \A n \in (0 + 1)..Horizon : n - 1 \in S => n \in S
      BY <1>1, <2>2, <2>3
    <3> HIDE DEF S
    <3>3. \A n \in 0..Horizon : n \in S
      BY <3>1, <3>2, EachTurn
    <3> QED
      BY <3>3 DEF S
  <2>5. AgesOK(windowAge[u]) /\ CountsOK(requestCounts[u])
    BY <1>2, <2>1 DEF AgesOK, CountsOK
  <2>6. ASSUME NEW m \in 1..Len(rateLimits)
        PROVE  LET i == rateLimits[m].Interval IN
               Accounts(windowAge[u][i], requestCounts[u][i], T, i, rateLimits[m].MaxCount)
    <3>1. /\ rateLimits[m].Interval \in 0..Horizon /\ 1 \in 0..Horizon
          /\ rateLimits[m].Interval \in Intervals /\ rateLimits[m].MaxCount >= 0
          /\ rateLimits[m].Interval \in Nat
      BY <1>1, <1>2
    <3> QED
      BY <2>1, <2>4, <3>1 DEF Accounts
  <2> QED
    BY <2>5, <2>6 DEF AccountsOf, T
<1> QED
  BY <1>1, <1>3, <1>4 DEF LimiterInv

(* What every proof about a step needs of the limits and of a user.         *)
LEMMA UserIs ==
  ASSUME LimiterInv, NEW u \in Users
  PROVE  /\ rateLimits \in Configurations /\ Horizon \in Nat
         /\ windowAge[u] \in [Intervals -> Nat] /\ AgesOK(windowAge[u])
         /\ requestCounts[u] \in [Intervals -> Nat] /\ CountsOK(requestCounts[u])
         /\ admitted[u] \in [0..(Horizon - 1) -> Nat]
         /\ Totals(admitted[u]) \in [0..Horizon -> Nat] /\ Totals(admitted[u])[0] = 0
         /\ \A m \in 1..Len(rateLimits) :
              LET i == rateLimits[m].Interval IN
              /\ i \in Intervals /\ i \in 1..Horizon /\ i \in Nat /\ i > 0
              /\ rateLimits[m].MaxCount \in Nat /\ rateLimits[m].MaxCount > 0
              /\ windowAge[u][i] \in Nat /\ windowAge[u][i] <= i
              /\ requestCounts[u][i] \in Nat
              /\ Accounts(windowAge[u][i], requestCounts[u][i], Totals(admitted[u]), i,
                          rateLimits[m].MaxCount)
<1>1. rateLimits \in Configurations /\ Horizon \in Nat
  BY LimiterAssumption DEF LimiterInv
<1>2. /\ windowAge[u] \in [Intervals -> Nat] /\ requestCounts[u] \in [Intervals -> Nat]
      /\ admitted[u] \in [0..(Horizon - 1) -> Nat]
      /\ AgesOK(windowAge[u]) /\ CountsOK(requestCounts[u])
  BY DEF LimiterInv
<1>3. Totals(admitted[u]) \in [0..Horizon -> Nat] /\ Totals(admitted[u])[0] = 0
  BY <1>2, TotalsAre
<1>4. \A m \in 1..Len(rateLimits) :
        LET i == rateLimits[m].Interval IN
        Accounts(windowAge[u][i], requestCounts[u][i], Totals(admitted[u]), i,
                 rateLimits[m].MaxCount)
  BY DEF LimiterInv, AccountsOf
<1>5. \A m \in 1..Len(rateLimits) :
        LET i == rateLimits[m].Interval IN
        /\ i \in Intervals /\ i \in 1..Horizon /\ i \in Nat /\ i > 0
        /\ rateLimits[m].MaxCount \in Nat /\ rateLimits[m].MaxCount > 0
  <2>1. \A m \in 1..Len(rateLimits) : rateLimits[m] \in LimitSet /\ rateLimits[m].Interval \in Intervals
    BY <1>1, LimitsAre
  <2> QED
    BY <1>1, <2>1 DEF LimitSet
<1> QED
  BY <1>1, <1>2, <1>3, <1>4, <1>5 DEF AgesOK

(* A request that is admitted is counted in the window it is admitted in,   *)
(* one that is refused may still renew a window.                            *)
LEMMA AccountsCharged ==
  ASSUME LimiterInv, NEW u \in Users
  PROVE  LET user == Charged(windowAge[u], requestCounts[u])
             new == IF user.Ok THEN [admitted[u] EXCEPT ![0] = @ + 1] ELSE admitted[u]
         IN /\ new \in [0..(Horizon - 1) -> Nat]
            /\ AccountsOf(user.Age, user.Count, new)
<1> DEFINE user == Charged(windowAge[u], requestCounts[u])
           new == IF user.Ok THEN [admitted[u] EXCEPT ![0] = @ + 1] ELSE admitted[u]
           T == Totals(admitted[u])
           U == Totals(new)
<1>1. /\ user \in UserData
      /\ \A i \in Intervals :
           \/ user.Age[i] = windowAge[u][i] /\ user.Count[i] >= requestCounts[u][i] /\ windowAge[u][i] < i
           \/ user.Age[i] = windowAge[u][i] /\ user.Count[i] = requestCounts[u][i] /\ windowAge[u][i] = i
           \/ user.Age[i] = 0 /\ windowAge[u][i] = i
      /\ user.Ok => \A m \in 1..Len(rateLimits) :
           LET i == rateLimits[m].Interval IN
           /\ user.Age[i] < i
           /\ Begun(windowAge[u], requestCounts[u], i) + 1 <= user.Count[i]
           /\ Begun(windowAge[u], requestCounts[u], i) + 1 <= rateLimits[m].MaxCount
  BY UserIs, ChargedUser
<1>2. /\ T \in [0..Horizon -> Nat] /\ T[0] = 0 /\ Horizon \in Nat
      /\ admitted[u] \in [0..(Horizon - 1) -> Nat]
      /\ \A m \in 1..Len(rateLimits) :
           LET i == rateLimits[m].Interval IN
           /\ i \in Intervals /\ i \in 1..Horizon /\ i \in Nat /\ i > 0
           /\ rateLimits[m].MaxCount \in Nat /\ rateLimits[m].MaxCount > 0
           /\ windowAge[u][i] \in Nat /\ windowAge[u][i] <= i
           /\ requestCounts[u][i] \in Nat
           /\ Accounts(windowAge[u][i], requestCounts[u][i], T, i, rateLimits[m].MaxCount)
  BY UserIs
<1> HIDE DEF user
<1>3. /\ new \in [0..(Horizon - 1) -> Nat]
      /\ user.Ok => \A k \in 1..Horizon : U[k] = T[k] + 1
      /\ ~user.Ok => U = T
  <2>1. CASE user.Ok
    BY <1>2, <2>1, TotalsAdmit
  <2>2. CASE ~user.Ok
    BY <1>2, <2>2
  <2> QED
    BY <2>1, <2>2
<1> HIDE DEF new, T, U
<1>4. ASSUME NEW m \in 1..Len(rateLimits)
      PROVE  LET i == rateLimits[m].Interval IN
             Accounts(user.Age[i], user.Count[i], U, i, rateLimits[m].MaxCount)
  <2> DEFINE i == rateLimits[m].Interval
             max == rateLimits[m].MaxCount
             a == windowAge[u][i]
             c == requestCounts[u][i]
             na == user.Age[i]
             nc == user.Count[i]
  <2>1. /\ i \in Intervals /\ i \in 1..Horizon /\ i \in Nat /\ i > 0
        /\ max \in Nat /\ max > 0 /\ a \in Nat /\ a <= i /\ c \in Nat
        /\ Accounts(a, c, T, i, max)
    BY <1>2
  <2>2. na \in Nat /\ nc \in Nat
    BY <1>1, <2>1 DEF UserData
  <2>3. \/ na = a /\ nc >= c /\ a < i
        \/ na = a /\ nc = c /\ a = i
        \/ na = 0 /\ a = i
    BY <1>1, <2>1
  <2>4. user.Ok => /\ na < i
                   /\ (IF a >= i THEN 0 ELSE c) + 1 <= nc
                   /\ (IF a >= i THEN 0 ELSE c) + 1 <= max
    BY <1>1 DEF Begun
  <2> HIDE DEF i, max, a, c, na, nc
  <2>5. /\ T[i] \in Nat /\ T[1] \in Nat /\ i \in 1..Horizon /\ 1 \in 1..Horizon
        /\ a < i => a + 1 \in 1..Horizon /\ T[a + 1] \in Nat
    BY <1>2, <2>1
  <2>6. ASSUME user.Ok PROVE Accounts(na, nc, U, i, max)
    <3>1. U[i] = T[i] + 1 /\ U[1] = T[1] + 1 /\ (a < i => U[a + 1] = T[a + 1] + 1)
      BY <1>3, <2>5, <2>6
    <3>2. CASE a < i
      <4>1. na = a /\ nc >= c
        BY <2>1, <2>3, <3>2
      <4>2. T[a + 1] <= c /\ T[a + 1] <= max /\ T[i] - T[a + 1] <= max
        BY <2>1, <3>2 DEF Accounts
      <4>3. c + 1 <= nc /\ c + 1 <= max
        BY <2>1, <2>4, <2>6, <3>2
      <4>4. U[a + 1] = T[a + 1] + 1 /\ U[i] = T[i] + 1 /\ T[a + 1] \in Nat /\ T[i] \in Nat
        BY <2>5, <3>1, <3>2
      <4>5. c \in Nat /\ nc \in Nat /\ max \in Nat
        BY <2>1, <2>2
      <4>6. U[a + 1] <= nc /\ U[a + 1] <= max
        BY <4>2, <4>3, <4>4, <4>5
      <4>7. U[i] - U[a + 1] <= max
        BY <4>2, <4>4, <4>5
      <4> QED
        BY <3>2, <4>1, <4>6, <4>7 DEF Accounts
    <3>3. CASE a = i
      <4>1. na = 0 /\ nc >= 1
        BY <2>1, <2>2, <2>3, <2>4, <2>6, <3>3
      <4> QED
        BY <2>1, <2>2, <2>5, <3>1, <3>3, <4>1 DEF Accounts
    <3> QED
      BY <2>1, <3>2, <3>3
  <2>7. ASSUME ~user.Ok PROVE Accounts(na, nc, U, i, max)
    <3>1. U = T
      BY <1>3, <2>7
    <3> QED
      BY <2>1, <2>2, <2>3, <2>5, <3>1 DEF Accounts
  <2>8. Accounts(na, nc, U, i, max)
    BY <2>6, <2>7
  <2> QED
    BY <2>8 DEF i, max, na, nc
<1> QED
  BY <1>3, <1>4 DEF AccountsOf, user, new, U

(* A tick later the windows are older, and so is what they account for.     *)
LEMMA AccountsAfterTick ==
  ASSUME LimiterInv, NEW u \in Users
  PROVE  LET age == [i \in Intervals |-> IF windowAge[u][i] < i THEN windowAge[u][i] + 1 ELSE i]
             new == [n \in 0..(Horizon - 1) |-> IF n = 0 THEN 0 ELSE admitted[u][n - 1]]
         IN /\ new \in [0..(Horizon - 1) -> Nat]
            /\ AccountsOf(age, requestCounts[u], new)
<1> DEFINE age == [i \in Intervals |-> IF windowAge[u][i] < i THEN windowAge[u][i] + 1 ELSE i]
           new == [n \in 0..(Horizon - 1) |-> IF n = 0 THEN 0 ELSE admitted[u][n - 1]]
           T == Totals(admitted[u])
           U == Totals(new)
<1>1. /\ T \in [0..Horizon -> Nat] /\ T[0] = 0 /\ Horizon \in Nat
      /\ admitted[u] \in [0..(Horizon - 1) -> Nat]
      /\ \A m \in 1..Len(rateLimits) :
           LET i == rateLimits[m].Interval IN
           /\ i \in Intervals /\ i \in 1..Horizon /\ i \in Nat /\ i > 0
           /\ rateLimits[m].MaxCount \in Nat
           /\ windowAge[u][i] \in Nat /\ windowAge[u][i] <= i
           /\ requestCounts[u][i] \in Nat
           /\ Accounts(windowAge[u][i], requestCounts[u][i], T, i, rateLimits[m].MaxCount)
  BY UserIs
<1>2. /\ new \in [0..(Horizon - 1) -> Nat]
      /\ \A k \in 0..(Horizon - 1) : U[k + 1] = T[k]
  BY <1>1, TotalsTick
<1>3. \A j \in 0..Horizon : \A k \in j..Horizon : T[j] <= T[k]
  BY <1>1, TotalsGrow
<1>4. \A i \in Intervals : age[i] = IF windowAge[u][i] < i THEN windowAge[u][i] + 1 ELSE i
  OBVIOUS
<1> HIDE DEF age, new, T, U
<1>5. ASSUME NEW m \in 1..Len(rateLimits)
      PROVE  LET i == rateLimits[m].Interval IN
             Accounts(age[i], requestCounts[u][i], U, i, rateLimits[m].MaxCount)
  <2> DEFINE i == rateLimits[m].Interval
             max == rateLimits[m].MaxCount
             a == windowAge[u][i]
             c == requestCounts[u][i]
  <2>1. /\ i \in Intervals /\ i \in 1..Horizon /\ i \in Nat /\ i > 0
        /\ max \in Nat /\ a \in Nat /\ a <= i /\ c \in Nat
        /\ Accounts(a, c, T, i, max)
        /\ age[i] = IF a < i THEN a + 1 ELSE i
    BY <1>1, <1>4
  <2> HIDE DEF i, max, a, c
  <2>2. /\ i - 1 \in 0..(Horizon - 1) /\ (i - 1) + 1 = i /\ i - 1 \in 0..Horizon /\ i \in (i - 1)..Horizon
        /\ 0 \in 0..(Horizon - 1) /\ i \in 0..Horizon
    BY <1>1, <2>1
  <2>3. /\ U[i] = T[i - 1] /\ T[i - 1] <= T[i] /\ U[1] = 0
        /\ T[i] \in Nat /\ T[i - 1] \in Nat
    BY <1>1, <1>2, <1>3, <2>2
  <2>4. ASSUME a + 1 < i PROVE Accounts(age[i], c, U, i, max)
    <3>1. a + 1 \in 0..(Horizon - 1) /\ a + 1 \in 0..Horizon
      BY <1>1, <2>1, <2>4
    <3>2. U[(a + 1) + 1] = T[a + 1] /\ T[a + 1] \in Nat
      BY <1>1, <1>2, <3>1
    <3>3. age[i] = a + 1 /\ a < i
      BY <2>1, <2>4
    <3> QED
      BY <2>1, <2>3, <2>4, <3>2, <3>3 DEF Accounts
  <2>5. ASSUME a + 1 = i PROVE Accounts(age[i], c, U, i, max)
    <3>1. age[i] = i /\ a < i
      BY <2>1, <2>5
    <3> QED
      BY <2>1, <2>3, <2>5, <3>1 DEF Accounts
  <2>6. ASSUME a = i PROVE Accounts(age[i], c, U, i, max)
    <3>1. age[i] = i
      BY <2>1, <2>6
    <3> QED
      BY <2>1, <2>3, <2>6, <3>1 DEF Accounts
  <2>7. Accounts(age[i], c, U, i, max)
    BY <2>1, <2>4, <2>5, <2>6
  <2> QED
    BY <2>7 DEF i, max, c
<1> QED
  BY <1>2, <1>5 DEF AccountsOf, age, new, U

(* Requests, the clean-up and time keep the accounts.                       *)
LEMMA LimiterInvStep == LimiterInv /\ [LimiterNext]_limiterVars => LimiterInv'
<1> SUFFICES ASSUME LimiterInv, [LimiterNext]_limiterVars PROVE LimiterInv'
  OBVIOUS
<1> DEFINE UserInv(u) ==
             /\ windowAge'[u] \in [Intervals -> Nat] /\ requestCounts'[u] \in [Intervals -> Nat]
             /\ admitted'[u] \in [0..(Horizon - 1) -> Nat]
             /\ AgesOK(windowAge'[u]) /\ CountsOK(requestCounts'[u])
             /\ AccountsOf(windowAge'[u], requestCounts'[u], admitted'[u])
           Functions ==
             /\ windowAge' = [u \in Users |-> windowAge'[u]]
             /\ requestCounts' = [u \in Users |-> requestCounts'[u]]
             /\ admitted' = [u \in Users |-> admitted'[u]]
<1>1. /\ windowAge \in [Users -> [Intervals -> Nat]]
      /\ requestCounts \in [Users -> [Intervals -> Nat]]
      /\ admitted \in [Users -> [0..(Horizon - 1) -> Nat]]
      /\ rateLimits \in Configurations
  BY DEF LimiterInv
<1>3. ASSUME NEW u \in Users,
             windowAge'[u] = windowAge[u], requestCounts'[u] = requestCounts[u],
             admitted'[u] = admitted[u]
      PROVE  UserInv(u)
  BY <1>3 DEF LimiterInv
<1>4. rateLimits' = rateLimits
  BY DEF LimiterNext, limiterVars, AllowRequest, CleanupUsers, LimiterTick
<1>5. Intervals' = Intervals
  BY <1>4 DEF Intervals
<1>6. Functions /\ \A u \in Users : UserInv(u)
  <2>1. CASE UNCHANGED limiterVars
    BY <1>1, <1>3, <2>1 DEF limiterVars
  <2>2. ASSUME NEW v \in Users, AllowRequest(v) PROVE Functions /\ \A u \in Users : UserInv(u)
    <3> DEFINE user == Charged(windowAge[v], requestCounts[v])
               new == IF user.Ok THEN [admitted[v] EXCEPT ![0] = @ + 1] ELSE admitted[v]
    <3>1. /\ windowAge' = [windowAge EXCEPT ![v] = user.Age]
          /\ requestCounts' = [requestCounts EXCEPT ![v] = user.Count]
          /\ admitted' = IF user.Ok THEN [admitted EXCEPT ![v][0] = @ + 1] ELSE admitted
      BY <2>2 DEF AllowRequest
    <3>2. /\ user \in UserData
          /\ \A i \in Intervals :
               \/ user.Age[i] = windowAge[v][i] /\ windowAge[v][i] < i
               \/ user.Age[i] = windowAge[v][i] /\ windowAge[v][i] = i
               \/ user.Age[i] = 0 /\ windowAge[v][i] = i
          /\ CountsOK(user.Count)
      BY UserIs, ChargedUser
    <3>3. new \in [0..(Horizon - 1) -> Nat] /\ AccountsOf(user.Age, user.Count, new)
      BY AccountsCharged
    <3> HIDE DEF user
    <3>4. admitted' = [admitted EXCEPT ![v] = new]
      BY <1>1, <3>1
    <3> HIDE DEF new
    <3>5. Functions
      BY <1>1, <3>1, <3>4
    <3>6. UserInv(v)
      <4>1. windowAge'[v] = user.Age /\ requestCounts'[v] = user.Count /\ admitted'[v] = new
        BY <1>1, <3>1, <3>4
      <4>2. user.Age \in [Intervals -> Nat] /\ user.Count \in [Intervals -> Nat]
        BY <3>2 DEF UserData
      <4>3. \A i \in Intervals : i \in Nat /\ windowAge[v][i] \in Nat
        BY <1>1, LimitsAre
      <4>4. AgesOK(user.Age)
        <5> SUFFICES ASSUME NEW i \in Intervals PROVE user.Age[i] <= i
          BY DEF AgesOK
        <5> HIDE DEF UserInv, Functions
        <5> QED
          BY <3>2, <4>3
      <4> QED
        BY <3>2, <3>3, <4>1, <4>2, <4>4
    <3>7. ASSUME NEW u \in Users, u # v PROVE UserInv(u)
      <4>1. /\ windowAge'[u] = windowAge[u] /\ requestCounts'[u] = requestCounts[u]
            /\ admitted'[u] = admitted[u]
        BY <1>1, <3>1, <3>4, <3>7
      <4> HIDE DEF UserInv
      <4> QED
        BY <1>3, <4>1
    <3> HIDE DEF UserInv, Functions
    <3> QED
      BY <3>5, <3>6, <3>7
  <2>3. CASE CleanupUsers
    <3>1. /\ windowAge' = [u \in Users |-> IF Forgets(u) THEN NewUser.Age ELSE windowAge[u]]
          /\ requestCounts' = [u \in Users |-> IF Forgets(u) THEN NewUser.Count ELSE requestCounts[u]]
          /\ admitted' = admitted
      BY <2>3 DEF CleanupUsers
    <3>2. Functions
      BY <1>1, <3>1
    <3>3. ASSUME NEW u \in Users, Forgets(u) PROVE UserInv(u)
      <4>1. /\ \A i \in Intervals :
                 i \in Nat /\ \E m \in 1..Len(rateLimits) : rateLimits[m].Interval = i
            /\ \A m \in 1..Len(rateLimits) : rateLimits[m] \in LimitSet
        BY <1>1, LimitsAre
      <4>2. \A i \in Intervals : windowAge[u][i] = i
        BY <1>1, <3>3, <4>1 DEF Forgets, LimiterInv, AgesOK
      <4>3. /\ windowAge'[u] = windowAge[u]
            /\ requestCounts'[u] = [i \in Intervals |-> 0] /\ admitted'[u] = admitted[u]
        BY <1>1, <3>1, <3>3, <4>2 DEF NewUser
      <4>4. CountsOK(requestCounts'[u])
        BY <4>1, <4>3 DEF CountsOK, LimitSet
      <4>5. requestCounts'[u] \in [Intervals -> Nat]
        BY <4>3
      <4>6. AccountsOf(windowAge'[u], requestCounts'[u], admitted'[u])
        <5>1. \A m \in 1..Len(rateLimits) :
                LET i == rateLimits[m].Interval IN
                /\ i \in Intervals /\ i \in Nat
                /\ Accounts(windowAge[u][i], requestCounts[u][i], Totals(admitted[u]), i,
                            rateLimits[m].MaxCount)
          BY UserIs
        <5> QED
          BY <4>2, <4>3, <5>1 DEF AccountsOf, Accounts
      <4> QED
        BY <4>3, <4>4, <4>5, <4>6 DEF LimiterInv
    <3>4. ASSUME NEW u \in Users, ~Forgets(u) PROVE UserInv(u)
      <4>1. /\ windowAge'[u] = windowAge[u] /\ requestCounts'[u] = requestCounts[u]
            /\ admitted'[u] = admitted[u]
        BY <3>1, <3>4
      <4> HIDE DEF UserInv
      <4> QED
        BY <1>3, <4>1
    <3> HIDE DEF UserInv, Functions
    <3> QED
      BY <3>2, <3>3, <3>4
  <2>4. CASE LimiterTick
    <3>1. /\ windowAge' = [u \in Users |-> [i \in Intervals |->
               IF windowAge[u][i] < i THEN windowAge[u][i] + 1 ELSE i]]
          /\ requestCounts' = requestCounts
          /\ admitted' = [u \in Users |-> [n \in 0..(Horizon - 1) |->
               IF n = 0 THEN 0 ELSE admitted[u][n - 1]]]
      BY <2>4 DEF LimiterTick
    <3>2. Functions
      BY <1>1, <3>1
    <3>3. ASSUME NEW u \in Users PROVE UserInv(u)
      <4> DEFINE age == [i \in Intervals |-> IF windowAge[u][i] < i THEN windowAge[u][i] + 1 ELSE i]
                 new == [n \in 0..(Horizon - 1) |-> IF n = 0 THEN 0 ELSE admitted[u][n - 1]]
      <4>1. windowAge'[u] = age /\ requestCounts'[u] = requestCounts[u] /\ admitted'[u] = new
        BY <3>1
      <4>2. new \in [0..(Horizon - 1) -> Nat] /\ AccountsOf(age, requestCounts[u], new)
        BY AccountsAfterTick
      <4>3. \A i \in Intervals : i \in Nat /\ windowAge[u][i] \in Nat
        BY <1>1, LimitsAre
      <4>4. age \in [Intervals -> Nat] /\ AgesOK(age)
        BY <4>3 DEF AgesOK
      <4>5. requestCounts[u] \in [Intervals -> Nat] /\ CountsOK(requestCounts[u])
        BY <1>1 DEF LimiterInv
      <4> HIDE DEF age, new
      <4> QED
        BY <4>1, <4>2, <4>4, <4>5
    <3> HIDE DEF UserInv, Functions
    <3> QED
      BY <3>2, <3>3
  <2> HIDE DEF UserInv, Functions
  <2> QED
    BY <2>1, <2>2, <2>3, <2>4 DEF LimiterNext
<1>7. /\ windowAge' \in [Users -> [Intervals -> Nat]]
      /\ requestCounts' \in [Users -> [Intervals -> Nat]]
      /\ admitted' \in [Users -> [0..(Horizon - 1) -> Nat]]
  BY <1>6
<1>8. \A u \in Users :
        /\ AgesOK(windowAge[u])' /\ CountsOK(requestCounts[u])'
        /\ AccountsOf(windowAge[u], requestCounts[u], admitted[u])'
  <2>1. \A u \in Users :
          /\ AgesOK(windowAge'[u]) /\ CountsOK(requestCounts'[u])
          /\ AccountsOf(windowAge'[u], requestCounts'[u], admitted'[u])
    BY <1>6
  <2> QED
    BY <1>4, <1>5, <2>1 DEF AgesOK, CountsOK, AccountsOf
<1> QED
  BY <1>1, <1>4, <1>5, <1>7, <1>8 DEF LimiterInv

(* Ages and counts are within the limits of their intervals.                *)
LEMMA InvLimiterTypes == LimiterInv => LimiterTypeOK
<1> SUFFICES ASSUME LimiterInv, NEW u \in Users
             PROVE  /\ DOMAIN windowAge[u] = Intervals /\ DOMAIN requestCounts[u] = Intervals
                    /\ \A i \in Intervals : windowAge[u][i] \in 0..i
                    /\ \A i \in DOMAIN rateLimits : \E j \in DOMAIN rateLimits :
                         /\ rateLimits[j].Interval = rateLimits[i].Interval
                         /\ requestCounts[u][rateLimits[i].Interval] \in 0..rateLimits[j].MaxCount
  BY DEF LimiterTypeOK
<1>1. /\ rateLimits \in Configurations
      /\ windowAge[u] \in [Intervals -> Nat] /\ AgesOK(windowAge[u])
      /\ requestCounts[u] \in [Intervals -> Nat] /\ CountsOK(requestCounts[u])
      /\ \A m \in 1..Len(rateLimits) : rateLimits[m].MaxCount \in Nat
  BY UserIs
<1>2. /\ DOMAIN rateLimits = 1..Len(rateLimits)
      /\ \A m \in 1..Len(rateLimits) : rateLimits[m].Interval \in Intervals
      /\ \A i \in Intervals : i \in Nat
  BY <1>1, LimitsAre
<1>3. \A i \in Intervals : windowAge[u][i] \in 0..i
  BY <1>1, <1>2 DEF AgesOK
<1>4. ASSUME NEW m \in 1..Len(rateLimits)
      PROVE  \E j \in 1..Len(rateLimits) :
               /\ rateLimits[j].Interval = rateLimits[m].Interval
               /\ requestCounts[u][rateLimits[m].Interval] \in 0..rateLimits[j].MaxCount
  <2> DEFINE i == rateLimits[m].Interval
  <2>1. i \in Intervals /\ requestCounts[u][i] \in Nat
    BY <1>1, <1>2
  <2>2. PICK j \in 1..Len(rateLimits) :
               rateLimits[j].Interval = i /\ requestCounts[u][i] <= rateLimits[j].MaxCount
    BY <1>1, <2>1 DEF CountsOK
  <2> QED
    BY <1>1, <2>1, <2>2
<1> QED
  BY <1>1, <1>2, <1>3, <1>4

(* The ages and counts have an entry for each interval, within its limits.  *)
THEOREM LimiterTypesHold == LimiterSpec => []LimiterTypeOK
BY InvLimiterTypes, LimiterInit, LimiterInvStep, PTL DEF LimiterSpec

(* What the counts account for is at most two windows of each limit.        *)
LEMMA InvWindows == LimiterInv => AtMostTwoWindowsPerInterval
<1> SUFFICES ASSUME LimiterInv, NEW u \in Users, NEW m \in DOMAIN rateLimits
             PROVE  AdmittedWithin(u, rateLimits[m].Interval) <= 2 * rateLimits[m].MaxCount
  BY DEF AtMostTwoWindowsPerInterval
<1> DEFINE i == rateLimits[m].Interval
           max == rateLimits[m].MaxCount
           T == Totals(admitted[u])
           a == windowAge[u][i]
<1>1. m \in 1..Len(rateLimits)
  BY LimitsAre DEF LimiterInv
<1>2. /\ T \in [0..Horizon -> Nat] /\ Horizon \in Nat /\ i \in 1..Horizon /\ max \in Nat
      /\ a \in Nat /\ a <= i /\ Accounts(a, requestCounts[u][i], T, i, max)
  BY <1>1, UserIs
<1> HIDE DEF i, max, T, a
<1>3. T[i] \in Nat /\ (a < i => T[a + 1] \in Nat)
  BY <1>2
<1>4. T[i] <= 2 * max
  BY <1>2, <1>3 DEF Accounts
<1> QED
  BY <1>4 DEF AdmittedWithin, T, i, max

(* Whatever refusals, other limits and the clean-up do to the windows       *)
(* (limiter.go:69-94, 41-62), no interval sees more than twice its maximum. *)
THEOREM NoThirdWindow == LimiterSpec => []AtMostTwoWindowsPerInterval
BY InvWindows, LimiterInit, LimiterInvStep, PTL DEF LimiterSpec

(* Before the next action time some limit is exhausted.                     *)
LEMMA InvWaits == LimiterInv => NoNeedlessWait
<1> DEFINE Then(u, d) == [interval \in Intervals |->
             LET age == windowAge[u][interval] + d IN IF age < interval THEN age ELSE interval]
<1> SUFFICES ASSUME LimiterInv, NEW u \in Users, NEW d \in 0..(NextActionIn(u) - 1),
                    Charged(Then(u, d), requestCounts[u]).Ok
             PROVE  FALSE
  BY DEF NoNeedlessWait
<1> DEFINE then == Then(u, d)
           full == {interval \in Intervals : \E i \in DOMAIN rateLimits :
                      /\ rateLimits[i].Interval = interval
                      /\ requestCounts[u][interval] >= rateLimits[i].MaxCount}
           ends == {interval - windowAge[u][interval] : interval \in full}
<1>1. /\ rateLimits \in Configurations
      /\ \A i \in Intervals : i \in Nat /\ i > 0
      /\ windowAge[u] \in [Intervals -> Nat] /\ AgesOK(windowAge[u])
      /\ requestCounts[u] \in [Intervals -> Nat]
      /\ DOMAIN rateLimits = 1..Len(rateLimits)
      /\ \A m \in 1..Len(rateLimits) : rateLimits[m].MaxCount \in Nat
  BY UserIs, LimitsAre
<1>2. full \subseteq Intervals /\ ends \in SUBSET Nat
  BY <1>1 DEF AgesOK
<1>3. full # {}
  BY DEF NextActionIn
<1>4. \E e \in ends : \A x \in ends : e <= x
  <2>1. ends # {}
    BY <1>3
  <2> HIDE DEF ends
  <2> QED
    BY <1>2, <2>1, LeastNumber
<1>5. NextActionIn(u) = CHOOSE e \in ends : \A x \in ends : e <= x
  BY <1>3 DEF NextActionIn
<1> HIDE DEF ends
<1>6. NextActionIn(u) \in ends
  BY <1>4, <1>5
<1>7. PICK i \in full : NextActionIn(u) = i - windowAge[u][i]
  BY <1>6 DEF ends
<1>8. PICK m \in 1..Len(rateLimits) :
             rateLimits[m].Interval = i /\ requestCounts[u][i] >= rateLimits[m].MaxCount
  BY <1>1, <1>7
<1>9. i \in Intervals /\ i \in Nat /\ windowAge[u][i] \in Nat /\ d \in Nat
      /\ windowAge[u][i] + d < i /\ requestCounts[u][i] \in Nat
  BY <1>1, <1>2, <1>7
<1>10. then \in [Intervals -> Nat] /\ AgesOK(then) /\ then[i] = windowAge[u][i] + d
  <2>1. \A j \in Intervals : windowAge[u][j] \in Nat /\ j \in Nat
    BY <1>1
  <2>2. \A j \in Intervals : then[j] \in Nat /\ then[j] <= j
    BY <1>9, <2>1
  <2>3. then[i] = windowAge[u][i] + d
    BY <1>9
  <2> QED
    BY <2>2, <2>3 DEF AgesOK
<1> HIDE DEF then, full
<1>11. Charged(then, requestCounts[u]).Ok
  BY DEF then
<1>12. Begun(then, requestCounts[u], i) + 1 <= rateLimits[m].MaxCount
  BY <1>1, <1>8, <1>10, <1>11, ChargedUser
<1>13. Begun(then, requestCounts[u], i) = requestCounts[u][i]
  BY <1>9, <1>10 DEF Begun
<1> QED
  BY <1>1, <1>8, <1>9, <1>12, <1>13

(* Every moment before the time NextActionTime returns (limiter.go:97-118)  *)
(* is one at which some window is still full: a request would be refused.   *)
THEOREM WaitsAreNeeded == LimiterSpec => []NoNeedlessWait
BY InvWaits, LimiterInit, LimiterInvStep, PTL DEF LimiterSpec

-----------------------------------------------------------------------------
\* The file of the API cache.

\* The sets of keys are finite, and their sizes numbers.
LEMMA KeysAreFinite ==
  ASSUME NEW map
  PROVE  IsFiniteSet(KeysIn(map)) /\ Cardinality(KeysIn(map)) \in Nat
<1>1. KeysIn(map) \in SUBSET CacheKeys
  BY DEF KeysIn
<1> QED
  BY <1>1, PersistenceAssumption, FS_Subset, FS_CardinalityType

\* A map made of as many of the items of another is that other.
LEMMA AsManyAreAll ==
  ASSUME NEW map \in Maps, NEW whole \in Maps, Pairs(map) \subseteq Pairs(whole),
         Cardinality(KeysIn(map)) = Cardinality(KeysIn(whole))
  PROVE  map = whole
<1>1. ASSUME NEW k \in KeysIn(map) PROVE k \in KeysIn(whole) /\ map[k] = whole[k]
  <2>1. <<k, map[k]>> \in Pairs(whole)
    BY <1>1 DEF Pairs
  <2>2. PICK j \in KeysIn(whole) : <<k, map[k]>> = <<j, whole[j]>>
    BY <2>1 DEF Pairs
  <2> QED
    BY <2>2
<1>2. KeysIn(map) = KeysIn(whole)
  BY <1>1, KeysAreFinite, FS_Subset
<1>3. \A k \in CacheKeys : map[k] = whole[k]
  BY <1>1, <1>2 DEF KeysIn
<1> QED
  BY <1>3 DEF Maps

\* Nothing is a map, without keys.
LEMMA NothingIsAMap == Nothing \in {map \in Maps : Within(map)}
<1>1. KeysIn(Nothing) = {} /\ Nothing \in Maps
  BY DEF KeysIn, Nothing, Maps
<1> QED
  BY <1>1, FS_EmptySet, PersistenceAssumption DEF Within

\* A map from which a Set has evicted what it must has room for the key it sets.
LEMMA SetKeepsWithin ==
  ASSUME NEW map \in Maps, Within(map), NEW k \in CacheKeys, NEW v \in CacheValues, NEW out,
         out \in IF Cardinality(KeysIn(map)) < MaxItems THEN {{}}
                 ELSE {{j} : j \in KeysIn(map)},
         NEW new, new = [j \in CacheKeys |-> IF j = k THEN v
                                             ELSE IF j \in out THEN NoItem ELSE map[j]]
  PROVE  new \in Maps /\ Within(new)
<1>1. new \in Maps
  BY DEF Maps
<1>2. KeysIn(new) \in SUBSET ((KeysIn(map) \ out) \union {k})
  BY DEF KeysIn
<1>3. IsFiniteSet(KeysIn(map) \ out) /\ Cardinality(KeysIn(map) \ out) < MaxItems
      /\ Cardinality(KeysIn(map) \ out) \in Nat
  <2>1. CASE Cardinality(KeysIn(map)) < MaxItems
    <3>1. KeysIn(map) \ out = KeysIn(map)
      BY <2>1
    <3> QED
      BY <2>1, <3>1, KeysAreFinite
  <2>2. CASE ~(Cardinality(KeysIn(map)) < MaxItems)
    <3>1. PICK j \in KeysIn(map) : out = {j}
      BY <2>2
    <3>2. Cardinality(KeysIn(map) \ {j}) = Cardinality(KeysIn(map)) - 1
      BY KeysAreFinite, FS_RemoveElement
    <3>3. IsFiniteSet(KeysIn(map) \ {j})
      BY KeysAreFinite, FS_RemoveElement
    <3>4. Cardinality(KeysIn(map) \ {j}) \in Nat
      BY <3>3, FS_CardinalityType
    <3>5. Cardinality(KeysIn(map)) \in Nat
      BY KeysAreFinite
    <3> QED
      BY <3>1, <3>2, <3>3, <3>4, <3>5, PersistenceAssumption DEF Within
  <2> QED
    BY <2>1, <2>2
<1>4. IsFiniteSet((KeysIn(map) \ out) \union {k})
      /\ Cardinality((KeysIn(map) \ out) \union {k}) <= MaxItems
  <2> DEFINE left == KeysIn(map) \ out
  <2>1. /\ IsFiniteSet(left \union {k})
        /\ Cardinality(left \union {k}) = IF k \in left THEN Cardinality(left)
                                          ELSE Cardinality(left) + 1
    BY <1>3, FS_AddElement
  <2>2. Cardinality(left) < MaxItems /\ Cardinality(left) \in Nat
    BY <1>3
  <2> HIDE DEF left
  <2>3. Cardinality(left \union {k}) <= MaxItems
    BY <2>1, <2>2, PersistenceAssumption
  <2> QED
    BY <2>1, <2>3 DEF left
<1>5. Cardinality(KeysIn(new)) <= Cardinality((KeysIn(map) \ out) \union {k})
  BY <1>2, <1>4, FS_Subset
<1>6. Cardinality((KeysIn(map) \ out) \union {k}) \in Nat /\ Cardinality(KeysIn(new)) \in Nat
  BY <1>4, FS_CardinalityType, KeysAreFinite
<1> QED
  BY <1>1, <1>4, <1>5, <1>6, PersistenceAssumption DEF Within

\* So has one that loses a key.
LEMMA RemovalKeepsWithin ==
  ASSUME NEW map \in Maps, Within(map), NEW k \in CacheKeys
  PROVE  [map EXCEPT ![k] = NoItem] \in Maps /\ Within([map EXCEPT ![k] = NoItem])
<1> DEFINE new == [map EXCEPT ![k] = NoItem]
<1>1. new \in Maps
  BY DEF Maps
<1>2. KeysIn(new) \in SUBSET KeysIn(map)
  BY DEF KeysIn, Maps
<1>3. Cardinality(KeysIn(new)) <= Cardinality(KeysIn(map))
  BY <1>2, KeysAreFinite, FS_Subset
<1>4. Cardinality(KeysIn(new)) \in Nat /\ Cardinality(KeysIn(map)) \in Nat
  BY KeysAreFinite
<1> QED
  BY <1>1, <1>3, <1>4, PersistenceAssumption DEF Within

\* The pairs of a map are keys and values.
LEMMA PairsType ==
  ASSUME NEW map \in Maps
  PROVE  Pairs(map) \in SUBSET (CacheKeys \X CacheValues) /\ KeysIn(map) \in SUBSET CacheKeys
  BY DEF Pairs, KeysIn, Maps

\* An encoding nothing came under has met what was there when it began; a file
\* without types has a save that is about to write them, one without a value a save
\* that is about to write it; and unless spoilt it holds the last value written.
EncodingsAreWhole ==
  /\ \A s \in attached \union disturbed : savePc[s] = "encode"
  /\ \A s \in Savers : savePc[s] = "encode" /\ s \notin disturbed
       => everHeld[s] = Pairs(initially[s]) /\ alwaysHeld[s] = KeysIn(initially[s])
FileIsOnItsWay ==
  /\ ~cacheUp \/ fileState = "none" => NobodySaves
  /\ ~spoilt => /\ fileState # "torn"
                /\ fileState = "empty" => ~NobodySaves
                /\ fileState # "empty" => fileItems = intended
                /\ ~fileTypes /\ fileState # "none" => \E s \in Savers : savePc[s] = "created"
PersistenceInv == PersistenceTypeOK /\ EncodingsAreWhole /\ FileIsOnItsWay

\* A first start satisfies the invariant.
LEMMA PersistenceInit == NewPersistence => PersistenceInv
  BY NothingIsAMap
  DEF NewPersistence, PersistenceInv, PersistenceTypeOK, EncodingsAreWhole, FileIsOnItsWay,
      NobodySaves

\* A Set, an Invalidate or a Clear preserves it.
LEMMA PersistenceMapSteps ==
  ASSUME PersistenceInv, SetItem \/ InvalidateItem \/ ClearItems
  PROVE  PersistenceInv'
<1>0. cached \in Maps /\ Within(cached)
  BY DEF PersistenceInv, PersistenceTypeOK
<1>1. cached' \in {map \in Maps : Within(map)}
  <2>1. CASE SetItem
    <3>1. PICK k \in CacheKeys, v \in CacheValues, out \in Evicted :
            cached' = [j \in CacheKeys |-> IF j = k THEN v
                                           ELSE IF j \in out THEN NoItem ELSE cached[j]]
      BY <2>1 DEF SetItem
    <3>2. cached' \in Maps /\ Within(cached')
      BY <1>0, <3>1, SetKeepsWithin DEF Evicted
    <3> QED
      BY <3>2
  <2>2. CASE InvalidateItem
    <3>1. PICK k \in CacheKeys : cached' = [cached EXCEPT ![k] = NoItem]
      BY <2>2 DEF InvalidateItem, KeysIn
    <3>2. cached' \in Maps /\ Within(cached')
      BY <1>0, <3>1, RemovalKeepsWithin
    <3> QED
      BY <3>2
  <2> QED
    BY <2>1, <2>2, NothingIsAMap DEF ClearItems
<1>2. /\ UNCHANGED <<cacheUp, savePc, initially, fileVars>>
      /\ attached' \subseteq attached /\ disturbed' \subseteq disturbed \union attached
  BY DEF SetItem, InvalidateItem, ClearItems, PersistenceInv, PersistenceTypeOK
<1>3. /\ everHeld' \in [Savers -> SUBSET (CacheKeys \X CacheValues)]
      /\ alwaysHeld' \in [Savers -> SUBSET CacheKeys]
      /\ \A s \in Savers : s \notin disturbed' =>
           s \notin disturbed /\ everHeld'[s] = everHeld[s] /\ alwaysHeld'[s] = alwaysHeld[s]
  <2>1. CASE ClearItems
    BY <2>1 DEF ClearItems, PersistenceInv, PersistenceTypeOK
  <2>2. CASE SetItem \/ InvalidateItem
    <3>1. Pairs(cached') \in SUBSET (CacheKeys \X CacheValues)
      BY <1>1, PairsType
    <3>2. PICK removed : MapWritten(removed)
      BY <2>2 DEF SetItem, InvalidateItem
    <3>3. disturbed' = disturbed \union attached
      BY <2>2 DEF SetItem, InvalidateItem
    <3> QED
      BY <3>1, <3>2, <3>3 DEF MapWritten, PersistenceInv, PersistenceTypeOK
  <2> QED
    BY <2>1, <2>2
<1>4. PersistenceTypeOK'
  BY <1>1, <1>2, <1>3 DEF PersistenceInv, PersistenceTypeOK, fileVars, Within, KeysIn
<1>5. EncodingsAreWhole'
  BY <1>2, <1>3 DEF PersistenceInv, PersistenceTypeOK, EncodingsAreWhole, Pairs, KeysIn
<1>6. FileIsOnItsWay'
  BY <1>2 DEF PersistenceInv, FileIsOnItsWay, NobodySaves, fileVars
<1> QED
  BY <1>4, <1>5, <1>6 DEF PersistenceInv

\* The first two steps of a save preserve it.
LEMMA PersistenceSaveBegins ==
  ASSUME PersistenceInv, NEW s \in Savers, CreateFile(s) \/ EncodeBegins(s)
  PROVE  PersistenceInv'
<1>1. CASE CreateFile(s)
  <2>1. PersistenceTypeOK'
    BY <1>1, NothingIsAMap DEF CreateFile, PersistenceInv, PersistenceTypeOK, encodingVars,
       Within, KeysIn
  <2>2. EncodingsAreWhole'
    BY <1>1 DEF CreateFile, PersistenceInv, PersistenceTypeOK, EncodingsAreWhole, encodingVars,
       Pairs, KeysIn
  <2>3. savePc'[s] = "created" /\ ~NobodySaves'
    BY <1>1 DEF CreateFile, PersistenceInv, PersistenceTypeOK, NobodySaves
  <2>4. FileIsOnItsWay'
    BY <1>1, <2>3 DEF CreateFile, FileIsOnItsWay
  <2> QED
    BY <2>1, <2>2, <2>4 DEF PersistenceInv
<1>2. CASE EncodeBegins(s)
  <2>1. PersistenceTypeOK'
    BY <1>2, PairsType DEF EncodeBegins, PersistenceInv, PersistenceTypeOK, Within, KeysIn
  <2>2. EncodingsAreWhole'
    BY <1>2 DEF EncodeBegins, PersistenceInv, PersistenceTypeOK, EncodingsAreWhole, Pairs, KeysIn
  <2>3. ~NobodySaves /\ ~NobodySaves'
    BY <1>2 DEF EncodeBegins, PersistenceInv, PersistenceTypeOK, NobodySaves
  <2>4. FileIsOnItsWay'
    BY <1>2, <2>3 DEF EncodeBegins, PersistenceInv, FileIsOnItsWay
  <2> QED
    BY <2>1, <2>2, <2>4 DEF PersistenceInv
<1> QED
  BY <1>1, <1>2

\* What the end of a save does to goroutines and encodings.
LEMMA SaveEndsTypes ==
  ASSUME PersistenceInv, NEW s \in Savers, SaveEnds(s)
  PROVE  /\ cacheUp' \in BOOLEAN /\ cached' \in {map \in Maps : Within(map)}
         /\ savePc' \in [Savers -> {"idle", "created", "encode"}]
         /\ attached' \subseteq Savers /\ disturbed' \subseteq Savers
         /\ initially' \in [Savers -> {map \in Maps : Within(map)}]
         /\ everHeld' \in [Savers -> SUBSET (CacheKeys \X CacheValues)]
         /\ alwaysHeld' \in [Savers -> SUBSET CacheKeys]
         /\ EncodingsAreWhole'
<1>1. EncodingsAreWhole'
  BY DEF SaveEnds, PersistenceInv, PersistenceTypeOK, EncodingsAreWhole, Pairs, KeysIn
<1> QED
  BY <1>1, NothingIsAMap DEF SaveEnds, PersistenceInv, PersistenceTypeOK

\* The write of the value preserves it: undisturbed, it writes the map that was
\* there when the encoding began.
LEMMA PersistenceWrite ==
  ASSUME PersistenceInv, NEW s \in Savers, WriteItems(s)
  PROVE  PersistenceInv'
<1>1. initially[s] \in Maps /\ Within(initially[s])
  BY DEF PersistenceInv, PersistenceTypeOK
<1>2. SaveEnds(s)
  BY DEF WriteItems
<1>3. fileItems' \in Maps /\ Within(fileItems')
  BY <1>1, NothingIsAMap DEF WriteItems, EncodedItems, Within
<1>4. PersistenceTypeOK'
  BY <1>1, <1>2, <1>3, SaveEndsTypes DEF WriteItems, PersistenceInv, PersistenceTypeOK,
     Within, KeysIn
<1>5. ASSUME s \notin disturbed PROVE fileState' = "whole" /\ fileItems' = intended'
  <2>1. everHeld[s] = Pairs(initially[s]) /\ alwaysHeld[s] = KeysIn(initially[s])
    BY <1>5 DEF WriteItems, PersistenceInv, EncodingsAreWhole
  <2>2. ~MayMiss(s)
    BY <2>1, KeysAreFinite DEF MayMiss
  <2>3. fileState' = "whole" /\ fileItems' \in EncodedItems(s)
    BY <2>2 DEF WriteItems
  <2>4. fileItems' = initially[s]
    BY <1>1, <2>1, <2>3, AsManyAreAll DEF EncodedItems
  <2> QED
    BY <2>3, <2>4 DEF WriteItems
<1>6. \A t \in Savers : savePc[t] = "created" => savePc'[t] = "created"
  BY DEF WriteItems, SaveEnds, PersistenceInv, PersistenceTypeOK
<1>7. ~NobodySaves /\ cacheUp' = cacheUp /\ fileTypes' = fileTypes
  BY DEF WriteItems, SaveEnds, NobodySaves
<1>8. fileState' \in {"whole", "torn"} /\ (~spoilt' => ~spoilt /\ s \notin disturbed)
  BY DEF WriteItems
<1>9. cacheUp /\ fileState # "none" /\ cacheUp'
  BY <1>7 DEF PersistenceInv, FileIsOnItsWay
<1>10. ASSUME ~spoilt', ~fileTypes' PROVE \E t \in Savers : savePc'[t] = "created"
  BY <1>6, <1>7, <1>8, <1>9, <1>10 DEF PersistenceInv, FileIsOnItsWay
<1>11. FileIsOnItsWay'
  BY <1>5, <1>8, <1>9, <1>10 DEF FileIsOnItsWay
<1> QED
  BY <1>2, <1>4, <1>11, SaveEndsTypes DEF PersistenceInv

\* A failing save preserves it.
LEMMA PersistenceFailure ==
  ASSUME PersistenceInv, NEW s \in Savers, SaveFails(s)
  PROVE  PersistenceInv'
<1>1. SaveEnds(s) /\ spoilt' = TRUE
  BY DEF SaveFails
<1>2. PersistenceTypeOK'
  BY <1>1, SaveEndsTypes, NothingIsAMap DEF SaveFails, PersistenceInv, PersistenceTypeOK,
     Within, KeysIn
<1>3. ~NobodySaves /\ cacheUp' = cacheUp /\ fileState' \in {fileState, "torn"}
  BY DEF SaveFails, SaveEnds, NobodySaves
<1>4. FileIsOnItsWay'
  BY <1>1, <1>3 DEF PersistenceInv, FileIsOnItsWay
<1> QED
  BY <1>1, <1>2, <1>4, SaveEndsTypes DEF PersistenceInv

\* So do the end of the process, a start, and the operator.
LEMMA PersistenceRestart ==
  ASSUME PersistenceInv, ProcessEnds \/ NewLoads \/ OperatorRemovesCacheFile
  PROVE  PersistenceInv'
<1>1. CASE ProcessEnds
  <2>1. PersistenceTypeOK'
    BY <1>1, NothingIsAMap DEF ProcessEnds, PersistenceInv, PersistenceTypeOK, Within, KeysIn
  <2>2. EncodingsAreWhole' /\ NobodySaves'
    BY <1>1 DEF ProcessEnds, EncodingsAreWhole, NobodySaves
  <2>3. FileIsOnItsWay'
    BY <1>1, <2>2 DEF ProcessEnds, PersistenceInv, FileIsOnItsWay, NobodySaves
  <2> QED
    BY <2>1, <2>2, <2>3 DEF PersistenceInv
<1>2. CASE NewLoads \/ OperatorRemovesCacheFile
  <2>1. PersistenceTypeOK'
    BY <1>2, NothingIsAMap DEF NewLoads, OperatorRemovesCacheFile, PersistenceInv,
       PersistenceTypeOK, fileVars, encodingVars, Within, KeysIn
  <2>2. EncodingsAreWhole'
    BY <1>2 DEF NewLoads, OperatorRemovesCacheFile, PersistenceInv, EncodingsAreWhole,
       encodingVars, Pairs, KeysIn
  <2>3. FileIsOnItsWay'
    BY <1>2 DEF NewLoads, OperatorRemovesCacheFile, PersistenceInv, FileIsOnItsWay,
       fileVars, NobodySaves
  <2> QED
    BY <2>1, <2>2, <2>3 DEF PersistenceInv
<1> QED
  BY <1>1, <1>2

\* Every step preserves it.
LEMMA PersistenceStep == PersistenceInv /\ [PersistenceNext]_persistenceVars => PersistenceInv'
<1> SUFFICES ASSUME PersistenceInv, [PersistenceNext]_persistenceVars PROVE PersistenceInv'
  OBVIOUS
<1>1. CASE UNCHANGED persistenceVars
  <2>1. PersistenceTypeOK'
    BY <1>1 DEF persistenceVars, fileVars, encodingVars, PersistenceInv, PersistenceTypeOK,
       KeysIn, Within
  <2>2. EncodingsAreWhole'
    BY <1>1 DEF persistenceVars, encodingVars, PersistenceInv, EncodingsAreWhole, Pairs, KeysIn
  <2>3. FileIsOnItsWay'
    BY <1>1 DEF persistenceVars, fileVars, PersistenceInv, FileIsOnItsWay, NobodySaves
  <2> QED
    BY <2>1, <2>2, <2>3 DEF PersistenceInv
<1>2. CASE PersistenceNext
  BY <1>2, PersistenceMapSteps, PersistenceSaveBegins, PersistenceWrite, PersistenceFailure,
     PersistenceRestart DEF PersistenceNext
<1> QED
  BY <1>1, <1>2

\* With nobody saving, the invariant is what the property says.
LEMMA PersistenceInvSaved == PersistenceInv => PersistenceTypeOK /\ SavedIsLoaded
  BY DEF PersistenceInv, PersistenceTypeOK, FileIsOnItsWay, SavedIsLoaded, Loads, NobodySaves

(* However saves overlap, and whether or not a Clear comes under them, New  *)
(* loads what the last save to write set out to save, within MaxItems;      *)
(* unless a save failed, was cut off, or met a Set or Invalidate while it   *)
(* encoded (apicache.go:229-259).                                           *)
THEOREM SavesAreLoaded == PersistenceSpec => [](PersistenceTypeOK /\ SavedIsLoaded)
<1>1. PersistenceSpec => []PersistenceInv
  BY PersistenceInit, PersistenceStep, PTL DEF PersistenceSpec
<1> QED
  BY <1>1, PersistenceInvSaved, PTL

-----------------------------------------------------------------------------
\* The components side by side.

ComponentsInv ==
  /\ UseInv /\ CompleterInv /\ LimiterInv /\ MapInv /\ RunnerInv /\ ServerInv /\ StoreInv
  /\ PersistenceInv

(* A step of one component is one of no other.                              *)
LEMMA PartsStep ==
  ASSUME [ComponentsNext]_allVars
  PROVE  /\ [Next]_vars /\ [CompleterNext]_completerVars /\ [LimiterNext]_limiterVars
         /\ [MapNext]_mapVars /\ [RunnerNext]_runnerVars /\ [ServerNext]_serverVars
         /\ [StoreNext]_storeVars /\ [PersistenceNext]_persistenceVars
BY DEF ComponentsNext, Rest, allVars

ComponentsSafe ==
  /\ ClosedBelowThreshold /\ WaitersAreNotStranded /\ AtMostTwoWindowsPerInterval
  /\ NoNeedlessWait /\ CallbacksSeeTheMap /\ ErrorsAreComplete /\ FailureIsNotSuccess
  /\ CountedAsAnswered /\ SavedIsListed /\ MetadataIsWhole /\ SavedIsLoaded

(* What holds of each component holds of all of them side by side, with any *)
(* constants: their types and their safety.                                 *)
THEOREM ComponentsHold == ComponentsSpec => [](ComponentsTypeOK /\ ComponentsSafe)
<1>1. ComponentsInit => ComponentsInv
  BY UseInvInit, CompleterInvInit, LimiterInit, MapInvInit, RunnerInvInit, ServerInvInit,
     StoreInvInit, PersistenceInit DEF ComponentsInit, ComponentsInv
<1>2. ComponentsInv /\ [ComponentsNext]_allVars => ComponentsInv'
  BY PartsStep, UseInvStep, CompleterInvStep, LimiterInvStep, MapInvStep, RunnerInvStep,
     ServerInvStep, StoreInvStep, PersistenceStep DEF ComponentsInv
<1>3. ASSUME ComponentsInv PROVE ComponentsTypeOK /\ ComponentsSafe
  <2>1. TypeOK /\ ClosedBelowThreshold
    BY <1>3 DEF ComponentsInv, UseInv
  <2>2. CompleterTypeOK /\ WaitersAreNotStranded
    BY <1>3 DEF ComponentsInv, CompleterInv, WaitersAreNotStranded, Waiting
  <2>3. LimiterTypeOK /\ AtMostTwoWindowsPerInterval /\ NoNeedlessWait
    BY <1>3, InvLimiterTypes, InvWindows, InvWaits DEF ComponentsInv
  <2>4. MapTypeOK /\ CallbacksSeeTheMap
    BY <1>3 DEF ComponentsInv, MapInv
  <2>5. RunnerTypeOK /\ ErrorsAreComplete
    BY <1>3, InvRunnerTypes, InvReturnsErrors DEF ComponentsInv, ErrorsAreComplete
  <2>6. ServerTypeOK /\ FailureIsNotSuccess /\ CountedAsAnswered
    <3>1. ServerInv
      BY <1>3 DEF ComponentsInv
    <3>2. ServerTypeOK /\ FailureIsNotSuccess
      BY <3>1 DEF ServerInv, RequestOK, NoFalseSuccess, FailureIsNotSuccess, Idle
    <3>3. CountedAsAnswered
      BY <3>1 DEF ServerInv, RequestOK, RightlyCounted, CountedAsAnswered, Idle
    <3> QED
      BY <3>2, <3>3
  <2>7. StoreTypeOK /\ SavedIsListed /\ MetadataIsWhole
    BY <1>3, InvMetadata DEF ComponentsInv, StoreInv, FileInv, SavedIsListed
  <2>8. PersistenceTypeOK /\ SavedIsLoaded
    BY <1>3, PersistenceInvSaved DEF ComponentsInv
  <2> QED
    BY <2>1, <2>2, <2>3, <2>4, <2>5, <2>6, <2>7, <2>8 DEF ComponentsTypeOK, ComponentsSafe
<1> QED
  BY <1>1, <1>2, <1>3, PTL DEF ComponentsSpec
=============================================================================
