------------------------------ MODULE ApiCache ------------------------------
(***************************************************************************)
(* The API cache of apicache/apicache.go with its circuit breaker: requests*)
(* that share one fetch per key, background refreshes of stale items, batch*)
(* fetches and warm-ups, least-recently-used eviction and invalidation.    *)
(*                                                                         *)
(* A step is what the code does under one lock, or one call it makes out.  *)
(* The source holds a version per key and a cached value is the version    *)
(* that was fetched; NoValue is the zero value of the item type.           *)
(***************************************************************************)
EXTENDS CircuitBreaker, FiniteSets

CONSTANTS
  Keys, EmptyKey,   \* cache keys; EmptyKey is the empty string
  Callers,          \* goroutines that call GetOrFetch
  Refreshers,       \* background goroutines, the bound on concurrent refreshes
  Batchers,         \* goroutines that call BatchGetOrFetch or WarmUp
  None,
  MaxVersion,       \* bound on the versions of the source
  TTL, Stale,       \* DefaultTTL and StaleTimeout, in ticks
  MaxItems,         \* Options.MaxItems
  UseBreaker,       \* whether Options.CircuitBreaker is given
  MayPanic          \* whether a caller's fetch function may panic

Goroutines == Callers \union Refreshers

ASSUME CacheAssumption ==
  /\ Callers \intersect Refreshers = {}
  /\ None \notin Keys \union Goroutines
  /\ MaxVersion \in Nat \ {0}
  /\ TTL \in Nat \ {0} /\ Stale \in Nat \ {0} /\ MaxItems \in Nat \ {0}
  /\ UseBreaker \in BOOLEAN /\ MayPanic \in BOOLEAN

NoValue == 0
Versions == 1..MaxVersion
Values == Versions \union {NoValue}

\* An item's age stands for its ExpiresAt and is saturated where a stale item
\* stops being usable.  coalesced records which of the writers stored it.
Item == [ver : Values, age : 0..(TTL + Stale), coalesced : BOOLEAN]
NoItem == [ver |-> NoValue, age |-> TTL + Stale, coalesced |-> FALSE]

VARIABLES
  source,     \* the current version of each key at the source
  healthy,    \* whether the source answers
  cached,     \* the keys of c.items
  items,      \* the item of each cached key, NoItem for the others
  older,      \* <<j, k>>: both cached, j last accessed before k (LastAccess)
  inflight,   \* c.inflight: the goroutine that fetches a key, or None
  go,         \* the goroutines in GetOrFetch or refresh
  batch       \* the goroutines in BatchGetOrFetch or WarmUp

cacheVars == <<cached, items, older>>
vars == <<breakerVars, source, healthy, cacheVars, inflight, go, batch>>

\* err and val are req.err and req.result while a goroutine leads a fetch;
\* leader is the goroutine whose request a follower waits for.
Idle == [pc |-> "idle", key |-> None, held |-> NoItem, val |-> NoValue,
         err |-> FALSE, leader |-> None]

LeadPC == {"fetch", "success", "failure", "store", "deregister"}
PC == LeadPC \union {"idle", "upgrade", "lookup", "decide", "coalesce",
                     "wait", "close", "restore", "served"}

Goroutine == [pc : PC, key : Keys \union {None}, held : Item, val : Values,
              err : BOOLEAN, leader : Goroutines \union {None}]

NoBatch == [pc |-> "idle", left |-> {}, missing |-> {},
            got |-> [k \in Keys |-> NoValue]]
Batch == [pc : {"idle", "lookup", "fetch", "store"}, left : SUBSET Keys,
          missing : SUBSET Keys, got : [Keys -> Values]]

TypeOK ==
  /\ BreakerTypeOK
  /\ source \in [Keys -> Versions]
  /\ healthy \in BOOLEAN
  /\ cached \in SUBSET Keys
  /\ items \in [Keys -> Item]
  /\ older \in SUBSET (Keys \X Keys)
  /\ inflight \in [Keys -> Goroutines \union {None}]
  /\ go \in [Goroutines -> Goroutine]
  /\ batch \in [Batchers -> Batch]

Init ==
  /\ NewCircuitBreaker
  /\ source = [k \in Keys |-> 1]
  /\ healthy \in BOOLEAN
  /\ cached = {} /\ items = [k \in Keys |-> NoItem] /\ older = {}
  /\ inflight = [k \in Keys |-> None]
  /\ go = [g \in Goroutines |-> Idle]
  /\ batch = [b \in Batchers |-> NoBatch]

-----------------------------------------------------------------------------
(* The map of items and its order of last access.                           *)

\* get refreshes LastAccess: k is now the most recently used key.
Touch(k) == {p \in older : p[1] # k} \union ((cached \ {k}) \X {k})

Lookup(k) ==
  /\ older' = IF k \in cached THEN Touch(k) ELSE older
  /\ UNCHANGED <<cached, items>>

\* evict deletes the key with the oldest access, unless it is the empty one:
\* the code takes the empty oldestKey for "no key".
Evicted ==
  {j \in cached : j # EmptyKey /\ \A i \in cached : <<i, j>> \notin older}

\* Mutated form: room is made only once the capacity has been passed.
PutAtCapacity(k, v, coalesced) ==
  LET gone == IF Cardinality(cached) > MaxItems THEN Evicted ELSE {}
      kept == cached \ (gone \union {k})
  IN /\ cached' = kept \union {k}
     /\ items' = [j \in Keys |->
          IF j = k THEN [ver |-> v, age |-> 0, coalesced |-> coalesced]
          ELSE IF j \in gone THEN NoItem ELSE items[j]]
     /\ older' = (older \intersect (kept \X kept)) \union (kept \X {k})

\* set: make room at capacity, whether or not k is cached already.
Put(k, v, coalesced) ==
  LET gone == IF Cardinality(cached) >= MaxItems THEN Evicted ELSE {}
      kept == cached \ (gone \union {k})
  IN /\ cached' = kept \union {k}
     /\ items' = [j \in Keys |->
          IF j = k THEN [ver |-> v, age |-> 0, coalesced |-> coalesced]
          ELSE IF j \in gone THEN NoItem ELSE items[j]]
     /\ older' = (older \intersect (kept \X kept)) \union (kept \X {k})

Delete(ks) ==
  /\ cached' = cached \ ks
  /\ items' = [j \in Keys |-> IF j \in ks THEN NoItem ELSE items[j]]
  /\ older' = {p \in older : p[1] \notin ks /\ p[2] \notin ks}

\* Mutated form: whatever is cached is served, nobody asks for its expiry.
FreshUnchecked(item) == TRUE

Fresh(item) == item.age < TTL
Usable(item) == item.age < TTL + Stale

-----------------------------------------------------------------------------
(* GetOrFetch and refresh.                                                  *)

Goto(g, from, to) ==
  /\ go[g].pc = from
  /\ go' = [go EXCEPT ![g] = [@ EXCEPT !.pc = to]]

Return(g) == go' = [go EXCEPT ![g] = Idle]

Serve(g) == go' = [go EXCEPT ![g] = [Idle EXCEPT !.pc = "served", !.val = go[g].held.ver]]

\* The call, and the first half of Allow: refused calls return ErrCircuitOpen.
GetOrFetch(g, k) ==
  /\ go[g].pc = "idle"
  /\ UseBreaker => ~Refuses
  /\ go' = [go EXCEPT ![g] = [@ EXCEPT
       !.pc = IF UseBreaker /\ MustUpgrade THEN "upgrade" ELSE "lookup",
       !.key = k]]
  /\ UNCHANGED <<breakerVars, source, healthy, cacheVars, inflight, batch>>

AllowUpgrade(g) ==
  /\ Goto(g, "upgrade", "lookup")
  /\ UpgradeToHalfOpen
  /\ UNCHANGED <<source, healthy, cacheVars, inflight, batch>>

Get(g) ==
  LET k == go[g].key IN
  /\ go[g].pc = "lookup"
  /\ Lookup(k)
  /\ go' = [go EXCEPT ![g] = [@ EXCEPT
       !.pc = IF k \in cached THEN "decide" ELSE "coalesce",
       !.held = items[k]]]
  /\ UNCHANGED <<breakerVars, source, healthy, inflight, batch>>

ServeFresh(g) ==
  /\ go[g].pc = "decide" /\ Fresh(go[g].held)
  /\ Serve(g)
  /\ UNCHANGED <<breakerVars, source, healthy, cacheVars, inflight, batch>>

\* A stale item is served while another goroutine, r, refreshes it.
ServeStale(g, r) ==
  /\ go[g].pc = "decide" /\ ~Fresh(go[g].held) /\ Usable(go[g].held)
  /\ go[r].pc = "idle"
  /\ go' = [go EXCEPT
       ![g] = [Idle EXCEPT !.pc = "served", !.val = go[g].held.ver],
       ![r] = [Idle EXCEPT !.pc = "coalesce", !.key = go[g].key]]
  /\ UNCHANGED <<breakerVars, source, healthy, cacheVars, inflight, batch>>

TooOld(g) ==
  /\ go[g].pc = "decide" /\ ~Usable(go[g].held)
  /\ go' = [go EXCEPT ![g] = [@ EXCEPT !.pc = "coalesce", !.held = NoItem]]
  /\ UNCHANGED <<breakerVars, source, healthy, cacheVars, inflight, batch>>

\* Under inflightMu: wait for the fetch in flight, or register one.
Follow(g) ==
  LET k == go[g].key IN
  /\ go[g].pc = "coalesce" /\ inflight[k] # None
  /\ go' = [go EXCEPT ![g] = [@ EXCEPT !.pc = "wait", !.leader = inflight[k]]]
  /\ UNCHANGED <<breakerVars, source, healthy, cacheVars, inflight, batch>>

\* Mutated form: the table is not looked at again before registering.
LeadUnchecked(g) ==
  LET k == go[g].key IN
  /\ Goto(g, "coalesce", "fetch")
  /\ inflight' = [inflight EXCEPT ![k] = g]
  /\ UNCHANGED <<breakerVars, source, healthy, cacheVars, batch>>

Lead(g) ==
  LET k == go[g].key IN
  /\ Goto(g, "coalesce", "fetch")
  /\ inflight[k] = None
  /\ inflight' = [inflight EXCEPT ![k] = g]
  /\ UNCHANGED <<breakerVars, source, healthy, cacheVars, batch>>

\* ctx.Done in the follower's select; a refresh runs under Background.
Cancel(g) ==
  /\ go[g].pc = "wait" /\ g \in Callers
  /\ Return(g)
  /\ UNCHANGED <<breakerVars, source, healthy, cacheVars, inflight, batch>>

\* Mutated form: the entry leaves the table when the fetch returns, not when
\* its value has been stored.
FetchReturnsAndDeregisters(g) ==
  /\ go[g].pc = "fetch"
  /\ go' = [go EXCEPT ![g] = [@ EXCEPT
       !.pc = IF UseBreaker THEN "success" ELSE "store",
       !.val = source[go[g].key]]]
  /\ inflight' = [inflight EXCEPT ![go[g].key] = None]
  /\ UNCHANGED <<breakerVars, source, healthy, cacheVars, batch>>

\* The fetch function returns the version the source has at some moment of
\* the call, returns an error (its context may be cancelled too), or panics.
FetchReturns(g) ==
  /\ go[g].pc = "fetch"
  /\ go' = [go EXCEPT ![g] = [@ EXCEPT
       !.pc = IF UseBreaker THEN "success" ELSE "store",
       !.val = source[go[g].key]]]
  /\ UNCHANGED <<breakerVars, source, healthy, cacheVars, inflight, batch>>

FetchFails(g) ==
  /\ go[g].pc = "fetch" /\ ~healthy
  /\ go' = [go EXCEPT ![g] = [@ EXCEPT
       !.pc = IF UseBreaker THEN "failure" ELSE "deregister",
       !.err = TRUE]]
  /\ UNCHANGED <<breakerVars, source, healthy, cacheVars, inflight, batch>>

\* The deferred clean-up runs with req.result and req.err as they were made.
FetchPanics(g) ==
  /\ MayPanic /\ g \in Callers
  /\ Goto(g, "fetch", "deregister")
  /\ UNCHANGED <<breakerVars, source, healthy, cacheVars, inflight, batch>>

RecordSuccess(g) ==
  /\ Goto(g, "success", "store")
  /\ Success
  /\ UNCHANGED <<source, healthy, cacheVars, inflight, batch>>

\* Mutated form: the missing return, a failed fetch goes on to be stored.
RecordFailureAndStore(g) ==
  /\ Goto(g, "failure", "store")
  /\ Failure
  /\ UNCHANGED <<source, healthy, cacheVars, inflight, batch>>

RecordFailure(g) ==
  /\ Goto(g, "failure", "deregister")
  /\ Failure
  /\ UNCHANGED <<source, healthy, cacheVars, inflight, batch>>

Store(g) ==
  /\ Goto(g, "store", "deregister")
  /\ Put(go[g].key, go[g].val, TRUE)
  /\ UNCHANGED <<breakerVars, source, healthy, inflight, batch>>

Deregister(g) ==
  /\ Goto(g, "deregister", "close")
  /\ inflight' = [inflight EXCEPT ![go[g].key] = None]
  /\ UNCHANGED <<breakerVars, source, healthy, cacheVars, batch>>

\* What goroutine h gets of the finished request of leader g.  A refresh goes
\* on to store the value a second time; a leader whose fetch panicked does not
\* return a value, its followers do.
Received(h, g) ==
  IF go[g].err \/ (h = g /\ go[g].val = NoValue) THEN Idle
  ELSE IF h \in Refreshers
       THEN [Idle EXCEPT !.pc = "restore", !.key = go[h].key, !.val = go[g].val]
       ELSE [Idle EXCEPT !.pc = "served", !.val = go[g].val]

Waits(h, g) == go[h].pc = "wait" /\ go[h].leader = g

\* Mutated form: the channel is closed only after a fetch without error.
CloseDoneOnSuccess(g) ==
  /\ go[g].pc = "close"
  /\ go' = [h \in Goroutines |->
              IF h = g \/ (Waits(h, g) /\ ~go[g].err) THEN Received(h, g) ELSE go[h]]
  /\ UNCHANGED <<breakerVars, source, healthy, cacheVars, inflight, batch>>

\* close(req.done): the leader returns, and every follower with it.
CloseDone(g) ==
  /\ go[g].pc = "close"
  /\ go' = [h \in Goroutines |->
              IF h = g \/ Waits(h, g) THEN Received(h, g) ELSE go[h]]
  /\ UNCHANGED <<breakerVars, source, healthy, cacheVars, inflight, batch>>

Restore(g) ==
  /\ go[g].pc = "restore"
  /\ Put(go[g].key, go[g].val, FALSE)
  /\ Return(g)
  /\ UNCHANGED <<breakerVars, source, healthy, inflight, batch>>

EndCall(g) ==
  /\ go[g].pc = "served"
  /\ Return(g)
  /\ UNCHANGED <<breakerVars, source, healthy, cacheVars, inflight, batch>>

-----------------------------------------------------------------------------
(* BatchGetOrFetch and WarmUp: neither the breaker nor the coalescing.      *)

BatchGetOrFetch(b, ks) ==
  /\ batch[b].pc = "idle"
  /\ batch' = [batch EXCEPT ![b] = [@ EXCEPT !.pc = "lookup", !.left = ks]]
  /\ UNCHANGED <<breakerVars, source, healthy, cacheVars, inflight, go>>

WarmUp(b, ks) ==
  /\ batch[b].pc = "idle"
  /\ batch' = [batch EXCEPT ![b] = [@ EXCEPT !.pc = "fetch", !.missing = ks]]
  /\ UNCHANGED <<breakerVars, source, healthy, cacheVars, inflight, go>>

BatchGet(b, k) ==
  LET hit == k \in cached /\ Fresh(items[k])
      missing == IF hit THEN batch[b].missing ELSE batch[b].missing \union {k}
      left == batch[b].left \ {k}
  IN /\ batch[b].pc = "lookup" /\ k \in batch[b].left
     /\ Lookup(k)
     /\ batch' = [batch EXCEPT ![b] =
          IF left # {} THEN [@ EXCEPT !.left = left, !.missing = missing]
          ELSE IF missing # {} THEN [NoBatch EXCEPT !.pc = "fetch", !.missing = missing]
          ELSE NoBatch]
     /\ UNCHANGED <<breakerVars, source, healthy, inflight, go>>

BatchFetchReturns(b) ==
  /\ batch[b].pc = "fetch"
  /\ batch' = [batch EXCEPT ![b] =
       [NoBatch EXCEPT !.pc = "store", !.left = batch[b].missing,
         !.got = [k \in Keys |-> IF k \in batch[b].missing THEN source[k] ELSE NoValue]]]
  /\ UNCHANGED <<breakerVars, source, healthy, cacheVars, inflight, go>>

BatchFetchFails(b) ==
  /\ batch[b].pc = "fetch" /\ ~healthy
  /\ batch' = [batch EXCEPT ![b] = NoBatch]
  /\ UNCHANGED <<breakerVars, source, healthy, cacheVars, inflight, go>>

BatchStore(b, k) ==
  LET left == batch[b].left \ {k}
  IN /\ batch[b].pc = "store" /\ k \in batch[b].left
     /\ Put(k, batch[b].got[k], FALSE)
     /\ batch' = [batch EXCEPT ![b] =
          IF left = {} THEN NoBatch
          ELSE [@ EXCEPT !.left = left, !.got[k] = NoValue]]
     /\ UNCHANGED <<breakerVars, source, healthy, inflight, go>>

-----------------------------------------------------------------------------
(* The other operations, and the environment.                               *)

Invalidate(k) ==
  /\ k \in cached
  /\ Delete({k})
  /\ UNCHANGED <<breakerVars, source, healthy, inflight, go, batch>>

Clear ==
  /\ cached # {}
  /\ Delete(Keys)
  /\ UNCHANGED <<breakerVars, source, healthy, inflight, go, batch>>

ResetBreaker ==
  /\ UseBreaker
  /\ Reset
  /\ UNCHANGED <<source, healthy, cacheVars, inflight, go, batch>>

Aged(item) == [item EXCEPT !.age = IF item.age < TTL + Stale THEN @ + 1 ELSE @]

Tick ==
  /\ IF UseBreaker THEN BreakerTick ELSE UNCHANGED breakerVars
  /\ items' = [k \in Keys |-> Aged(items[k])]
  /\ go' = [g \in Goroutines |-> [go[g] EXCEPT !.held = Aged(go[g].held)]]
  /\ UNCHANGED <<source, healthy, cached, older, inflight, batch>>

SourceUpdate(k) ==
  /\ source[k] < MaxVersion
  /\ source' = [source EXCEPT ![k] = @ + 1]
  /\ UNCHANGED <<breakerVars, healthy, cacheVars, inflight, go, batch>>

SourceChanges ==
  /\ healthy' = ~healthy
  /\ UNCHANGED <<breakerVars, source, cacheVars, inflight, go, batch>>

-----------------------------------------------------------------------------
LeaderStep(g) ==
  \/ FetchReturns(g) \/ FetchFails(g) \/ FetchPanics(g)
  \/ RecordSuccess(g) \/ RecordFailure(g)
  \/ Store(g) \/ Deregister(g) \/ CloseDone(g) \/ Restore(g)

CallerStep(g) ==
  \/ AllowUpgrade(g) \/ Get(g)
  \/ ServeFresh(g) \/ (\E r \in Refreshers : ServeStale(g, r)) \/ TooOld(g)
  \/ EndCall(g)

CoalesceStep(g) == Follow(g) \/ Lead(g)

BatchStep(b) ==
  \/ \E k \in Keys : BatchGet(b, k) \/ BatchStore(b, k)
  \/ BatchFetchReturns(b) \/ BatchFetchFails(b)

Next ==
  \/ \E g \in Callers :
       (\E k \in Keys : GetOrFetch(g, k)) \/ CallerStep(g) \/ Cancel(g)
  \/ \E g \in Goroutines : CoalesceStep(g) \/ LeaderStep(g)
  \/ \E b \in Batchers :
       (\E ks \in (SUBSET Keys) \ {{}} : BatchGetOrFetch(b, ks) \/ WarmUp(b, ks))
       \/ BatchStep(b)
  \/ \E k \in Keys : Invalidate(k) \/ SourceUpdate(k)
  \/ Clear \/ ResetBreaker \/ Tick \/ SourceChanges

(* The scheduler runs every goroutine that can run, a fetch returns, time   *)
(* passes, and each caller keeps asking for each key.                       *)
Fairness ==
  /\ WF_vars(Tick)
  /\ \A g \in Callers :
       /\ WF_vars(CallerStep(g))
       /\ \A k \in Keys : SF_vars(GetOrFetch(g, k))
  /\ \A g \in Goroutines : WF_vars(CoalesceStep(g)) /\ WF_vars(LeaderStep(g))

Spec == Init /\ [][Next]_vars /\ Fairness

-----------------------------------------------------------------------------
(* Coalescing: a key has at most one fetch in flight through                *)
(* fetchWithCoalescing, from its registration to its removal.               *)
SingleFlight ==
  \A g, h \in Goroutines :
    go[g].pc \in LeadPC /\ go[h].pc \in LeadPC /\ go[g].key = go[h].key => g = h

(* A follower never waits on a channel nobody will close: the goroutine     *)
(* whose request it joined is still leading a fetch of the same key, or is  *)
(* about to close that request's channel.                                   *)
WaiterHasLeader ==
  \A h \in Goroutines : go[h].pc = "wait" =>
    \E g \in Goroutines :
      /\ g = go[h].leader /\ go[g].key = go[h].key
      /\ go[g].pc \in LeadPC \union {"close"}

(* A call that returns without an error returns a value that was fetched    *)
(* (GetOrFetch: from the cache, "falling back to fetching from source",     *)
(* apicache.go:155), and the cache holds only such values.                  *)
SuccessMeansFetched ==
  /\ \A g \in Goroutines : go[g].pc \in {"served", "store", "restore"} => go[g].val # NoValue
  /\ \A k \in cached : items[k].ver # NoValue

(* The cache grows past MaxItems only when the least recently used key is   *)
(* the empty one, which evict cannot tell from "nothing to evict".          *)
GrowsPastMaxItemsOnlyBehindEmptyKey ==
  [][Cardinality(cached') > Cardinality(cached) /\ Cardinality(cached) >= MaxItems
       => /\ EmptyKey \in cached
          /\ \A k \in cached \ {EmptyKey} : <<EmptyKey, k>> \in older]_vars

(* Coalesced fetches of a key take effect in the order of the source: a     *)
(* cached version is replaced by an older one only if the write bypasses    *)
(* the coalescing (the second set of refresh, a batch, a warm-up) or the    *)
(* item it replaces was stored by such a write.                             *)
RollbackOnlyAroundCoalescing ==
  [][\A k \in cached \intersect cached' :
       items'[k].ver < items[k].ver /\ items'[k].ver # NoValue
         => ~items'[k].coalesced \/ ~items[k].coalesced]_vars

(* A waiting request is answered, whatever becomes of its leader's fetch.   *)
WaiterReturns ==
  \A g \in Goroutines : go[g].pc = "wait" ~> go[g].pc # "wait"

(* When the source stays healthy and callers keep calling, the circuit      *)
(* closes for good, although probes may be answered by the cache, fetches   *)
(* are shared and refreshes do not ask the breaker.                         *)
CircuitRecovers == <>[]healthy => <>[](state = "closed")

(* The cache catches up with its source: when the values have changed for   *)
(* the last time, to which MaxVersion brings them, and the source stays     *)
(* healthy, the cache comes to hold nothing else, if callers keep asking.   *)
(* On the way there a stale item is still served, fetches and the second    *)
(* set of a refresh store what the source had before, the store of a fetch  *)
(* in flight undoes an invalidation, and an open circuit or a lost probe    *)
(* keeps callers away.                                                      *)
CatchesUp ==
  <>[]healthy => <>[](\A k \in cached : items[k].ver = source[k])
=============================================================================
