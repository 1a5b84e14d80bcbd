--------------------------- MODULE ApiCache_proofs --------------------------
(***************************************************************************)
(* Type correctness and the coalescing of the API cache, for any number of *)
(* keys, callers, refreshers and batches.                                  *)
(***************************************************************************)
EXTENDS ApiCache, CircuitBreaker_proofs, FiniteSetTheorems

\* The table of requests in flight is exact: a key is registered for the
\* goroutine that leads its fetch and for no other.
InflightExact ==
  \A g \in Goroutines, k \in Keys :
    inflight[k] = g <=> go[g].pc \in LeadPC /\ go[g].key = k

\* A goroutine that is inside a call has a key.
ActiveHasKey == \A g \in Goroutines : go[g].pc \notin {"idle", "served"} => go[g].key \in Keys

BusyPC == PC \ {"idle", "served"}

Inv ==
  /\ TypeOK
  /\ ClosedBelowThreshold
  /\ ActiveHasKey
  /\ InflightExact
  /\ WaiterHasLeader

\* SingleFlight is the reading of InflightExact that callers care about.
LEMMA ExactGivesSingleFlight == Inv => SingleFlight
<1> SUFFICES ASSUME Inv,
                    NEW g \in Goroutines, NEW h \in Goroutines,
                    go[g].pc \in LeadPC, go[h].pc \in LeadPC, go[g].key = go[h].key
             PROVE  g = h
  BY DEF SingleFlight
<1>1. go[g].key \in Keys
  BY DEF Inv, ActiveHasKey, LeadPC
<1>2. inflight[go[g].key] = g /\ inflight[go[g].key] = h
  BY <1>1 DEF Inv, InflightExact
<1>3. QED
  BY <1>2

\* The initial state satisfies the invariant.
LEMMA InvInit == Init => Inv
<1> SUFFICES ASSUME Init PROVE Inv
  OBVIOUS
<1>1. BreakerInv
  BY NewBreakerInv DEF Init
<1>2. NoItem \in Item
  BY CacheAssumption DEF NoItem, Item, Values
<1>3. Idle \in Goroutine
  BY <1>2 DEF Idle, Goroutine, PC, LeadPC, Values
<1>4. NoBatch \in Batch
  BY DEF NoBatch, Batch, Values
<1>5. TypeOK
  BY <1>1, <1>2, <1>3, <1>4, CacheAssumption DEF TypeOK, BreakerInv, Init, Versions
<1>6. ActiveHasKey /\ InflightExact /\ WaiterHasLeader
  BY CacheAssumption DEF Init, ActiveHasKey, InflightExact, WaiterHasLeader, Idle, LeadPC
<1>7. QED
  BY <1>1, <1>5, <1>6 DEF Inv, BreakerInv

-----------------------------------------------------------------------------
(* Type correctness: the map of items, the breaker, the goroutines.         *)

CacheTypeOK ==
  /\ cached \in SUBSET Keys
  /\ items \in [Keys -> Item]
  /\ older \in SUBSET (Keys \X Keys)

\* Every operation on the map of items keeps it well formed.
LEMMA PutTyped ==
  ASSUME CacheTypeOK, NEW k \in Keys, NEW v \in Values, NEW c \in BOOLEAN, Put(k, v, c)
  PROVE  CacheTypeOK'
<1>1. [ver |-> v, age |-> 0, coalesced |-> c] \in Item /\ NoItem \in Item
  BY CacheAssumption DEF Item, NoItem, Values
<1>2. QED
  BY <1>1 DEF CacheTypeOK, Put

\* Invalidate and Clear.
LEMMA DeleteTyped ==
  ASSUME CacheTypeOK, NEW ks \in SUBSET Keys, Delete(ks)
  PROVE  CacheTypeOK'
<1>1. NoItem \in Item
  BY CacheAssumption DEF Item, NoItem, Values
<1>2. QED
  BY <1>1 DEF CacheTypeOK, Delete

\* get moves its key to the recently used end.
LEMMA LookupTyped ==
  ASSUME CacheTypeOK, NEW k \in Keys, Lookup(k)
  PROVE  CacheTypeOK'
  BY DEF CacheTypeOK, Lookup, Touch

\* Ageing saturates.
LEMMA AgedTyped ==
  ASSUME NEW item \in Item
  PROVE  Aged(item) \in Item
  BY CacheAssumption DEF Aged, Item

\* What a step of the cache does to the breaker.
LEMMA NextStepsBreaker ==
  ASSUME Next
  PROVE  \/ UpgradeToHalfOpen \/ Success \/ Failure \/ Reset \/ BreakerTick
         \/ UNCHANGED breakerVars
  BY DEF Next, CallerStep, CoalesceStep, LeaderStep, BatchStep,
         GetOrFetch, AllowUpgrade, Get, ServeFresh, ServeStale, TooOld, Follow, Lead,
         Cancel, FetchReturns, FetchFails, FetchPanics, RecordSuccess, RecordFailure,
         Store, Deregister, CloseDone, Restore, EndCall, BatchGetOrFetch, WarmUp,
         BatchGet, BatchFetchReturns, BatchFetchFails, BatchStore, Invalidate, Clear,
         ResetBreaker, Tick, SourceUpdate, SourceChanges

\* What a step does to the map of items: it is left alone, or one of get, set
\* and delete runs on it, or time passes.
LEMMA NextCacheTyped ==
  ASSUME TypeOK, ActiveHasKey, Next
  PROVE  CacheTypeOK'
<1> USE DEF TypeOK, CacheTypeOK
<1>1. CASE UNCHANGED cacheVars
  BY <1>1 DEF cacheVars
<1>2. ASSUME NEW g \in Goroutines, Get(g) \/ Store(g) \/ Restore(g)
      PROVE  CacheTypeOK'
  <2>1. go[g].key \in Keys /\ go[g].val \in Values
    BY <1>2 DEF Get, Store, Restore, Goto, ActiveHasKey, Goroutine
  <2>2. QED
    BY <1>2, <2>1, PutTyped, LookupTyped DEF Get, Store, Restore
<1>3. ASSUME NEW b \in Batchers, NEW k \in Keys, BatchGet(b, k) \/ BatchStore(b, k)
      PROVE  CacheTypeOK'
  <2>1. batch[b].got[k] \in Values
    BY DEF Batch
  <2>2. QED
    BY <1>3, <2>1, PutTyped, LookupTyped DEF BatchGet, BatchStore
<1>4. ASSUME NEW k \in Keys, Invalidate(k) PROVE CacheTypeOK'
  BY <1>4, DeleteTyped DEF Invalidate
<1>5. CASE Clear
  BY <1>5, DeleteTyped DEF Clear
<1>6. CASE Tick
  BY <1>6, AgedTyped DEF Tick
<1>7. QED
  BY <1>1, <1>2, <1>3, <1>4, <1>5, <1>6
  DEF Next, CallerStep, CoalesceStep, LeaderStep, BatchStep, cacheVars, Goroutines,
      GetOrFetch, AllowUpgrade, ServeFresh, ServeStale, TooOld, Follow, Lead,
      Cancel, FetchReturns, FetchFails, FetchPanics, RecordSuccess, RecordFailure,
      Deregister, CloseDone, EndCall, BatchGetOrFetch, WarmUp,
      BatchFetchReturns, BatchFetchFails, ResetBreaker, SourceUpdate, SourceChanges

-----------------------------------------------------------------------------
(* Type correctness of the goroutines, the batches and the source.          *)

\* The idle records, and what a goroutine receives at the end of a request.
LEMMA RecordsTyped ==
  /\ NoItem \in Item
  /\ Idle \in Goroutine
  /\ NoBatch \in Batch
<1>1. NoItem \in Item
  BY CacheAssumption DEF NoItem, Item, Values
<1>2. QED
  BY <1>1 DEF Idle, Goroutine, PC, LeadPC, Values, NoBatch, Batch

\* A goroutine that moves on and learns something stays well typed.
LEMMA MoveTyped ==
  ASSUME NEW r \in Goroutine, NEW p \in PC
  PROVE  LET moved == [r EXCEPT !.pc = p] IN
         /\ moved \in Goroutine
         /\ \A k \in Keys : [moved EXCEPT !.key = k] \in Goroutine
         /\ \A i \in Item : [moved EXCEPT !.held = i] \in Goroutine
         /\ \A v \in Values : [moved EXCEPT !.val = v] \in Goroutine
         /\ \A e \in BOOLEAN : [moved EXCEPT !.err = e] \in Goroutine
         /\ \A l \in Goroutines : [moved EXCEPT !.leader = l] \in Goroutine
  BY DEF Goroutine

\* A step of GetOrFetch or refresh leaves every goroutine well typed.
LEMMA GoroutineTyped ==
  ASSUME TypeOK, ActiveHasKey, NEW g \in Goroutines,
         \/ \E k \in Keys : GetOrFetch(g, k)
         \/ AllowUpgrade(g) \/ Get(g) \/ ServeFresh(g) \/ TooOld(g) \/ EndCall(g)
         \/ Follow(g) \/ Lead(g) \/ Cancel(g)
         \/ FetchReturns(g) \/ FetchFails(g) \/ FetchPanics(g)
         \/ RecordSuccess(g) \/ RecordFailure(g)
         \/ Store(g) \/ Deregister(g) \/ Restore(g)
  PROVE  go' \in [Goroutines -> Goroutine]
<1>1. go \in [Goroutines -> Goroutine] /\ go[g] \in Goroutine
  BY DEF TypeOK
<1>2. go[g].held \in Item /\ go[g].held.ver \in Values
  BY <1>1 DEF Goroutine, Item
<1>3. {"upgrade", "lookup", "decide", "coalesce", "wait", "fetch", "success", "failure",
       "store", "deregister", "close", "served"} \subseteq PC
  BY DEF PC, LeadPC
<1>4. ASSUME NEW k \in Keys, GetOrFetch(g, k) PROVE go' \in [Goroutines -> Goroutine]
  <2> DEFINE to == IF UseBreaker /\ MustUpgrade THEN "upgrade" ELSE "lookup"
  <2>1. to \in PC
    BY <1>3
  <2>2. [go[g] EXCEPT !.pc = to, !.key = k] \in Goroutine
    BY <1>1, <2>1, MoveTyped
  <2>3. go' = [go EXCEPT ![g] = [go[g] EXCEPT !.pc = to, !.key = k]]
    BY <1>4 DEF GetOrFetch
  <2> HIDE DEF to
  <2>4. QED
    BY <1>1, <2>2, <2>3
<1>5. CASE AllowUpgrade(g) \/ Lead(g) \/ FetchPanics(g) \/ RecordSuccess(g)
           \/ RecordFailure(g) \/ Store(g) \/ Deregister(g)
  <2>1. \A p \in PC : [go[g] EXCEPT !.pc = p] \in Goroutine
    BY <1>1, MoveTyped
  <2>2. QED
    BY <1>1, <1>3, <1>5, <2>1
    DEF AllowUpgrade, Lead, FetchPanics, RecordSuccess, RecordFailure,
        Store, Deregister, Goto
<1>6. CASE Get(g)
  <2>1. go[g].pc = "lookup" /\ go[g].key \in Keys
    BY <1>6 DEF Get, ActiveHasKey
  <2>2. items[go[g].key] \in Item
    BY <2>1 DEF TypeOK
  <2>3. QED
    BY <1>1, <1>3, <1>6, <2>2, MoveTyped DEF Get
<1>7. CASE ServeFresh(g)
  <2>1. [Idle EXCEPT !.pc = "served", !.val = go[g].held.ver] \in Goroutine
    BY <1>2, <1>3, RecordsTyped, MoveTyped
  <2>2. QED
    BY <1>1, <1>7, <2>1 DEF ServeFresh, Serve
<1>8. CASE TooOld(g)
  BY <1>1, <1>3, <1>8, RecordsTyped, MoveTyped DEF TooOld
<1>9. CASE FetchFails(g)
  BY <1>1, <1>3, <1>9, MoveTyped DEF FetchFails
<1>10. CASE EndCall(g) \/ Cancel(g) \/ Restore(g)
  BY <1>1, <1>10, RecordsTyped DEF EndCall, Cancel, Restore, Return
<1>11. CASE Follow(g)
  <2>1. go[g].key \in Keys
    BY <1>11 DEF Follow, ActiveHasKey
  <2>2. inflight[go[g].key] \in Goroutines
    BY <1>11, <2>1 DEF Follow, TypeOK
  <2>3. QED
    BY <1>1, <1>3, <1>11, <2>2, MoveTyped DEF Follow
<1>12. CASE FetchReturns(g)
  <2>1. go[g].key \in Keys
    BY <1>12 DEF FetchReturns, ActiveHasKey
  <2>2. source[go[g].key] \in Values
    BY <2>1 DEF TypeOK, Values
  <2>3. QED
    BY <1>1, <1>3, <1>12, <2>2, MoveTyped DEF FetchReturns
<1>13. QED
  BY <1>4, <1>5, <1>6, <1>7, <1>8, <1>9, <1>10, <1>11, <1>12

\* So does a step that changes more than one goroutine.
LEMMA SharedStepTyped ==
  ASSUME TypeOK, ActiveHasKey, NEW g \in Goroutines,
         (\E r \in Refreshers : ServeStale(g, r)) \/ CloseDone(g) \/ Tick
  PROVE  go' \in [Goroutines -> Goroutine]
<1>1. go \in [Goroutines -> Goroutine] /\ go[g].held.ver \in Values
  BY DEF TypeOK, Goroutine, Item
<1>2. ASSUME NEW r \in Refreshers, ServeStale(g, r) PROVE go' \in [Goroutines -> Goroutine]
  <2>1. [Idle EXCEPT !.pc = "served", !.val = go[g].held.ver] \in Goroutine
    BY <1>1, RecordsTyped DEF Goroutine, PC
  <2>2. [Idle EXCEPT !.pc = "coalesce", !.key = go[g].key] \in Goroutine
    BY <1>1, RecordsTyped DEF Goroutine, PC
  <2>3. QED
    BY <1>1, <1>2, <2>1, <2>2 DEF ServeStale
<1>3. CASE CloseDone(g)
  <2>1. ASSUME NEW h \in Goroutines PROVE Received(h, g) \in Goroutine
    <3>1. go[h].key \in Keys \union {None} /\ go[g].val \in Values
      BY <1>1 DEF Goroutine
    <3>2. [Idle EXCEPT !.pc = "restore", !.key = go[h].key, !.val = go[g].val] \in Goroutine
      BY <3>1, RecordsTyped DEF Goroutine, PC
    <3>3. [Idle EXCEPT !.pc = "served", !.val = go[g].val] \in Goroutine
      BY <3>1, RecordsTyped DEF Goroutine, PC
    <3>4. QED
      BY <3>2, <3>3, RecordsTyped DEF Received
  <2>2. QED
    BY <1>1, <1>3, <2>1 DEF CloseDone
<1>4. CASE Tick
  <2>1. ASSUME NEW h \in Goroutines PROVE [go[h] EXCEPT !.held = Aged(go[h].held)] \in Goroutine
    <3>1. go[h] \in Goroutine /\ Aged(go[h].held) \in Item
      BY <1>1, AgedTyped DEF Goroutine
    <3>2. QED
      BY <3>1 DEF Goroutine
  <2>2. QED
    BY <1>4, <2>1 DEF Tick
<1>5. QED
  BY <1>2, <1>3, <1>4

\* Batches: what is still to do is a set of keys, what was fetched a value.
LEMMA BatchTyped ==
  ASSUME TypeOK, NEW b \in Batchers,
         \/ \E ks \in SUBSET Keys : BatchGetOrFetch(b, ks) \/ WarmUp(b, ks)
         \/ BatchStep(b)
  PROVE  batch' \in [Batchers -> Batch]
<1> USE RecordsTyped DEF Batch
<1>1. batch \in [Batchers -> Batch]
  BY DEF TypeOK
<1>2. ASSUME NEW ks \in SUBSET Keys, BatchGetOrFetch(b, ks) \/ WarmUp(b, ks)
      PROVE  batch' \in [Batchers -> Batch]
  <2>1. /\ [batch[b] EXCEPT !.pc = "lookup", !.left = ks] \in Batch
        /\ [batch[b] EXCEPT !.pc = "fetch", !.missing = ks] \in Batch
    BY <1>1
  <2>2. QED
    BY <1>1, <1>2, <2>1 DEF BatchGetOrFetch, WarmUp
<1>3. ASSUME NEW k \in Keys, BatchGet(b, k) PROVE batch' \in [Batchers -> Batch]
  BY <1>1, <1>3, SMTT(30), ZenonT(30) DEF BatchGet
<1>4. ASSUME NEW k \in Keys, BatchStore(b, k) PROVE batch' \in [Batchers -> Batch]
  BY <1>1, <1>4 DEF BatchStore, Values
<1>5. CASE BatchFetchReturns(b)
  <2>1. [k \in Keys |-> IF k \in batch[b].missing THEN source[k] ELSE NoValue]
          \in [Keys -> Values]
    BY DEF TypeOK, Values
  <2>2. QED
    BY <1>1, <1>5, <2>1 DEF BatchFetchReturns
<1>6. CASE BatchFetchFails(b)
  BY <1>1, <1>6 DEF BatchFetchFails
<1>7. QED
  BY <1>2, <1>3, <1>4, <1>5, <1>6 DEF BatchStep

-----------------------------------------------------------------------------
(* Coalescing.                                                              *)

Coordination == ActiveHasKey /\ InflightExact /\ WaiterHasLeader

\* A goroutine that neither leads a fetch nor starts to lead or to wait does
\* not disturb the others.
LEMMA LocalMove ==
  ASSUME TypeOK, Coordination, NEW g \in Goroutines, NEW r \in Goroutine,
         go[g].pc \notin LeadPC \union {"close"},
         r.pc \notin LeadPC \union {"wait"},
         r.pc \in {"idle", "served"} \/ r.key \in Keys,
         go' = [go EXCEPT ![g] = r],
         UNCHANGED inflight
  PROVE  Coordination'
<1>1. /\ go'[g] = r
      /\ \A h \in Goroutines \ {g} : go'[h] = go[h]
  BY DEF TypeOK
<1>2. ActiveHasKey'
  BY <1>1 DEF Coordination, ActiveHasKey
<1>3. InflightExact'
  BY <1>1 DEF Coordination, InflightExact
<1>4. WaiterHasLeader'
  BY <1>1 DEF Coordination, WaiterHasLeader
<1>5. QED
  BY <1>2, <1>3, <1>4 DEF Coordination

\* A leader that goes on leading keeps its registration and its followers.
LEMMA LeaderMove ==
  ASSUME TypeOK, Coordination, NEW g \in Goroutines, NEW r \in Goroutine,
         go[g].pc \in LeadPC, r.pc \in LeadPC, r.key = go[g].key,
         go' = [go EXCEPT ![g] = r],
         UNCHANGED inflight
  PROVE  Coordination'
<1>1. /\ go'[g] = r
      /\ \A h \in Goroutines \ {g} : go'[h] = go[h]
  BY DEF TypeOK
<1>2. ActiveHasKey'
  BY <1>1 DEF Coordination, ActiveHasKey, LeadPC
<1>3. InflightExact'
  BY <1>1 DEF Coordination, InflightExact
<1>4. WaiterHasLeader'
  BY <1>1 DEF Coordination, WaiterHasLeader, LeadPC
<1>5. QED
  BY <1>2, <1>3, <1>4 DEF Coordination

\* A goroutine that joins a fetch finds its leader registered for its key.
LEMMA FollowKeeps ==
  ASSUME TypeOK, Coordination, NEW g \in Goroutines, Follow(g)
  PROVE  Coordination'
<1> DEFINE l == inflight[go[g].key]
<1>1. go[g] \in Goroutine /\ go[g].pc = "coalesce" /\ go[g].key \in Keys
  BY DEF TypeOK, Follow, Coordination, ActiveHasKey
<1>2. l \in Goroutines /\ go[l].pc \in LeadPC /\ go[l].key = go[g].key
  BY <1>1 DEF TypeOK, Follow, Coordination, InflightExact
<1>3. /\ go'[g].pc = "wait" /\ go'[g].key = go[g].key /\ go'[g].leader = l
      /\ \A h \in Goroutines \ {g} : go'[h] = go[h]
      /\ inflight' = inflight
  BY <1>1 DEF TypeOK, Follow, Goroutine
<1> HIDE DEF l
<1>4. l # g
  BY <1>1, <1>2 DEF LeadPC
<1>5. ActiveHasKey'
  BY <1>1, <1>3 DEF Coordination, ActiveHasKey
<1>6. InflightExact'
  BY <1>1, <1>3 DEF Coordination, InflightExact, LeadPC
<1>7. WaiterHasLeader'
  BY <1>1, <1>2, <1>3, <1>4 DEF Coordination, WaiterHasLeader, LeadPC
<1>8. QED
  BY <1>5, <1>6, <1>7 DEF Coordination

\* A goroutine becomes the leader of a key that nobody leads.
LEMMA LeadKeeps ==
  ASSUME TypeOK, Coordination, NEW g \in Goroutines, Lead(g)
  PROVE  Coordination'
<1>1. go[g] \in Goroutine /\ go[g].pc = "coalesce" /\ go[g].key \in Keys
  BY DEF TypeOK, Lead, Goto, Coordination, ActiveHasKey
<1>2. /\ go'[g].pc = "fetch" /\ go'[g].key = go[g].key
      /\ \A h \in Goroutines \ {g} : go'[h] = go[h]
  BY <1>1 DEF TypeOK, Lead, Goto, Goroutine
<1>3. /\ inflight[go[g].key] = None
      /\ inflight'[go[g].key] = g
      /\ \A k \in Keys \ {go[g].key} : inflight'[k] = inflight[k]
  BY <1>1 DEF TypeOK, Lead
<1>4. \A h \in Goroutines : go[h].pc \in LeadPC => go[h].key # go[g].key
  BY <1>1, <1>3, CacheAssumption DEF Coordination, InflightExact
<1>5. ActiveHasKey'
  BY <1>1, <1>2 DEF Coordination, ActiveHasKey
<1>6. InflightExact'
  BY <1>1, <1>2, <1>3, <1>4 DEF Coordination, InflightExact, LeadPC
<1>7. WaiterHasLeader'
  BY <1>1, <1>2 DEF Coordination, WaiterHasLeader, LeadPC
<1>8. QED
  BY <1>5, <1>6, <1>7 DEF Coordination

\* A leader takes its entry out of the table and still owes its followers
\* the close of their channel.
LEMMA DeregisterKeeps ==
  ASSUME TypeOK, Coordination, NEW g \in Goroutines, Deregister(g)
  PROVE  Coordination'
<1>1. go[g] \in Goroutine /\ go[g].pc = "deregister" /\ go[g].key \in Keys
  BY DEF TypeOK, Deregister, Goto, Coordination, ActiveHasKey
<1>2. /\ go'[g].pc = "close" /\ go'[g].key = go[g].key
      /\ \A h \in Goroutines \ {g} : go'[h] = go[h]
  BY <1>1 DEF TypeOK, Deregister, Goto, Goroutine
<1>3. /\ inflight[go[g].key] = g
      /\ inflight'[go[g].key] = None
      /\ \A k \in Keys \ {go[g].key} : inflight'[k] = inflight[k]
  BY <1>1 DEF TypeOK, Deregister, Coordination, InflightExact, LeadPC
<1>4. ActiveHasKey'
  BY <1>1, <1>2 DEF Coordination, ActiveHasKey
<1>5. InflightExact'
  BY <1>1, <1>2, <1>3, CacheAssumption DEF Coordination, InflightExact, LeadPC
<1>6. WaiterHasLeader'
  BY <1>1, <1>2 DEF Coordination, WaiterHasLeader, LeadPC
<1>7. QED
  BY <1>4, <1>5, <1>6 DEF Coordination

\* The close releases every goroutine that waits for this request.
LEMMA CloseKeeps ==
  ASSUME TypeOK, Coordination, NEW g \in Goroutines, CloseDone(g)
  PROVE  Coordination'
<1>1. /\ go[g].pc = "close" /\ go[g].key \in Keys
      /\ inflight' = inflight
      /\ \A h \in Goroutines :
           go'[h] = IF h = g \/ Waits(h, g) THEN Received(h, g) ELSE go[h]
  BY DEF CloseDone, Coordination, ActiveHasKey
<1>2. ASSUME NEW h \in Goroutines, h = g \/ Waits(h, g)
      PROVE  /\ go'[h].pc \in {"idle", "served", "restore"}
             /\ go'[h].pc = "restore" => go'[h].key \in Keys
             /\ go[h].pc \notin LeadPC
  <2>1. go[h].pc \in {"wait", "close"} /\ go[h].key \in Keys
    BY <1>1, <1>2 DEF Waits, Coordination, ActiveHasKey
  <2>2. go'[h] = Received(h, g)
    BY <1>1, <1>2
  <2>3. QED
    BY <2>1, <2>2 DEF Received, Idle, LeadPC
<1>3. ActiveHasKey'
  BY <1>1, <1>2 DEF Coordination, ActiveHasKey
<1>4. InflightExact'
  BY <1>1, <1>2 DEF Coordination, InflightExact, LeadPC
<1>5. WaiterHasLeader'
  <2> SUFFICES ASSUME NEW h \in Goroutines, go'[h].pc = "wait"
               PROVE  \E l \in Goroutines :
                        /\ l = go'[h].leader /\ go'[l].key = go'[h].key
                        /\ go'[l].pc \in LeadPC \union {"close"}
    BY DEF WaiterHasLeader
  <2>1. h # g /\ ~Waits(h, g) /\ go'[h] = go[h]
    BY <1>1, <1>2
  <2>2. PICK l \in Goroutines :
          /\ l = go[h].leader /\ go[l].key = go[h].key
          /\ go[l].pc \in LeadPC \union {"close"}
    BY <2>1 DEF Coordination, WaiterHasLeader
  <2>3. l # g /\ ~Waits(l, g)
    BY <2>1, <2>2 DEF Waits, LeadPC
  <2>4. go'[l] = go[l]
    BY <1>1, <2>3
  <2>5. QED
    BY <2>1, <2>2, <2>4
<1>6. QED
  BY <1>3, <1>4, <1>5 DEF Coordination

\* Serving a stale item starts a goroutine that is not in the protocol yet.
LEMMA ServeStaleKeeps ==
  ASSUME TypeOK, Coordination, NEW g \in Goroutines, NEW r \in Refreshers, ServeStale(g, r)
  PROVE  Coordination'
<1>1. /\ r \in Goroutines /\ r # g
      /\ go[g].pc = "decide" /\ go[g].key \in Keys /\ go[r].pc = "idle"
      /\ inflight' = inflight
  BY DEF ServeStale, Goroutines, Coordination, ActiveHasKey
<1>2. /\ go'[g].pc = "served"
      /\ go'[r].pc = "coalesce" /\ go'[r].key = go[g].key
      /\ \A h \in Goroutines \ {g, r} : go'[h] = go[h]
  <2>1. /\ go'[g] = [Idle EXCEPT !.pc = "served", !.val = go[g].held.ver]
        /\ go'[r] = [Idle EXCEPT !.pc = "coalesce", !.key = go[g].key]
        /\ \A h \in Goroutines \ {g, r} : go'[h] = go[h]
    BY <1>1 DEF ServeStale, TypeOK
  <2>2. QED
    BY <2>1 DEF Idle
<1>3. ActiveHasKey'
  BY <1>1, <1>2 DEF Coordination, ActiveHasKey
<1>4. InflightExact'
  BY <1>1, <1>2 DEF Coordination, InflightExact, LeadPC
<1>5. WaiterHasLeader'
  BY <1>1, <1>2 DEF Coordination, WaiterHasLeader, LeadPC
<1>6. QED
  BY <1>3, <1>4, <1>5 DEF Coordination

\* A step that leaves every goroutine where it is.
LEMMA StandingStill ==
  ASSUME Coordination, UNCHANGED inflight,
         \A h \in Goroutines : /\ go'[h].pc = go[h].pc
                               /\ go'[h].key = go[h].key
                               /\ go'[h].leader = go[h].leader
  PROVE  Coordination'
  BY DEF Coordination, ActiveHasKey, InflightExact, WaiterHasLeader

\* The steps of one goroutine that take no part in the coalescing.
LEMMA LocalStepKeeps ==
  ASSUME TypeOK, Coordination, NEW g \in Goroutines,
         \/ \E k \in Keys : GetOrFetch(g, k)
         \/ AllowUpgrade(g) \/ Get(g) \/ ServeFresh(g) \/ TooOld(g) \/ EndCall(g)
         \/ Cancel(g) \/ Restore(g)
  PROVE  Coordination'
<1>1. go \in [Goroutines -> Goroutine] /\ go' \in [Goroutines -> Goroutine] /\ go[g] \in Goroutine
  BY GoroutineTyped DEF TypeOK, Coordination
<1>2. go[g].pc \notin {"idle", "served"} => go[g].key \in Keys
  BY DEF Coordination, ActiveHasKey
<1>3. ASSUME NEW r \in Goroutine, go' = [go EXCEPT ![g] = r],
             go[g].pc \notin LeadPC \union {"close"},
             r.pc \notin LeadPC \union {"wait"},
             r.pc \in {"idle", "served"} \/ r.key \in Keys,
             UNCHANGED inflight
      PROVE  Coordination'
  BY <1>3, LocalMove
<1>4. ASSUME NEW k \in Keys, GetOrFetch(g, k) PROVE Coordination'
  <2>1. /\ go'[g] \in Goroutine /\ go' = [go EXCEPT ![g] = go'[g]]
        /\ go'[g].pc \in {"upgrade", "lookup"} /\ go'[g].key = k
    <3> DEFINE to == IF UseBreaker /\ MustUpgrade THEN "upgrade" ELSE "lookup"
    <3>1. to \in {"upgrade", "lookup"}
      OBVIOUS
    <3>2. go' = [go EXCEPT ![g] = [go[g] EXCEPT !.pc = to, !.key = k]]
      BY <1>4 DEF GetOrFetch
    <3> HIDE DEF to
    <3>3. QED
      BY <1>1, <3>1, <3>2 DEF Goroutine
  <2>2. QED
    BY <1>3, <1>4, <2>1 DEF GetOrFetch, LeadPC
<1>5. CASE AllowUpgrade(g) \/ Get(g) \/ TooOld(g)
  <2>1. /\ go'[g] \in Goroutine /\ go' = [go EXCEPT ![g] = go'[g]]
        /\ go'[g].pc \in {"lookup", "decide", "coalesce"} /\ go'[g].key = go[g].key
        /\ go[g].pc \in {"upgrade", "lookup", "decide"}
        /\ UNCHANGED inflight
    <3>1. CASE AllowUpgrade(g)
      BY <1>1, <3>1 DEF AllowUpgrade, Goto, Goroutine
    <3>2. CASE Get(g)
      <4> DEFINE to == IF go[g].key \in cached THEN "decide" ELSE "coalesce"
                 it == items[go[g].key]
      <4>1. to \in {"decide", "coalesce"}
        OBVIOUS
      <4>2. go' = [go EXCEPT ![g] = [go[g] EXCEPT !.pc = to, !.held = it]]
        BY <3>2 DEF Get
      <4> HIDE DEF to, it
      <4>3. QED
        BY <1>1, <3>2, <4>1, <4>2 DEF Get, Goroutine
    <3>3. CASE TooOld(g)
      BY <1>1, <3>3 DEF TooOld, Goroutine
    <3>4. QED
      BY <1>5, <3>1, <3>2, <3>3
  <2>2. QED
    BY <1>2, <1>3, <2>1 DEF LeadPC
<1>6. CASE ServeFresh(g)
  <2>1. /\ go'[g] \in Goroutine /\ go' = [go EXCEPT ![g] = go'[g]]
        /\ go'[g].pc = "served" /\ go[g].pc = "decide" /\ UNCHANGED inflight
    BY <1>1, <1>6 DEF ServeFresh, Serve, Idle
  <2>2. QED
    BY <1>3, <2>1 DEF LeadPC
<1>7. CASE EndCall(g) \/ Cancel(g) \/ Restore(g)
  <2>1. /\ Idle.pc = "idle" /\ Idle \in Goroutine
        /\ go' = [go EXCEPT ![g] = Idle] /\ UNCHANGED inflight
        /\ go[g].pc \in {"served", "wait", "restore"}
    BY <1>7, RecordsTyped DEF EndCall, Cancel, Restore, Return, Idle
  <2>2. QED
    BY <1>3, <2>1 DEF LeadPC
<1>8. QED
  BY <1>4, <1>5, <1>6, <1>7

\* The steps of a leader between its registration and its removal.
LEMMA LeaderStepKeeps ==
  ASSUME TypeOK, Coordination, NEW g \in Goroutines,
         \/ FetchReturns(g) \/ FetchFails(g) \/ FetchPanics(g)
         \/ RecordSuccess(g) \/ RecordFailure(g) \/ Store(g)
  PROVE  Coordination'
<1>1. go \in [Goroutines -> Goroutine] /\ go' \in [Goroutines -> Goroutine] /\ go[g] \in Goroutine
  BY GoroutineTyped DEF TypeOK, Coordination
<1>2. /\ go'[g] \in Goroutine /\ go' = [go EXCEPT ![g] = go'[g]]
      /\ go[g].pc \in LeadPC /\ go'[g].pc \in LeadPC /\ go'[g].key = go[g].key
      /\ UNCHANGED inflight
  <2>1. CASE FetchReturns(g)
    <3> DEFINE to == IF UseBreaker THEN "success" ELSE "store"
               v == source[go[g].key]
    <3>1. to \in {"success", "store"}
      OBVIOUS
    <3>2. go' = [go EXCEPT ![g] = [go[g] EXCEPT !.pc = to, !.val = v]]
      BY <2>1 DEF FetchReturns
    <3> HIDE DEF to, v
    <3>3. QED
      BY <1>1, <2>1, <3>1, <3>2 DEF FetchReturns, Goroutine, LeadPC
  <2>2. CASE FetchFails(g)
    <3> DEFINE to == IF UseBreaker THEN "failure" ELSE "deregister"
    <3>1. to \in {"failure", "deregister"}
      OBVIOUS
    <3>2. go' = [go EXCEPT ![g] = [go[g] EXCEPT !.pc = to, !.err = TRUE]]
      BY <2>2 DEF FetchFails
    <3> HIDE DEF to
    <3>3. QED
      BY <1>1, <2>2, <3>1, <3>2 DEF FetchFails, Goroutine, LeadPC
  <2>3. CASE FetchPanics(g) \/ RecordSuccess(g) \/ RecordFailure(g) \/ Store(g)
    BY <1>1, <2>3, SMTT(30), ZenonT(30)
    DEF FetchPanics, RecordSuccess, RecordFailure, Store, Goto,
       Goroutine, LeadPC
  <2>4. QED
    BY <2>1, <2>2, <2>3
<1>3. QED
  BY <1>2, LeaderMove

\* Every step keeps the coordination of leaders and followers.
LEMMA NextKeepsCoordination == TypeOK /\ Coordination /\ Next => Coordination'
<1> SUFFICES ASSUME TypeOK, Coordination, Next PROVE Coordination'
  OBVIOUS
<1>1. ASSUME NEW g \in Callers,
             (\E k \in Keys : GetOrFetch(g, k)) \/ CallerStep(g) \/ Cancel(g)
      PROVE  Coordination'
  BY <1>1, LocalStepKeeps, ServeStaleKeeps DEF CallerStep, Goroutines
<1>2. ASSUME NEW g \in Goroutines, CoalesceStep(g) \/ LeaderStep(g) PROVE Coordination'
  BY <1>2, LocalStepKeeps, LeaderStepKeeps, FollowKeeps, LeadKeeps, DeregisterKeeps,
     CloseKeeps DEF CoalesceStep, LeaderStep
<1>3. CASE UNCHANGED <<go, inflight>>
  BY <1>3, StandingStill
<1>4. CASE Tick
  <2>1. ASSUME NEW h \in Goroutines
        PROVE  /\ go'[h].pc = go[h].pc /\ go'[h].key = go[h].key
               /\ go'[h].leader = go[h].leader
    <3>1. go[h] \in Goroutine /\ go'[h] = [go[h] EXCEPT !.held = Aged(go[h].held)]
      BY <1>4 DEF Tick, TypeOK
    <3>2. QED
      BY <3>1 DEF Goroutine
  <2>2. QED
    BY <1>4, <2>1, StandingStill DEF Tick
<1>5. QED
  BY <1>1, <1>2, <1>3, <1>4
  DEF Next, BatchStep, BatchGetOrFetch, WarmUp, BatchGet, BatchFetchReturns,
      BatchFetchFails, BatchStore, Invalidate, Clear, ResetBreaker, SourceUpdate,
      SourceChanges

-----------------------------------------------------------------------------
(* The invariant and the theorems.                                          *)

\* Every step keeps the goroutines, the batches and the source well typed.
LEMMA NextKeepsTypes == TypeOK /\ Coordination /\ ClosedBelowThreshold /\ Next
                          => TypeOK' /\ ClosedBelowThreshold'
<1> SUFFICES ASSUME TypeOK, Coordination, ClosedBelowThreshold, Next
             PROVE  TypeOK' /\ ClosedBelowThreshold'
  OBVIOUS
<1>1. BreakerInv'
  BY NextStepsBreaker, BreakerStepInv DEF TypeOK, BreakerInv
<1>2. CacheTypeOK'
  BY NextCacheTyped DEF Coordination
<1>3. go' \in [Goroutines -> Goroutine]
  <2>1. CASE UNCHANGED go
    BY <2>1 DEF TypeOK
  <2>2. ASSUME NEW g \in Callers,
               (\E k \in Keys : GetOrFetch(g, k)) \/ CallerStep(g) \/ Cancel(g)
        PROVE  go' \in [Goroutines -> Goroutine]
    BY <2>2, GoroutineTyped, SharedStepTyped DEF CallerStep, Goroutines, Coordination
  <2>3. ASSUME NEW g \in Goroutines, CoalesceStep(g) \/ LeaderStep(g)
        PROVE  go' \in [Goroutines -> Goroutine]
    BY <2>3, GoroutineTyped, SharedStepTyped DEF CoalesceStep, LeaderStep, Coordination
  <2>4. CASE Tick
    <3>1. ASSUME NEW h \in Goroutines PROVE [go[h] EXCEPT !.held = Aged(go[h].held)] \in Goroutine
      <4>1. go[h] \in Goroutine /\ Aged(go[h].held) \in Item
        BY AgedTyped DEF TypeOK, Goroutine
      <4>2. QED
        BY <4>1 DEF Goroutine
    <3>2. QED
      BY <2>4, <3>1 DEF Tick
  <2>5. QED
    BY <2>1, <2>2, <2>3, <2>4
    DEF Next, BatchStep, BatchGetOrFetch, WarmUp, BatchGet, BatchFetchReturns,
        BatchFetchFails, BatchStore, Invalidate, Clear, ResetBreaker, SourceUpdate,
        SourceChanges
<1>4. batch' \in [Batchers -> Batch]
  <2>1. CASE UNCHANGED batch
    BY <2>1 DEF TypeOK
  <2>2. ASSUME NEW b \in Batchers,
               \/ \E ks \in (SUBSET Keys) \ {{}} : BatchGetOrFetch(b, ks) \/ WarmUp(b, ks)
               \/ BatchStep(b)
        PROVE  batch' \in [Batchers -> Batch]
    BY <2>2, BatchTyped
  <2>3. QED
    BY <2>1, <2>2
    DEF Next, CallerStep, CoalesceStep, LeaderStep,
        GetOrFetch, AllowUpgrade, Get, ServeFresh, ServeStale, TooOld, Follow, Lead,
        Cancel, FetchReturns, FetchFails, FetchPanics, RecordSuccess, RecordFailure,
        Store, Deregister, CloseDone, Restore, EndCall, Invalidate, Clear,
        ResetBreaker, Tick, SourceUpdate, SourceChanges
<1>5. inflight' \in [Keys -> Goroutines \union {None}]
  <2>1. CASE UNCHANGED inflight
    BY <2>1 DEF TypeOK
  <2>2. ASSUME NEW g \in Goroutines, Lead(g) \/ Deregister(g)
        PROVE  inflight' \in [Keys -> Goroutines \union {None}]
    BY <2>2 DEF TypeOK, Lead, Deregister
  <2>3. QED
    BY <2>1, <2>2
    DEF Next, CallerStep, CoalesceStep, LeaderStep, BatchStep,
        GetOrFetch, AllowUpgrade, Get, ServeFresh, ServeStale, TooOld, Follow,
        Cancel, FetchReturns, FetchFails, FetchPanics, RecordSuccess, RecordFailure,
        Store, CloseDone, Restore, EndCall, BatchGetOrFetch, WarmUp,
        BatchGet, BatchFetchReturns, BatchFetchFails, BatchStore, Invalidate, Clear,
        ResetBreaker, Tick, SourceUpdate, SourceChanges
<1>6. source' \in [Keys -> Versions] /\ healthy' \in BOOLEAN
  <2>1. CASE UNCHANGED <<source, healthy>>
    BY <2>1 DEF TypeOK
  <2>2. ASSUME NEW k \in Keys, SourceUpdate(k)
        PROVE  source' \in [Keys -> Versions] /\ healthy' \in BOOLEAN
    BY <2>2, CacheAssumption DEF SourceUpdate, TypeOK, Versions
  <2>3. CASE SourceChanges
    BY <2>3 DEF SourceChanges, TypeOK
  <2>4. QED
    BY <2>1, <2>2, <2>3
    DEF Next, CallerStep, CoalesceStep, LeaderStep, BatchStep,
        GetOrFetch, AllowUpgrade, Get, ServeFresh, ServeStale, TooOld, Follow, Lead,
        Cancel, FetchReturns, FetchFails, FetchPanics, RecordSuccess, RecordFailure,
        Store, Deregister, CloseDone, Restore, EndCall, BatchGetOrFetch, WarmUp,
        BatchGet, BatchFetchReturns, BatchFetchFails, BatchStore, Invalidate, Clear,
        ResetBreaker, Tick
<1>7. QED
  BY <1>1, <1>2, <1>3, <1>4, <1>5, <1>6 DEF TypeOK, BreakerInv, CacheTypeOK

\* The invariant is inductive.
LEMMA InvNext == Inv /\ [Next]_vars => Inv'
<1>1. ASSUME Inv, UNCHANGED vars PROVE Inv'
  BY <1>1
  DEF vars, cacheVars, breakerVars, Inv, TypeOK, BreakerTypeOK, ClosedBelowThreshold,
      ActiveHasKey, InflightExact, WaiterHasLeader
<1>2. ASSUME Inv, Next PROVE Inv'
  BY <1>2, NextKeepsTypes, NextKeepsCoordination DEF Inv, Coordination
<1>3. QED
  BY <1>1, <1>2

\* The state of the cache, its goroutines and its breaker is well formed, for
\* every number of keys and goroutines, every capacity and every timeout.
THEOREM TypesCorrect == Spec => []TypeOK
<1>1. Inv => TypeOK
  BY DEF Inv
<1>2. QED
  BY InvInit, InvNext, <1>1, PTL DEF Spec

\* At most one goroutine fetches a key through fetchWithCoalescing, whatever
\* mixture of callers, refreshes, cancellations, errors and panics runs.
THEOREM FetchesAreCoalesced == Spec => []SingleFlight
  BY InvInit, InvNext, ExactGivesSingleFlight, PTL DEF Spec

\* No follower is left behind: the leader it waits for has yet to close the
\* channel of the request it joined, even when the fetch fails or panics.
THEOREM NoFollowerIsOrphaned == Spec => []WaiterHasLeader
<1>1. Inv => WaiterHasLeader
  BY DEF Inv
<1>2. QED
  BY InvInit, InvNext, <1>1, PTL DEF Spec

\* The breaker keeps its invariant inside the cache, where successes and
\* failures are reported by refreshes that never asked it for admission.
THEOREM BreakerInCacheSafe == Spec => []ClosedBelowThreshold
<1>1. Inv => ClosedBelowThreshold
  BY DEF Inv
<1>2. QED
  BY InvInit, InvNext, <1>1, PTL DEF Spec

-----------------------------------------------------------------------------
(* The order of access, and what evict finds in it.                         *)

\* The cached keys are finite and accessed one after the other, so that every
\* set of them has one that was accessed first.
OrderInv ==
  /\ IsFiniteSet(cached)
  /\ \A i, j \in cached : i # j => <<i, j>> \in older \/ <<j, i>> \in older
  /\ \A ks \in SUBSET cached : ks # {} =>
       \E j \in ks : \A i \in ks : <<i, j>> \notin older

\* What a step of the cache does to the cached keys: get, set or delete runs on
\* them, or they are left alone.
LEMMA CacheSteps ==
  ASSUME TypeOK, ActiveHasKey, [Next]_vars
  PROVE  \/ UNCHANGED <<cached, older>>
         \/ \E k \in Keys : Lookup(k) \/ \E v \in Values, c \in BOOLEAN : Put(k, v, c)
         \/ \E ks \in SUBSET Keys : Delete(ks)
<1>1. ASSUME NEW g \in Goroutines, Get(g)
      PROVE  \E k \in Keys : Lookup(k)
  BY <1>1 DEF Get, ActiveHasKey
<1>2. ASSUME NEW g \in Goroutines, Store(g) \/ Restore(g)
      PROVE  \E k \in Keys, v \in Values, c \in BOOLEAN : Put(k, v, c)
  <2>1. go[g].key \in Keys /\ go[g].val \in Values
    BY <1>2 DEF Store, Restore, Goto, ActiveHasKey, TypeOK, Goroutine
  <2>2. QED
    BY <1>2, <2>1 DEF Store, Restore
<1>3. ASSUME NEW b \in Batchers, NEW k \in Keys, BatchGet(b, k)
      PROVE  Lookup(k)
  BY <1>3 DEF BatchGet
<1>4. ASSUME NEW b \in Batchers, NEW k \in Keys, BatchStore(b, k)
      PROVE  \E v \in Values, c \in BOOLEAN : Put(k, v, c)
  <2>1. batch[b].got[k] \in Values
    BY DEF TypeOK, Batch
  <2>2. QED
    BY <1>4, <2>1 DEF BatchStore
<1>5. ASSUME NEW k \in Keys, Invalidate(k) PROVE \E ks \in SUBSET Keys : Delete(ks)
  BY <1>5 DEF Invalidate
<1>6. CASE Clear
  BY <1>6 DEF Clear
<1>7. CASE UNCHANGED <<cached, older>>
  BY <1>7
<1>8. QED
  BY <1>1, <1>2, <1>3, <1>4, <1>5, <1>6, <1>7
  DEF Next, CallerStep, CoalesceStep, LeaderStep, BatchStep, cacheVars, vars, Goroutines,
      GetOrFetch, AllowUpgrade, ServeFresh, ServeStale, TooOld, Follow, Lead,
      Cancel, FetchReturns, FetchFails, FetchPanics, RecordSuccess, RecordFailure,
      Deregister, CloseDone, EndCall, BatchGetOrFetch, WarmUp,
      BatchFetchReturns, BatchFetchFails, ResetBreaker, SourceUpdate, SourceChanges, Tick

\* A key that becomes the most recently used one is oldest only where it is
\* alone; every other set keeps the oldest of its other keys.
LEMMA YoungestKeepsOrder ==
  ASSUME OrderInv, NEW kept \in SUBSET cached, NEW k, k \notin kept,
         cached' = kept \union {k},
         \A i, j \in kept : <<i, j>> \in older' <=> <<i, j>> \in older,
         \A i \in kept : <<i, k>> \in older' /\ <<k, i>> \notin older',
         <<k, k>> \notin older'
  PROVE  OrderInv'
<1>1. IsFiniteSet(cached')
  BY FS_Subset, FS_AddElement DEF OrderInv
<1>2. \A i, j \in cached' : i # j => <<i, j>> \in older' \/ <<j, i>> \in older'
  BY DEF OrderInv
<1>3. ASSUME NEW ks \in SUBSET cached', ks # {}
      PROVE  \E j \in ks : \A i \in ks : <<i, j>> \notin older'
  <2>1. CASE ks = {k}
    BY <2>1
  <2>2. CASE ks # {k}
    <3>1. ks \ {k} \in SUBSET cached /\ ks \ {k} \subseteq kept /\ ks \ {k} # {}
      BY <1>3, <2>2
    <3>2. PICK j \in ks \ {k} : \A i \in ks \ {k} : <<i, j>> \notin older
      BY <3>1 DEF OrderInv
    <3>3. \A i \in ks : <<i, j>> \notin older'
      BY <3>1, <3>2
    <3>4. QED
      BY <3>2, <3>3
  <2>3. QED
    BY <2>1, <2>2
<1>4. QED
  BY <1>1, <1>2, <1>3 DEF OrderInv

\* get, set, evict, Invalidate and Clear keep the order.
LEMMA OrderStep == TypeOK /\ ActiveHasKey /\ OrderInv /\ [Next]_vars => OrderInv'
<1> SUFFICES ASSUME TypeOK, ActiveHasKey, OrderInv, [Next]_vars PROVE OrderInv'
  OBVIOUS
<1>1. CASE UNCHANGED <<cached, older>>
  BY <1>1 DEF OrderInv
<1>2. ASSUME NEW k \in Keys, Lookup(k) PROVE OrderInv'
  <2>1. CASE k \in cached
    <3>1. cached' = (cached \ {k}) \union {k} /\ older' = Touch(k)
      BY <1>2, <2>1 DEF Lookup
    <3>2. QED
      BY <3>1, YoungestKeepsOrder DEF Touch
  <2>2. CASE k \notin cached
    BY <1>2, <2>2 DEF Lookup, OrderInv
  <2>3. QED
    BY <2>1, <2>2
<1>3. ASSUME NEW k \in Keys, NEW v \in Values, NEW c \in BOOLEAN, Put(k, v, c)
      PROVE  OrderInv'
  <2> DEFINE gone == IF Cardinality(cached) >= MaxItems THEN Evicted ELSE {}
             kept == cached \ (gone \union {k})
  <2>1. /\ cached' = kept \union {k}
        /\ older' = (older \intersect (kept \X kept)) \union (kept \X {k})
    BY <1>3 DEF Put
  <2>2. kept \in SUBSET cached /\ k \notin kept
    OBVIOUS
  <2> HIDE DEF kept
  <2>3. /\ \A i, j \in kept : <<i, j>> \in older' <=> <<i, j>> \in older
        /\ \A i \in kept : <<i, k>> \in older' /\ <<k, i>> \notin older'
        /\ <<k, k>> \notin older'
    BY <2>1, <2>2
  <2>4. QED
    BY <2>1, <2>2, <2>3, YoungestKeepsOrder
<1>4. ASSUME NEW ks \in SUBSET Keys, Delete(ks) PROVE OrderInv'
  <2>1. /\ cached' \subseteq cached
        /\ \A i, j \in cached' : <<i, j>> \in older' <=> <<i, j>> \in older
    BY <1>4 DEF Delete
  <2>2. IsFiniteSet(cached')
    BY <2>1, FS_Subset DEF OrderInv
  <2>3. QED
    BY <2>1, <2>2 DEF OrderInv
<1>5. QED
  BY <1>1, <1>2, <1>3, <1>4, CacheSteps

\* A set that makes the cache larger than it may be has evicted nothing, and so
\* found the empty key as the oldest.
LEMMA GrowthStep ==
  ASSUME TypeOK, ActiveHasKey, OrderInv, [Next]_vars,
         Cardinality(cached') > Cardinality(cached), Cardinality(cached) >= MaxItems
  PROVE  /\ EmptyKey \in cached
         /\ \A k \in cached \ {EmptyKey} : <<EmptyKey, k>> \in older
<1>1. IsFiniteSet(cached) /\ Cardinality(cached) \in Nat
  BY FS_CardinalityType DEF OrderInv
<1>2. \A ks \in SUBSET cached : IsFiniteSet(ks) /\ Cardinality(ks) <= Cardinality(cached)
  BY <1>1, FS_Subset
<1>3. \A ks \in SUBSET cached : Cardinality(ks) \in Nat
  BY <1>2, FS_CardinalityType
<1>4. PICK k \in Keys, v \in Values, c \in BOOLEAN : Put(k, v, c)
  <2>1. cached' \notin SUBSET cached
    BY <1>1, <1>2, <1>3
  <2>2. QED
    BY <2>1, CacheSteps DEF Lookup, Delete
<1>5. cached' = (cached \ (Evicted \union {k})) \union {k}
  BY <1>4 DEF Put
<1>6. Evicted = {}
  <2>1. SUFFICES ASSUME NEW e \in Evicted PROVE FALSE
    OBVIOUS
  <2>2. e \in cached /\ Evicted \subseteq cached
    BY DEF Evicted
  <2>3. Cardinality(cached \ {e}) = Cardinality(cached) - 1
    BY <1>1, <2>2, FS_RemoveElement
  <2> DEFINE kept == cached \ (Evicted \union {k})
  <2>4. kept \in SUBSET cached /\ kept \subseteq cached \ {e}
    BY <2>2
  <2>5. IsFiniteSet(cached \ {e})
    BY <1>2
  <2>6. Cardinality(kept) <= Cardinality(cached) - 1 /\ Cardinality(kept) \in Nat
    BY <2>3, <2>4, <2>5, <1>3, FS_Subset
  <2>7. IsFiniteSet(kept) /\ cached' = kept \union {k}
    BY <2>4, <1>2, <1>5
  <2> HIDE DEF kept
  <2>8. IsFiniteSet(cached') /\ Cardinality(cached') <= Cardinality(kept) + 1
    BY <2>6, <2>7, FS_AddElement
  <2>9. Cardinality(cached') \in Nat
    BY <2>8, FS_CardinalityType
  <2> QED
    BY <1>1, <2>6, <2>8, <2>9
<1>7. cached # {}
  BY FS_EmptySet, CacheAssumption
<1>8. PICK j \in cached : \A i \in cached : <<i, j>> \notin older
  BY <1>7 DEF OrderInv
<1>9. j = EmptyKey
  BY <1>6, <1>8 DEF Evicted
<1>10. QED
  BY <1>8, <1>9 DEF OrderInv

\* The cache is larger than MaxItems only because evict mistook the empty key,
\* its least recently used one, for no key at all (apicache.go:358-405).
THEOREM CacheGrowsBehindEmptyKey == Spec => GrowsPastMaxItemsOnlyBehindEmptyKey
<1>1. Init => OrderInv
  BY FS_EmptySet DEF Init, OrderInv
<1>2. Inv /\ OrderInv /\ [Next]_vars => OrderInv'
  BY OrderStep DEF Inv
<1>3. Inv /\ OrderInv /\ [Next]_vars =>
        [Cardinality(cached') > Cardinality(cached) /\ Cardinality(cached) >= MaxItems
           => /\ EmptyKey \in cached
              /\ \A k \in cached \ {EmptyKey} : <<EmptyKey, k>> \in older]_vars
  BY GrowthStep DEF Inv
<1>4. QED
  BY InvInit, InvNext, <1>1, <1>2, <1>3, PTL DEF Spec, GrowsPastMaxItemsOnlyBehindEmptyKey

-----------------------------------------------------------------------------
(* What is stored and returned was fetched.                                 *)

\* A goroutine has a value from the return of its fetch on, or an error.
FetchedInv ==
  /\ \A k \in cached : items[k].ver # NoValue
  /\ \A g \in Goroutines :
       /\ go[g].pc \in {"success", "store", "restore", "served"} => go[g].val # NoValue
       /\ go[g].pc = "failure" => go[g].err
       /\ go[g].pc \in {"deregister", "close"} => go[g].err \/ go[g].val # NoValue
       /\ go[g].pc = "decide" => go[g].held.ver # NoValue
  /\ \A b \in Batchers : batch[b].pc = "store" =>
       \A k \in batch[b].left : batch[b].got[k] # NoValue

\* The items of the cached keys: a set stores a value that was fetched.
LEMMA ItemsFetched ==
  ASSUME TypeOK, ActiveHasKey, FetchedInv, [Next]_vars
  PROVE  \A k \in cached' : items'[k].ver # NoValue
<1> USE DEF FetchedInv
<1>1. CASE UNCHANGED <<cached, items>>
  BY <1>1
<1>2. ASSUME NEW k \in Keys, NEW v \in Values, v # NoValue, NEW c \in BOOLEAN, Put(k, v, c)
      PROVE  \A j \in cached' : items'[j].ver # NoValue
  <2> DEFINE gone == IF Cardinality(cached) >= MaxItems THEN Evicted ELSE {}
  <2>1. /\ cached' = (cached \ (gone \union {k})) \union {k}
        /\ items' = [j \in Keys |->
             IF j = k THEN [ver |-> v, age |-> 0, coalesced |-> c]
             ELSE IF j \in gone THEN NoItem ELSE items[j]]
    BY <1>2 DEF Put
  <2>2. cached \in SUBSET Keys
    BY DEF TypeOK
  <2> HIDE DEF gone
  <2>3. QED
    BY <1>2, <2>1, <2>2
<1>3. ASSUME NEW g \in Goroutines, Store(g) \/ Restore(g)
      PROVE  \A k \in cached' : items'[k].ver # NoValue
  <2>1. go[g].key \in Keys /\ go[g].val \in Values /\ go[g].val # NoValue
    BY <1>3 DEF Store, Restore, Goto, ActiveHasKey, TypeOK, Goroutine
  <2>2. QED
    BY <1>2, <1>3, <2>1 DEF Store, Restore
<1>4. ASSUME NEW b \in Batchers, NEW k \in Keys, BatchStore(b, k)
      PROVE  \A j \in cached' : items'[j].ver # NoValue
  <2>1. batch[b].got[k] \in Values /\ batch[b].got[k] # NoValue
    BY <1>4 DEF BatchStore, TypeOK, Batch
  <2>2. QED
    BY <1>2, <1>4, <2>1 DEF BatchStore
<1>5. ASSUME NEW ks \in SUBSET Keys, Delete(ks)
      PROVE  \A k \in cached' : items'[k].ver # NoValue
  BY <1>5 DEF Delete, TypeOK
<1>6. CASE Tick
  <2>1. \A k \in Keys : Aged(items[k]).ver = items[k].ver
    BY DEF Aged, TypeOK, Item
  <2>2. QED
    BY <1>6, <2>1 DEF Tick, TypeOK
<1>7. QED
  BY <1>1, <1>3, <1>4, <1>5, <1>6
  DEF Next, CallerStep, CoalesceStep, LeaderStep, BatchStep, cacheVars, vars, Goroutines,
      GetOrFetch, AllowUpgrade, Get, Lookup, ServeFresh, ServeStale, TooOld, Follow, Lead,
      Cancel, FetchReturns, FetchFails, FetchPanics, RecordSuccess, RecordFailure,
      Deregister, CloseDone, EndCall, BatchGetOrFetch, WarmUp, BatchGet,
      BatchFetchReturns, BatchFetchFails, ResetBreaker, SourceUpdate, SourceChanges,
      Invalidate, Clear

\* The values of the goroutines: nothing but a panic ends a fetch without a
\* value and without an error.
LEMMA GoroutinesFetched ==
  ASSUME ~MayPanic, TypeOK, ActiveHasKey, FetchedInv, Next
  PROVE  \A g \in Goroutines :
           /\ go'[g].pc \in {"success", "store", "restore", "served"} => go'[g].val # NoValue
           /\ go'[g].pc = "failure" => go'[g].err
           /\ go'[g].pc \in {"deregister", "close"} => go'[g].err \/ go'[g].val # NoValue
           /\ go'[g].pc = "decide" => go'[g].held.ver # NoValue
<1> DEFINE Good(x) ==
      /\ x.pc \in {"success", "store", "restore", "served"} => x.val # NoValue
      /\ x.pc = "failure" => x.err
      /\ x.pc \in {"deregister", "close"} => x.err \/ x.val # NoValue
      /\ x.pc = "decide" => x.held.ver # NoValue
<1> SUFFICES \A g \in Goroutines : Good(go'[g])
  OBVIOUS
<1>1. \A g \in Goroutines : Good(go[g])
  BY DEF FetchedInv
<1>2. go \in [Goroutines -> Goroutine]
  BY DEF TypeOK
<1>3. Good(Idle)
  BY DEF Idle
<1>4. ASSUME NEW g \in Goroutines, NEW x, Good(x), go' = [go EXCEPT ![g] = x]
      PROVE  \A h \in Goroutines : Good(go'[h])
  <2> HIDE DEF Good
  <2>1. QED
    BY <1>1, <1>2, <1>4
<1>5. ASSUME UNCHANGED go PROVE \A h \in Goroutines : Good(go'[h])
  BY <1>1, <1>5
<1>6. ASSUME NEW g \in Goroutines, NEW k \in Keys, GetOrFetch(g, k)
      PROVE  \A h \in Goroutines : Good(go'[h])
  BY <1>2, <1>4, <1>6 DEF GetOrFetch, Goroutine
<1>7. ASSUME NEW g \in Goroutines,
             AllowUpgrade(g) \/ Lead(g) \/ RecordSuccess(g) \/ RecordFailure(g)
             \/ Store(g) \/ Deregister(g)
      PROVE  \A h \in Goroutines : Good(go'[h])
  <2> DEFINE x(p) == [go[g] EXCEPT !.pc = p]
  <2>1. \A p : /\ x(p).pc = p /\ x(p).val = go[g].val
               /\ x(p).err = go[g].err /\ x(p).held = go[g].held
    <3>1. go[g] \in Goroutine
      BY <1>2
    <3>2. QED
      BY <3>1 DEF Goroutine
  <2>2. CASE AllowUpgrade(g)
    <3>1. Good(x("lookup"))
      BY <1>1, <2>1, <2>2 DEF AllowUpgrade, Goto
    <3>2. QED
      BY <1>4, <2>2, <3>1 DEF AllowUpgrade, Goto
  <2>3. CASE Lead(g)
    <3>1. Good(x("fetch"))
      BY <1>1, <2>1, <2>3 DEF Lead, Goto
    <3>2. QED
      BY <1>4, <2>3, <3>1 DEF Lead, Goto
  <2>4. CASE RecordSuccess(g)
    <3>1. Good(x("store"))
      BY <1>1, <2>1, <2>4 DEF RecordSuccess, Goto
    <3>2. QED
      BY <1>4, <2>4, <3>1 DEF RecordSuccess, Goto
  <2>5. CASE RecordFailure(g)
    <3>1. Good(x("deregister"))
      BY <1>1, <2>1, <2>5 DEF RecordFailure, Goto
    <3>2. QED
      BY <1>4, <2>5, <3>1 DEF RecordFailure, Goto
  <2>6. CASE Store(g)
    <3>1. Good(x("deregister"))
      BY <1>1, <2>1, <2>6 DEF Store, Goto
    <3>2. QED
      BY <1>4, <2>6, <3>1 DEF Store, Goto
  <2>7. CASE Deregister(g)
    <3>1. Good(x("close"))
      BY <1>1, <2>1, <2>7 DEF Deregister, Goto
    <3>2. QED
      BY <1>4, <2>7, <3>1 DEF Deregister, Goto
  <2>8. QED
    BY <1>7, <2>2, <2>3, <2>4, <2>5, <2>6, <2>7
<1>8. ASSUME NEW g \in Goroutines, Get(g)
      PROVE  \A h \in Goroutines : Good(go'[h])
  <2> DEFINE x == [go[g] EXCEPT !.pc = IF go[g].key \in cached THEN "decide" ELSE "coalesce",
                                !.held = items[go[g].key]]
  <2>1. Good(x)
    BY <1>2 DEF FetchedInv, Goroutine
  <2>2. go' = [go EXCEPT ![g] = x]
    BY <1>8 DEF Get
  <2>3. QED
    BY <1>4, <2>1, <2>2
<1>9. ASSUME NEW g \in Goroutines, ServeFresh(g) PROVE \A h \in Goroutines : Good(go'[h])
  <2>1. Good([Idle EXCEPT !.pc = "served", !.val = go[g].held.ver])
    BY <1>1, <1>9 DEF ServeFresh, Idle
  <2>2. QED
    BY <1>4, <1>9, <2>1 DEF ServeFresh, Serve
<1>10. ASSUME NEW g \in Goroutines, NEW r \in Refreshers, ServeStale(g, r)
       PROVE  \A h \in Goroutines : Good(go'[h])
  <2>1. Good([Idle EXCEPT !.pc = "served", !.val = go[g].held.ver])
    BY <1>1, <1>10 DEF ServeStale, Idle
  <2>2. Good([Idle EXCEPT !.pc = "coalesce", !.key = go[g].key])
    BY DEF Idle
  <2>3. go' = [go EXCEPT ![g] = [Idle EXCEPT !.pc = "served", !.val = go[g].held.ver],
                         ![r] = [Idle EXCEPT !.pc = "coalesce", !.key = go[g].key]]
    BY <1>10 DEF ServeStale
  <2> HIDE DEF Good
  <2>4. QED
    BY <1>1, <1>2, <2>1, <2>2, <2>3
<1>11. ASSUME NEW g \in Goroutines, TooOld(g) PROVE \A h \in Goroutines : Good(go'[h])
  <2>1. Good([go[g] EXCEPT !.pc = "coalesce", !.held = NoItem])
    BY <1>2 DEF Goroutine
  <2>2. QED
    BY <1>4, <1>11, <2>1 DEF TooOld
<1>12. ASSUME NEW g \in Goroutines, EndCall(g) \/ Cancel(g) \/ Restore(g)
       PROVE  \A h \in Goroutines : Good(go'[h])
  BY <1>3, <1>4, <1>12 DEF EndCall, Cancel, Restore, Return
<1>13. ASSUME NEW g \in Goroutines, Follow(g) PROVE \A h \in Goroutines : Good(go'[h])
  <2>1. Good([go[g] EXCEPT !.pc = "wait", !.leader = inflight[go[g].key]])
    BY <1>2 DEF Goroutine
  <2>2. QED
    BY <1>4, <1>13, <2>1 DEF Follow
<1>14. ASSUME NEW g \in Goroutines, FetchReturns(g) PROVE \A h \in Goroutines : Good(go'[h])
  <2>1. go[g].key \in Keys /\ source[go[g].key] # NoValue
    BY <1>14 DEF FetchReturns, ActiveHasKey, TypeOK, Versions, NoValue
  <2>2. Good([go[g] EXCEPT !.pc = IF UseBreaker THEN "success" ELSE "store",
                           !.val = source[go[g].key]])
    BY <1>2, <2>1 DEF Goroutine
  <2>3. QED
    BY <1>4, <1>14, <2>2 DEF FetchReturns
<1>15. ASSUME NEW g \in Goroutines, FetchFails(g) PROVE \A h \in Goroutines : Good(go'[h])
  <2>1. Good([go[g] EXCEPT !.pc = IF UseBreaker THEN "failure" ELSE "deregister",
                           !.err = TRUE])
    BY <1>2 DEF Goroutine
  <2>2. QED
    BY <1>4, <1>15, <2>1 DEF FetchFails
<1>16. ASSUME NEW g \in Goroutines, CloseDone(g) PROVE \A h \in Goroutines : Good(go'[h])
  <2>1. go[g].err \/ go[g].val # NoValue
    BY <1>1, <1>16 DEF CloseDone
  <2>2. ASSUME NEW h \in Goroutines PROVE Good(Received(h, g))
    BY <1>3, <2>1 DEF Received, Idle
  <2> HIDE DEF Good
  <2>3. QED
    BY <1>1, <1>16, <2>2 DEF CloseDone
<1>17. ASSUME Tick PROVE \A h \in Goroutines : Good(go'[h])
  <2>1. ASSUME NEW h \in Goroutines PROVE Good([go[h] EXCEPT !.held = Aged(go[h].held)])
    <3>1. Aged(go[h].held).ver = go[h].held.ver
      BY <1>2 DEF Aged, Goroutine, Item
    <3>2. QED
      BY <1>1, <1>2, <3>1 DEF Goroutine
  <2> HIDE DEF Good
  <2>2. QED
    BY <1>17, <2>1 DEF Tick
<1> HIDE DEF Good
<1>18. QED
  BY <1>5, <1>6, <1>7, <1>8, <1>9, <1>10, <1>11, <1>12, <1>13, <1>14, <1>15, <1>16, <1>17
  DEF Next, CallerStep, CoalesceStep, LeaderStep, BatchStep, Goroutines, FetchPanics,
      BatchGetOrFetch, WarmUp, BatchGet, BatchFetchReturns, BatchFetchFails, BatchStore,
      Invalidate, Clear, ResetBreaker, SourceUpdate, SourceChanges

\* The values of the batches.
LEMMA BatchesFetched ==
  ASSUME TypeOK, FetchedInv, Next
  PROVE  \A b \in Batchers : batch'[b].pc = "store" =>
           \A k \in batch'[b].left : batch'[b].got[k] # NoValue
<1> USE DEF FetchedInv
<1>1. batch \in [Batchers -> Batch]
  BY DEF TypeOK
<1>2. CASE UNCHANGED batch
  BY <1>2
<1>3. ASSUME NEW b \in Batchers, NEW ks \in SUBSET Keys, BatchGetOrFetch(b, ks) \/ WarmUp(b, ks)
      PROVE  \A c \in Batchers : batch'[c].pc = "store" =>
               \A k \in batch'[c].left : batch'[c].got[k] # NoValue
  BY <1>1, <1>3, SMTT(30), ZenonT(30) DEF BatchGetOrFetch, WarmUp, Batch
<1>4. ASSUME NEW b \in Batchers, NEW k \in Keys, BatchGet(b, k)
      PROVE  \A c \in Batchers : batch'[c].pc = "store" =>
               \A j \in batch'[c].left : batch'[c].got[j] # NoValue
  BY <1>1, <1>4 DEF BatchGet, NoBatch, Batch
<1>5. ASSUME NEW b \in Batchers, NEW k \in Keys, BatchStore(b, k)
      PROVE  \A c \in Batchers : batch'[c].pc = "store" =>
               \A j \in batch'[c].left : batch'[c].got[j] # NoValue
  BY <1>1, <1>5 DEF BatchStore, NoBatch, Batch
<1>6. ASSUME NEW b \in Batchers, BatchFetchReturns(b)
      PROVE  \A c \in Batchers : batch'[c].pc = "store" =>
               \A j \in batch'[c].left : batch'[c].got[j] # NoValue
  <2>1. \A k \in Keys : source[k] # NoValue
    BY DEF TypeOK, Versions, NoValue
  <2>2. batch[b].missing \in SUBSET Keys
    BY <1>1 DEF Batch
  <2>3. QED
    BY <1>1, <1>6, <2>1, <2>2 DEF BatchFetchReturns, NoBatch
<1>7. ASSUME NEW b \in Batchers, BatchFetchFails(b)
      PROVE  \A c \in Batchers : batch'[c].pc = "store" =>
               \A j \in batch'[c].left : batch'[c].got[j] # NoValue
  BY <1>1, <1>7 DEF BatchFetchFails, NoBatch
<1>8. QED
  BY <1>2, <1>3, <1>4, <1>5, <1>6, <1>7
  DEF Next, CallerStep, CoalesceStep, LeaderStep, BatchStep,
      GetOrFetch, AllowUpgrade, Get, ServeFresh, ServeStale, TooOld, Follow, Lead,
      Cancel, FetchReturns, FetchFails, FetchPanics, RecordSuccess, RecordFailure,
      Store, Deregister, CloseDone, Restore, EndCall,
      Invalidate, Clear, ResetBreaker, Tick, SourceUpdate, SourceChanges

\* Without panics every call that returns without an error returns a value that
\* was fetched, and nothing else is ever cached (apicache.go:155-182, 290-356).
THEOREM SuccessIsFetched == ~MayPanic => (Spec => []SuccessMeansFetched)
<1> SUFFICES ASSUME ~MayPanic PROVE Spec => []SuccessMeansFetched
  OBVIOUS
<1>1. Init => FetchedInv
  BY DEF Init, FetchedInv, Idle, NoBatch
<1>2. ASSUME Inv, FetchedInv, [Next]_vars PROVE FetchedInv'
  <2>1. CASE UNCHANGED vars
    BY <1>2, <2>1 DEF vars, cacheVars, FetchedInv
  <2>2. CASE Next
    BY <1>2, <2>2, ItemsFetched, GoroutinesFetched, BatchesFetched DEF Inv, FetchedInv
  <2>3. QED
    BY <1>2, <2>1, <2>2
<1>3. FetchedInv => SuccessMeansFetched
  BY DEF FetchedInv, SuccessMeansFetched
<1>4. QED
  BY InvInit, InvNext, <1>1, <1>2, <1>3, PTL DEF Spec

-----------------------------------------------------------------------------
(* Versions.                                                                *)

\* What a coalesced fetch has stored is no newer than the source, nor than what
\* the present leader has fetched and is about to store.
VersionInv ==
  /\ \A k \in Keys : items[k].coalesced => items[k].ver <= source[k]
  /\ \A g \in Goroutines : go[g].pc \in {"success", "store"} =>
       /\ go[g].val <= source[go[g].key]
       /\ items[go[g].key].coalesced => items[go[g].key].ver <= go[g].val

\* An item that a coalesced fetch has stored was there before, or is stored now.
LEMMA CoalescedItems ==
  ASSUME TypeOK, ActiveHasKey, [Next]_vars, NEW k \in Keys, items'[k].coalesced
  PROVE  \/ items[k].coalesced /\ items'[k].ver = items[k].ver
         \/ \E h \in Goroutines : Store(h) /\ go[h].key = k /\ items'[k].ver = go[h].val
<1>1. CASE items' = items
  BY <1>1
<1>2. ASSUME NEW j \in Keys, NEW v, NEW c, Put(j, v, c)
      PROVE  \/ items[k].coalesced /\ items'[k].ver = items[k].ver
             \/ k = j /\ c /\ items'[k].ver = v
  BY <1>2 DEF Put, NoItem
<1>3. ASSUME NEW g \in Goroutines, Store(g)
      PROVE  \/ items[k].coalesced /\ items'[k].ver = items[k].ver
             \/ go[g].key = k /\ items'[k].ver = go[g].val
  BY <1>2, <1>3 DEF Store, Goto, ActiveHasKey
<1>4. ASSUME NEW g \in Goroutines, Restore(g)
      PROVE  items[k].coalesced /\ items'[k].ver = items[k].ver
  BY <1>2, <1>4 DEF Restore, ActiveHasKey
<1>5. ASSUME NEW b \in Batchers, NEW j \in Keys, BatchStore(b, j)
      PROVE  items[k].coalesced /\ items'[k].ver = items[k].ver
  BY <1>2, <1>5 DEF BatchStore
<1>6. ASSUME NEW ks \in SUBSET Keys, Delete(ks)
      PROVE  items[k].coalesced /\ items'[k].ver = items[k].ver
  BY <1>6 DEF Delete, NoItem
<1>7. CASE Tick
  <2>1. items'[k] = Aged(items[k]) /\ items[k] \in Item
    BY <1>7 DEF Tick, TypeOK
  <2>2. QED
    BY <2>1 DEF Aged, Item
<1>8. QED
  BY <1>1, <1>3, <1>4, <1>5, <1>6, <1>7
  DEF Next, CallerStep, CoalesceStep, LeaderStep, BatchStep, cacheVars, vars, Goroutines,
      GetOrFetch, AllowUpgrade, Get, Lookup, ServeFresh, ServeStale, TooOld, Follow, Lead,
      Cancel, FetchReturns, FetchFails, FetchPanics, RecordSuccess, RecordFailure,
      Deregister, CloseDone, EndCall, BatchGetOrFetch, WarmUp, BatchGet,
      BatchFetchReturns, BatchFetchFails, ResetBreaker, SourceUpdate, SourceChanges,
      Invalidate, Clear

\* A goroutine that has a version to store had it before, or its fetch returns.
LEMMA FetchedVersions ==
  ASSUME TypeOK, ActiveHasKey, [Next]_vars, NEW h \in Goroutines,
         go'[h].pc \in {"success", "store"}
  PROVE  \/ /\ go[h].pc \in {"success", "store"} /\ ~Store(h)
            /\ go'[h].key = go[h].key /\ go'[h].val = go[h].val
         \/ FetchReturns(h)
<1> DEFINE Stays == /\ go[h].pc \in {"success", "store"}
                    /\ go'[h].key = go[h].key /\ go'[h].val = go[h].val
<1>1. go \in [Goroutines -> Goroutine] /\ go[h] \in Goroutine
  BY DEF TypeOK
<1>2. ~Store(h)
  BY <1>1 DEF Store, Goto, Goroutine
<1>3. CASE go'[h] = go[h]
  BY <1>2, <1>3
<1>4. ASSUME NEW g \in Goroutines, NEW r, r.pc \notin {"success", "store"},
             go' = [go EXCEPT ![g] = r]
      PROVE  go'[h] = go[h]
  BY <1>1, <1>4
<1>5. ASSUME NEW g \in Goroutines, NEW p \in PC \ {"success", "store"},
             go' = [go EXCEPT ![g] = [go[g] EXCEPT !.pc = p]]
      PROVE  go'[h] = go[h]
  <2>1. [go[g] EXCEPT !.pc = p].pc = p
    BY <1>1 DEF Goroutine
  <2>2. QED
    BY <1>4, <1>5, <2>1
<1>6. ASSUME NEW g \in Goroutines,
             \/ AllowUpgrade(g) \/ Lead(g) \/ FetchPanics(g) \/ RecordFailure(g)
             \/ Store(g) \/ Deregister(g)
      PROVE  go'[h] = go[h]
  BY <1>5, <1>6
  DEF AllowUpgrade, Lead, FetchPanics, RecordFailure, Store, Deregister, Goto, PC, LeadPC
<1>7. ASSUME NEW g \in Goroutines, ServeFresh(g) \/ EndCall(g) \/ Cancel(g) \/ Restore(g)
      PROVE  go'[h] = go[h]
  BY <1>4, <1>7 DEF ServeFresh, Serve, EndCall, Cancel, Restore, Return, Idle
<1>8. ASSUME NEW g \in Goroutines, NEW k \in Keys, GetOrFetch(g, k) PROVE go'[h] = go[h]
  BY <1>1, <1>8 DEF GetOrFetch, Goroutine
<1>9. ASSUME NEW g \in Goroutines, Get(g) PROVE go'[h] = go[h]
  BY <1>1, <1>9 DEF Get, Goroutine
<1>10. ASSUME NEW g \in Goroutines, TooOld(g) PROVE go'[h] = go[h]
  BY <1>1, <1>10 DEF TooOld, Goroutine
<1>11. ASSUME NEW g \in Goroutines, Follow(g) PROVE go'[h] = go[h]
  BY <1>1, <1>11 DEF Follow, Goroutine
<1>12. ASSUME NEW g \in Goroutines, FetchFails(g) PROVE go'[h] = go[h]
  BY <1>1, <1>12 DEF FetchFails, Goroutine
<1>13. ASSUME NEW g \in Goroutines, RecordSuccess(g) PROVE Stays
  BY <1>1, <1>13 DEF RecordSuccess, Goto, Goroutine
<1>14. ASSUME NEW g \in Goroutines, NEW r \in Refreshers, ServeStale(g, r)
       PROVE  go'[h] = go[h]
  BY <1>1, <1>14 DEF ServeStale, Idle
<1>15. ASSUME NEW g \in Goroutines, CloseDone(g) PROVE go'[h] = go[h]
  BY <1>1, <1>15 DEF CloseDone, Received, Idle
<1>16. ASSUME Tick PROVE Stays
  <2>1. go'[h] = [go[h] EXCEPT !.held = Aged(go[h].held)]
    BY <1>16 DEF Tick
  <2>2. QED
    BY <1>1, <2>1 DEF Goroutine
<1>17. ASSUME NEW g \in Goroutines, FetchReturns(g) PROVE go'[h] = go[h] \/ FetchReturns(h)
  BY <1>1, <1>17 DEF FetchReturns
<1> HIDE DEF Stays
<1>18. go'[h] = go[h] \/ Stays \/ FetchReturns(h)
  <2>1. ASSUME NEW g \in Goroutines, LeaderStep(g) \/ CoalesceStep(g)
        PROVE  go'[h] = go[h] \/ Stays \/ FetchReturns(h)
    BY <2>1, <1>6, <1>7, <1>11, <1>12, <1>13, <1>15, <1>17 DEF LeaderStep, CoalesceStep
  <2>2. ASSUME NEW g \in Goroutines,
               (\E k \in Keys : GetOrFetch(g, k)) \/ CallerStep(g) \/ Cancel(g)
        PROVE  go'[h] = go[h]
    BY <2>2, <1>6, <1>7, <1>8, <1>9, <1>10, <1>14 DEF CallerStep
  <2>3. CASE go' = go
    BY <2>3
  <2>4. ASSUME NEW b \in Batchers,
               \/ \E ks \in (SUBSET Keys) \ {{}} : BatchGetOrFetch(b, ks) \/ WarmUp(b, ks)
               \/ BatchStep(b)
        PROVE  go' = go
    BY <2>4 DEF BatchStep, BatchGetOrFetch, WarmUp, BatchGet,
        BatchFetchReturns, BatchFetchFails, BatchStore
  <2>5. ASSUME \/ \E k \in Keys : Invalidate(k) \/ SourceUpdate(k)
               \/ Clear \/ ResetBreaker \/ SourceChanges \/ UNCHANGED vars
        PROVE  go' = go
    BY <2>5 DEF Invalidate, Clear, ResetBreaker, SourceUpdate, SourceChanges, vars
  <2>6. QED
    BY <2>1, <2>2, <2>3, <2>4, <2>5, <1>16 DEF Next, Goroutines
<1>19. QED
  BY <1>2, <1>3, <1>18 DEF Stays

\* Versions at the source only grow.
LEMMA SourceGrows ==
  ASSUME TypeOK, [Next]_vars
  PROVE  \A k \in Keys : source'[k] >= source[k]
<1>1. ASSUME NEW j \in Keys, SourceUpdate(j) PROVE \A k \in Keys : source'[k] >= source[k]
  BY <1>1, CacheAssumption DEF SourceUpdate, TypeOK, Versions
<1>2. CASE source' = source
  BY <1>2, CacheAssumption DEF TypeOK, Versions
<1>3. QED
  BY <1>1, <1>2
  DEF Next, CallerStep, CoalesceStep, LeaderStep, BatchStep, vars,
      GetOrFetch, AllowUpgrade, Get, ServeFresh, ServeStale, TooOld, Follow, Lead,
      Cancel, FetchReturns, FetchFails, FetchPanics, RecordSuccess, RecordFailure,
      Store, Deregister, CloseDone, Restore, EndCall, BatchGetOrFetch, WarmUp,
      BatchGet, BatchFetchReturns, BatchFetchFails, BatchStore,
      Invalidate, Clear, ResetBreaker, Tick, SourceChanges

\* Because a key has one leader, nothing newer is stored between the return of
\* its fetch and its store.
LEMMA VersionStep ==
  ASSUME Inv, Inv', VersionInv, [Next]_vars
  PROVE  VersionInv'
<1>1. TypeOK /\ TypeOK' /\ ActiveHasKey /\ SingleFlight
  BY ExactGivesSingleFlight DEF Inv
<1>2. /\ \A k \in Keys : /\ items[k].ver \in Int /\ items'[k].ver \in Int
                         /\ source[k] \in Int /\ source'[k] \in Int
      /\ \A g \in Goroutines : go[g].val \in Int /\ go'[g].val \in Int
  BY <1>1, CacheAssumption DEF TypeOK, Item, Goroutine, Values, Versions, NoValue
<1>3. ASSUME NEW k \in Keys, items'[k].coalesced PROVE items'[k].ver <= source'[k]
  <2>1. source'[k] >= source[k]
    BY <1>1, SourceGrows
  <2>2. CASE items[k].coalesced /\ items'[k].ver = items[k].ver
    BY <1>2, <2>1, <2>2 DEF VersionInv
  <2>3. ASSUME NEW h \in Goroutines, Store(h), go[h].key = k, items'[k].ver = go[h].val
        PROVE  items'[k].ver <= source'[k]
    BY <1>2, <2>1, <2>3 DEF VersionInv, Store, Goto
  <2>4. QED
    BY <1>1, <1>3, <2>2, <2>3, CoalescedItems
<1>4. ASSUME NEW g \in Goroutines, go'[g].pc \in {"success", "store"}
      PROVE  /\ go'[g].val <= source'[go'[g].key]
             /\ items'[go'[g].key].coalesced => items'[go'[g].key].ver <= go'[g].val
  <2>1. CASE FetchReturns(g)
    <3>1. /\ go[g].key \in Keys /\ go'[g].key = go[g].key
          /\ go'[g].val = source[go[g].key]
          /\ source' = source /\ items' = items
      BY <1>1, <2>1 DEF FetchReturns, ActiveHasKey, TypeOK, Goroutine, cacheVars
    <3>2. QED
      BY <1>2, <3>1 DEF VersionInv
  <2>2. CASE /\ go[g].pc \in {"success", "store"} /\ ~Store(g)
             /\ go'[g].key = go[g].key /\ go'[g].val = go[g].val
    <3>1. go[g].key \in Keys /\ go[g].pc \in LeadPC
      BY <1>1, <2>2 DEF ActiveHasKey, LeadPC
    <3>2. source'[go[g].key] >= source[go[g].key]
      BY <1>1, <3>1, SourceGrows
    <3>3. ASSUME NEW h \in Goroutines, Store(h) PROVE go[h].key # go[g].key
      BY <1>1, <2>2, <3>1, <3>3 DEF SingleFlight, Store, Goto, LeadPC
    <3>4. items'[go[g].key].coalesced =>
            items[go[g].key].coalesced /\ items'[go[g].key].ver = items[go[g].key].ver
      BY <1>1, <3>1, <3>3, CoalescedItems
    <3>5. QED
      BY <1>2, <2>2, <3>1, <3>2, <3>4 DEF VersionInv
  <2>3. QED
    BY <1>1, <1>4, <2>1, <2>2, FetchedVersions
<1>5. QED
  BY <1>3, <1>4 DEF VersionInv

\* Between them, coalesced fetches never replace a version by an older one:
\* wherever that happens, one of the two writes went around the coalescing
\* (apicache.go:290-385).
THEOREM CoalescedFetchesAreOrdered == Spec => RollbackOnlyAroundCoalescing
<1>1. Init => VersionInv
  BY DEF Init, VersionInv, Idle, NoItem
<1>2. Inv /\ Inv' /\ VersionInv /\ [Next]_vars => VersionInv'
  BY VersionStep
<1>3. ASSUME Inv, VersionInv, [Next]_vars, NEW k \in cached \intersect cached',
             items'[k].ver < items[k].ver, items'[k].coalesced, items[k].coalesced
      PROVE  FALSE
  <2>1. k \in Keys /\ items[k].ver \in Int
    BY <1>3, CacheAssumption DEF Inv, TypeOK, Item, Values, Versions, NoValue
  <2>2. PICK h \in Goroutines : Store(h) /\ go[h].key = k /\ items'[k].ver = go[h].val
    BY <1>3, <2>1, CoalescedItems DEF Inv
  <2>3. items[k].ver <= go[h].val /\ go[h].val \in Int
    BY <1>3, <2>2, CacheAssumption
    DEF Inv, TypeOK, Goroutine, Values, Versions, NoValue, VersionInv, Store, Goto
  <2>4. QED
    BY <1>3, <2>1, <2>2, <2>3
<1>4. Inv /\ VersionInv /\ [Next]_vars =>
        [\A k \in cached \intersect cached' :
           items'[k].ver < items[k].ver /\ items'[k].ver # NoValue
             => ~items'[k].coalesced \/ ~items[k].coalesced]_vars
  BY <1>3
<1>5. QED
  BY InvInit, InvNext, <1>1, <1>2, <1>4, PTL DEF Spec, RollbackOnlyAroundCoalescing
=============================================================================
