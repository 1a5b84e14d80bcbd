# d-utils in TLA+

This directory models the packages of d-utils that keep state (`apicache`, `tscache`,
`cache`, `completion`, `limiter`, `safemap`, `taskrunner`, the middleware of `server`) in
TLA+, checks the models with TLC on small instances and proves their safety
properties with TLAPS for every value of the constants. `PROJECT.json`
lists the runs, the lines each definition stands for, the hazards and the
theorems.

## 1. Inventory

| Component | State | Operations | What is hard | What makes it correct |
|---|---|---|---|---|
| `apicache/circuit.go`: circuit breaker | `state`, `failures`, `lastFailure`, `halfOpenAttempt`, under one RWMutex | `Allow`, `Success`, `Failure`, `Reset`, `State` | `Allow` drops the read lock before it takes the write lock; outcomes arrive late; admitted requests may never report | a closed circuit is below its threshold; it never refuses for ever; it closes when the source is well again |
| `apicache/apicache.go`: API cache | `items` under `mu`; `inflight` under `inflightMu`; one request record per fetch; the breaker | `GetOrFetch`, `BatchGetOrFetch`, `WarmUp`, `Invalidate`, `Clear`, `refresh` (a goroutine per stale hit), `SaveToDisk` | concurrent callers on a key, leader and followers, errors, panics and cancellation of the leader, writes around the coalescing, eviction | one fetch per key; followers are answered; callers get fetched values; newer data is not replaced by older; the cache catches up with its source; the size limit holds |
| `apicache/middleware.go`, `metrics.go` | none, Prometheus counters | HTTP round trips through the cache | nothing beyond the cache | a failing cache falls back to a direct request |
| `tscache/partition.go` | sorted `Items` and index `ItemsMap`, under the partition's lock | `insert`, `get`, `getNearest`, `getRange`, `cleanup` | positions kept by hand, bounds of binary searches | slice and index agree; queries are exact within the partition |
| `tscache/cache.go` | map of partitions under `mu`; files and metadata of the storage | `Set`, `GetExact`, `GetNearest`, `GetRange`, `DeleteRange`, `Clear`, `Close`, and the maintenance goroutine's `cleanup` and `flush` | calls keep a partition that was unmapped meanwhile; eviction and reload; failing saves and loads; restarts | what was set and not deleted is found, in memory or on disk; saves do not go backwards; no deadlock |
| `tscache/iterator.go` | list of start times, a position | `NewIterator`, `Next`, `Reset` | no lock is held between two calls | nothing that stays is skipped, nothing is returned twice |
| `tscache/storage.go` | partition files, metadata in memory and on disk, under `fileMu` and `s.mu` | `SavePartition`, `LoadPartition`, `DeleteOldPartitions`, `Repair` | a save is a file replacement, then a metadata replacement; the metadata is replaced under either of two locks | a file is an old or a new content; one whose save succeeded is listed; the list can be read |
| `tscache/config.go`, `errors.go`, `stats.go` | none | validation, wrapping, counting | a partition duration of 0 is accepted | |
| `cache/cache.go`: key-value cache | `items` under `mu`, a file under `fileMu`, a NATS bucket | `Set`, `Edit`, `Get` (which may write back), `Del`, `Len`, `Keys`, `Close`, `cleanup` goroutine | two locks taken in two orders, write-backs of stale items, three copies of the data, a file truncated in place | copies agree; an acknowledged write is in the file; calls return |
| `completion/completion.go` | a channel and a flag | `Complete`, `Reset`, `Done`, `Wait`, `IsComplete` | the flag is set before the lock is taken | only a complete round's channel is closed |
| `limiter/limiter.go` | per user and interval a count and a window start | `AllowRequest`, `NextActionTime`, clean-up goroutine | several limits per request, counted one after the other; windows that begin when a request comes | an interval sees no more than two windows; who keeps asking is admitted; nobody is told to wait needlessly |
| `safemap/safemap.go` | a map under an RWMutex | `Get`, `Set`, `GetOrSet`, `Delete`, `SetMap`, `Range`, `Filter`, `Map`, `Reduce` | callbacks under the read lock; waiting writers keep readers out | an iteration sees the map as it is; calls return |
| `taskrunner/taskrunner.go` | per call a wait group and a list of errors | `RunTasks`, `Close` | a pool supplied by the caller, overlapping calls, calls from tasks | every error of the call is returned, once; it returns when every task has run |
| `server/server.go`, `config.go` | configuration; per request a status and writers wrapped around each other | middleware, `Start`, `Shutdown` | deferred work in panics and time-outs, in the order of the middleware | a failure is not answered as a success; the metrics count what was answered |
| `debug`, `env`, `jwt`, `json-utils`, `utils` | none | logging, environment, tokens, formatting, parsing | | |

How they interact: `apicache` calls its breaker before and after a fetch and
runs the caller's fetch function with no lock held; `tscache`'s calls, its
maintenance goroutine and its iterators share the partition map and, through
`SavePartition`, the files; `cache` shares its map between callers and its clean-up
goroutine and copies it to a file and a bucket. Within `tscache`, `Storage` is called
by the cache and, by the user, directly. The packages do not call each other.

## 2. Modules

| Module | Models | Built on |
|---|---|---|
| `CircuitBreaker` | the breaker's fields and methods, as operators | |
| `CircuitBreakerUse` | concurrent requests through one breaker | `CircuitBreaker` |
| `ApiCache` | the API cache with its breaker | `CircuitBreaker` |
| `Persistence` | the API cache's file: saves among writes of the map, failures, crashes, starts | |
| `Partition` | a partition and its methods, as operators on its value | |
| `TimeSeries` | the time series cache one call at a time, with files, expiry, restarts | `Partition` |
| `TimeSeriesStore` | what the time series cache promises: points found, points kept, a clock; `TimeSeries` implements it | |
| `Iterator` | an iterator between whose steps the cache moves | `TimeSeries` |
| `TimeSeriesSync` | the same cache with locks, overlapping calls, steps of a save, failures | |
| `Storage` | the partition files and their list, step by step, with both locks | |
| `KVCache` | the key-value cache with file, bucket, both locks, clean-up goroutine | |
| `Completion` | the completer | |
| `RateLimiter` | the rate limiter | |
| `SafeMap` | the map under its RWMutex, with iterations | |
| `TaskRunner` | `RunTasks` on a pool of workers | |
| `ForkJoin` | what `RunTasks` promises: calls, their tasks, their errors; `TaskRunner` implements it | |
| `Server` | a request through the middleware | |
| `Loops` | no code: lemmas about least numbers and counting loops | |
| `CircuitBreaker_proofs` | lemmas about the breaker's methods | `CircuitBreaker` |
| `Components` | the components that stand alone, side by side | `CircuitBreakerUse`, `Completion`, `RateLimiter`, `SafeMap`, `TaskRunner`, `Server`, `Storage`, `Persistence` |
| `Components_proofs` | theorems about each of these and about all of them | `Components`, `CircuitBreaker_proofs`, `Loops` |
| `ApiCache_proofs` | theorems about the API cache | `ApiCache`, `CircuitBreaker_proofs` |
| `KVCache_proofs`, `TimeSeriesSync_proofs` | theorems about each | the module each is named after |
| `TimeSeries_proofs` | theorems about partitions and the time series cache, and the refinement | `TimeSeries`, `Loops` |
| `Iterator_proofs` | theorems about the iterator | `Iterator`, `TimeSeries_proofs` |
| `MCComponents` | constants, initial states and fairness of `Components` for TLC | `Components` |
| other `MC...` | constants and bounds for TLC | |

Some definitions are marked "Mutated form": each is a plausible bug, defined
beside the definition it differs from. Substituting it for that definition makes
the property it is listed with in `PROJECT.json` fail.

### How state and steps correspond to the code

**CircuitBreaker, CircuitBreakerUse.** `state` and `failures` are the fields. The
two time stamps are ages since then, counted in ticks and saturated one past the
time-out they are compared with, beyond which no comparison changes. `Allow` is
split where the code gives up the read lock: `AllowCheckExpired` sees the time-out,
`AllowUpgrade` sets half-open whatever the state is by then. `failures` saturates
at `MaxFailures`, which loses nothing, as it is only compared with that. A request
ends with a report of success or failure or with none.

**ApiCache.** A goroutine has a program counter, one step per critical section
or per call out: `GetOrFetch`/`AllowUpgrade` (the breaker), `Get` (under `mu`),
`ServeFresh`/`ServeStale`/`TooOld` (on the item it read, which may have changed since),
`Follow`/`Lead` (under `inflightMu`), `FetchReturns`/`FetchFails`/`FetchPanics`,
`RecordSuccess`/`RecordFailure`, `Store`, `Deregister`, `CloseDone`, and for a refresh `Restore`,
its second `set`. Items carry the version their source had, and their age instead
of `ExpiresAt`, saturated at `TTL + Stale`. `LastAccess` is the order `older` in which keys were last
touched, which is all that eviction uses. A key's item that is not cached is
`NoItem`. Panics are those of a caller's fetch: a panic in a refresh ends the
process. Batches take keys in any order; their fetch returns all the keys asked for
(`apicache.go:205` would store whatever it returns).

**Persistence.** A save is `CreateFile`, `EncodeBegins` (the encoder has got the map, writes the types, begins with
the map's length), then `WriteItems` (the value, in one piece) or `SaveFails`. Two saves have descriptors of their
own and write the same types at the same place, so that the later value replaces the earlier one; between
them the types may be missing (`fileTypes`). The map is iterated without its lock: `initially`, `everHeld`
and `alwaysHeld` bound what an encoding may have met, and the decoder takes as many items as the length
says or fails for want of one. After a `Clear` a save goes on with the map that was replaced. Go may also end the process when it
meets an iteration and a write at once, which is `ProcessEnds`. Which key is evicted is left open.

**Partition, TimeSeries.** `Items` and `ItemsMap` are the slice and the index, positions
from 1. Timestamps are small numbers, `StartOf` is `Truncate`. Every call is one step.
`partitions` and `disk` are functions from the start times that are mapped or have a file; the loops
(the copying of `cleanup`, the partitions of `GetRange`) are recursive functions of their turn.
`Saved` is a save of several partitions. `GetRange` changes nothing and is an operator. `GetNearest`
maps a partition as `GetExact` does; its optional range only filters the answer.
`Restart` is `Close` and `NewTimeSeries`, `Crash` is `NewTimeSeries` without it.

**Iterator.** A step of `Next` is one turn of its loop (`NextPartition`, `NextItem`), since
it takes its locks anew in each; any step of `TimeSeries` may come in between. `NextItem` joins
the lookup of the partition under the cache's lock and the read under the partition's: if the
partition is unmapped between the two, the read finds the items it had. The list
of start times is the ascending sequence of those in range. What the iterator returns is
recorded in the observer `returned`.

**TimeSeriesStore.** Three variables stand for the cache as its callers see it: `found`,
the live points a lookup finds; `kept`, those the files hold; `clock`. `TimeSeries` maps
to it (`ImplementsStore`): `found` is what `GetExact` finds, in memory or after loading,
`kept` what it would find in the files alone. The store allows what the code does and
callers should know: a deleted, expired or overwritten point may come back where
nothing newer is found, but only as the files last held it. It forbids the rest: losing
a live point to eviction, expiry of others, a flush, `Clear` or a restart; deleting less
or more than the range; finding what no file holds. Each call is the step its name
says (`CallsDoWhatTheyPromise`).

**TimeSeriesSync.** Partition objects have identities in `Ids`, because a `Set` keeps the
object it looked up after `cleanup`, `Clear` or `DeleteRange` has unmapped it. A save has
three steps: the snapshot under `fileMu`, the rename, the metadata; it may fail at
each, and the process may crash between them. Calls hold `mu` as in the code: `flush`
for reading over all its saves, `cleanup` and `DeleteRange` for writing, `Set` and the saves
of `Clear` not at all. Contents are sets of timestamps. Loading under both locks is
one step, it only waits for `fileMu`. A crashed process is started again at once.

**Storage.** `onDisk` are the partition files, `partitionMap` the list in memory, `metaFile` and
`metaTemp` the two metadata files, `fd` which of them a thread has open: a rename carries open
files along. `SavePartition` is `RenameFile`, `ListFile` and then a save of the metadata;
`DeleteOldPartitions` deletes file by file; `Repair` replaces the list by what is in the
directory. A save of the metadata is `OpenTemp`, `WriteList`, `RenameMeta`, `RemoveTemp`, of which the first
three may fail (`OpenTempFails`, `SaveMetaFails`). Two writers of one file may mix what they write (`Torn`). A crash may come
anywhere, which also covers a concurrent use of the map, on which Go ends the process.

**KVCache.** A call waits for `mu` (`lock`), changes the map, writes the bucket (`nats`),
waits for `fileMu` (`flush`), truncates the file and writes it (`write`); a periodic
flush and `Close` wait for `fileMu` (`file`) and then for `mu` (`rlock`). Items have the time left
to their expiration. A `Get` that changes nothing is no step. The file is `Torn` from
its truncation to the end of the write; `New` refuses a torn file.

**Completion.** Channels have identities. `Complete` is `CompleteFlag`, the compare-and-swap
without the lock, and `CompleteClose` under it; `Reset` is `ResetSwap` and `ResetRenew`, one
critical section. A `Complete` that finds the flag set and a `Reset` that does not are no steps.

**RateLimiter.** Every method holds the mutex throughout and is a step. A window is its age,
saturated at the interval; a user who is not in the map is one whose windows have ended
with a count of 0, which `AllowRequest` cannot tell apart. `Charged` is its loop,
a function of the turn. `admitted` observes how many requests were admitted how long ago, and
`Totals` sums it up: how many in the last so many ticks.

**SafeMap.** A writer first announces itself and then waits for the readers to leave, and
new readers wait for announced writers, as in `sync.RWMutex`. `Range` holds the read lock from
`RangeCopies` to `RangeReturns`; a callback may call the reading and the writing methods on the
same map. One that writes waits for the `Range` it is part of (`CallbackCallsWrite`).

**TaskRunner.** A call's wait group and errors are its own; the pool is a queue and a number
of workers. A nested call has the name of the task that makes it. A task's error is
observed in `failed` before it is appended under the mutex.

**ForkJoin.** Four variables stand for `RunTasks` as its callers see it: the calls on their way, the tasks of each that
are not over, those that failed, what each call returned. `TaskRunner` maps to it (`ForksAndJoins`): a
task is over when its function has appended its error, if any, and need not have called `wg.Done`; it is not over while it
waits to be submitted, is in the pool's queue or runs. Submitting, queueing, taking and `Done` are no steps of `ForkJoin`.

**Server.** A request goes through `handler`, `close` (the deferred `Close` of brotli), `count` (the
metrics after the handler), `respond` (Timeout, Recoverer, the end in `net/http`). `wrote` collects the
statuses the handler has set; a body sets 200 only if none is set (`BodySets`). Time is the
request's age in ticks, saturated at the longer of the two time-outs. What the body
says, the routes and the rest of the middleware are left out.

**Components.** The variable `part` selects the component a behaviour is about; the others
keep their initial state, so the state space is the sum of theirs, not the product.

## 3. Runs

| Run | Instance | Shows |
|---|---|---|
| `components` | 3 requests, threshold 2, reset time-out 2 ticks | `ClosedBelowThreshold`, `RecoversWhenHealthy`, `NeverRefusesForever` |
| | 3 goroutines, 4 channels | `WaitersAreNotStranded`, `WaitReturns` |
| | a user; four lists of one to three limits of 1 to 5 ticks | `AtMostTwoWindowsPerInterval`, `NoNeedlessWait`, `PersistentUserIsAdmitted` |
| | 2 threads, 2 keys, 2 values | `CallbacksSeeTheMap`, `MapCallsReturn` |
| | 2 calls, 5 tasks, of which 2 call `RunTasks`, 2 workers | `RunTasksReturns`, `ForksAndJoins` |
| | a request, brotli or not, either time-out the shorter | `FailureIsNotSuccess`, `CountedAsAnswered` |
| | 2 threads, 2 files, of which one is old | `SavedIsListed`, `MetadataIsWhole` |
| | 2 savers, 2 keys, room for one | `SavedIsLoaded`; and of all, `ComponentsTypeOK` |
| `breaker_half_open_probe` | as the breaker above | `HalfOpenSingleProbe` fails: see findings |
| `completion_race` | 2 goroutines, 3 channels | `FlagAgreesWithChannel` fails |
| `apicache` | two callers, a refresh and a batch; two keys, one of them empty, room for one; two versions; panics | `SingleFlight`, `WaiterHasLeader`, `WaiterReturns`, `RollbackOnlyAroundCoalescing`, `GrowsPastMaxItemsOnlyBehindEmptyKey` |
| `apicache_breaker` | two callers, a refresh, one key, breaker with threshold 1; the source has just changed for the last time | `SuccessMeansFetched` without panics, `CircuitRecovers`, `CatchesUp` |
| `apicache_panic` | two callers, panics | `SuccessMeansFetched` fails |
| `timeseries` | 3 timestamps in 2 partitions, one value, ttl 0 or 1, 3 ticks; room for one partition, or flushing at once | `TypeOK`, `PartitionsWellFormed`, `RangeIsExact`, `NearestIsNearest`, `ImplementsStore` |
| `timeseries_clear` | the same | `ClearRemovesAll` fails |
| `iterator` | 4 timestamps in 2 partitions, a point that expires | `SkipsOnlyAfterRemoval`, `RepeatsOnlyAfterInsertion` |
| `timeseries_sync` | one caller with two partitions and room for one; two callers in one partition of two timestamps; each with maintenance | `AckedIsVisible`, `AckedIsDurable`, `SomeCallGoesOn` |
| `kvcache` | two callers and the clean-up goroutine, one key, ttl 0 or 1, flushing at once or not | `AckedIsInFile`, `MemoryAgreesWithBucket`, `OnlyTheCycleLocksUp`, `CallsReturn` |
| `kvcache_deadlock` | one caller and the clean-up goroutine | `NoLockCycle` fails |

**Why the bounds are enough.** Three requests let a late outcome, a stale upgrade and
a probe overlap. Two callers and a refresh are a leader, a follower and the writer
that stores a second time; two versions tell older from newer. Two keys with room
for one make every insertion evict, one of the keys is the empty string. Partitions
of two timestamps have an insertion before and after an item, and two of them a
neighbour and an eviction. Two threads suffice for a cycle of two locks. `Ids` is
larger than the number of objects a map, two callers and the maintenance goroutine
can refer to. The limits come with a short interval before a long one, a long one
first, three at once, and two of one interval. Three ticks let a point be set, expire
and be set again. Two workers and a nested call in each of two calls exhaust the pool.
One request and one user suffice where requests and users share nothing but the
configuration. `apicache_breaker` begins where its key has changed for the last time (`LastChange`): the old
value is cached and stale, and a caller and a refresh are each about to store it again, so that all the ways
in which it may come back are ahead; earlier changes would only lead there. Two saves overlap in either order at each step, and two keys with room for one let an
encoding meet another key than it began with, or none.

`apicache` and `iterator` have a state constraint, `Bound` of their MC modules. The first cuts off
behaviours in which all of two keys, a batch, two callers and a refresh take part: it keeps
two callers and a refresh on one key with a changing source, and a caller and a batch
on two keys. Invariants and action properties hold of every state and step it keeps.
`WaiterReturns` is checked there under the fairness of goroutines alone (`MCSpec`): the steps it
requires never leave the constraint, so no behaviour is cut off at a step that fairness
asks for. The second begins iterations when a point with a ttl is about to
expire; it checks safety only. `components` may stop, because all goroutines may wait on a
completer that nobody completes, so TLC does not look for deadlocks there; where a lock-up
would be the fault, a liveness property is about it. The other passing runs check for deadlock.

Named bounds: `MaxVersion`, `Refreshers` (refreshes at a time), `MaxTime`, `Ids`,
`MaxPartitions`, `Workloads`, and the saturated ages.

**Fairness.** `CircuitBreakerUse` and `ApiCache`: time passes and goroutines that can run do
(weak fairness: the Go scheduler); callers keep asking for each key and a fetch
from a healthy source returns, so that stale items are refreshed; a request admitted again and again reaches the source again
and again (strong fairness: cached items expire). `WaiterReturns` and the circuit's
recovery rest on these, in particular on fetch functions that return, which is the
caller's part of the contract. `KVCache`: threads run, calls to NATS have a time-out and
return, and a lock that becomes free again and again is obtained (strong fairness: Go's
mutexes hand over to a waiter that starves). The source's failures, panics, crashes
and faults have no fairness. `Completion`: who has set the flag gets the mutex (strong), the rest
of a call goes on (weak); nobody has to call `Complete`. `RateLimiter`: time passes and the user
keeps asking. `SafeMap`: locks that are free again and again are obtained, callbacks return.
`TaskRunner`: calls, workers and tasks go on. In `components` one condition serves an actor of
each component, which is the same as a condition for each, since a behaviour is about one
component. The other modules state safety only.

**Exceptions the properties name.** They are as much a result as the properties.
- `RollbackOnlyAroundCoalescing`: only the second `set` of a refresh, a batch or a warm-up can put an
  older version over a newer one, or be so replaced.
- `CatchesUp`: until then stale and older values are served, an invalidated one may be back; and it takes a source that
  stays healthy and callers that keep asking, since only calls refresh.
- `GrowsPastMaxItemsOnlyBehindEmptyKey`: only when the least recently used key is empty.
- `SkipsOnlyAfterRemoval`, `RepeatsOnlyAfterInsertion`: only removals, insertions in the partition.
- `AckedIsVisible`, `AckedIsDurable`: a start time is `spoiled`, and nothing is claimed for it, after its
  partition was unmapped while another call used the object, a second object was
  mapped beside one in use, loading its file failed, or the save of an eviction failed.
- `MemoryAgreesWithBucket`: a put failed, a `Get` stored what the bucket held before, or the process
  started from an older file.
- `AckedIsInFile`: the file is torn.
- `SavedIsListed`, `MetadataIsWhole`: two calls have written the metadata at once, which takes a
  `DeleteOldPartitions` beside a `SavePartition` or `Repair`, and no undisturbed save came after.
- `MapCallsReturn`: a callback's `Get` waits behind a writer (`GetBehindWriter`), which takes another thread, or a callback
  writes to the map it iterates over (`WriteInCallback`), which blocks it for certain.
- `RangeIsExact`: points of a partition that is not in memory are left out, though `GetExact` would load it.
- `NearestIsNearest`: nearest within the timestamp's own partition, expired points included.
- `RunTasksReturns`: every worker
  has a task that waits in a nested call (`WorkersWaitNested`).
- `FailureIsNotSuccess`: with brotli. `CountedAsAnswered`: late handlers, panics, and a second
  `WriteHeader` with another status, or one after a body with a status that is not 200.
- `AtMostTwoWindowsPerInterval`: twice the maximum, as a window need not begin where one looks.
- `SavedIsLoaded`: a save failed, was cut off, or met a `Set` or `Invalidate` while it encoded, and none has begun alone
  since. The file may then be one that `New` fails on.
- `OnlyTheCycleLocksUp`: with `FlushImmediately` the cycle of `kvcache_deadlock`, which the property names.
- `CallsReturn` is checked for a cache that does not flush at once; the other kind locks up.

## 4. Findings

- `breaker_half_open_probe`: `circuit.go:87` says only one request is allowed in half-open state; line 88
  admits all of them once `halfOpenTimeout` has passed, as it does not renew `halfOpenAttempt`.
- `apicache_panic`: after a panic in the leader's fetch (`apicache.go:319`) the followers return the zero
  value with a nil error.
- `timeseries_clear`: `Clear` (`cache.go:302`) saves the partitions with their items instead of the "empty state"
  of its comment; the points come back from disk.
- `kvcache_deadlock`: a periodic flush or `Close` and a call with `FlushImmediately` take `fileMu` and `mu` in opposite
  orders (`cache.go:143`, `cache.go:229`).
- `completion_race`: `Complete` sets the flag before it takes the lock (`completion.go:27`); after a `Reset` in between
  it closes the new channel, so that `IsComplete` is false and `Wait` of the new round returns at once.

Met while modelling and not run: `RefreshTTLOnAccess` adds the time left to the present time, so
it does not move the expiration (`cache/cache.go:271-278`; `Refreshed` in `KVCache`); `DeleteRange` leaves the file of
a partition it unmaps; `OnSet` and `OnEviction` of the API cache are never called.
`GetRange` is said to return "all values within a time range" (`tscache/cache.go:267`) but passes over a partition that
was evicted, cleared or deleted and has a file (line 285), whose points `GetExact` finds. `GetNearest` is said to return
"the value with the closest timestamp" (line 242) but looks in one partition only (line 245): it misses a nearer point of the
neighbour, finds nothing when its own partition is empty, and returns expired points, which every other read
refuses (`partition.go:78-105`). A callback of `Range`, `Filter`, `Map` or `Reduce` that calls `Set`, `GetOrSet`, `Delete` or
`SetMap` on the same map locks up for certain, as `Range` holds the read lock over it (`safemap.go:170`); no comment warns of it.
`NextActionTime` (`limiter.go:111`) returns the end of the first full window, when another may still
refuse, though its comment says the next request will be allowed. The comment in `Range` (`safemap.go:174`) that
the lock is not held for long contradicts its `defer`. A `DeleteOldPartitions` beside a save may leave
`metadata.dat` torn, on which `NewStorage` fails, so that `Repair`, a method of what it returns, is out of
reach. `SaveToDisk` (`apicache.go:252`) truncates the file before it encodes: a crash, a value `gob` cannot encode, or a
key removed meanwhile leave a file on which `New` fails at every start until someone removes it. With brotli a handler that panics, or is late, is answered 200. The server's default write
time-out (5 s) is shorter than its request time-out (60 s), so the 504 never arrives
unless both are set. A second `NewServer` in a process panics in `MustRegister` (`server.go:70`).

## 5. Proofs

TLAPS proves, for every value of the constants that satisfies the modules' named
assumptions, every invariant and every action property that a passing run checks, and
both refinements, with the exceptions listed at the end of this section. An inductive
invariant is a conjunction of named parts; a step of a proof is an action
of `Next` and under it a part that the action can disturb, or the other way round where
a part has a long argument. What the parts add to the property, and why:

**Breaker** (`Components_proofs`). `BreakerSafe`: `ClosedBelowThreshold` with the types is inductive; each method
preserves it (`CircuitBreaker_proofs`). The unguarded upgrade is harmless here, as it leads to
half-open only.

**API cache** (`ApiCache_proofs`).
- `FetchesAreCoalesced`, `NoFollowerIsOrphaned`: a goroutine may register when the table has no entry, so the
  invariant says that the table is exact (`InflightExact`): a key's entry is the goroutine that leads
  its fetch. Two leaders of a key are then one; a follower joins a goroutine that leads,
  which keeps its key until `CloseDone` and answers all its followers in that step.
- `TypesCorrect`, `BreakerInCacheSafe`: the types, and the breaker's invariant inside the cache, where refreshes
  report without having asked.
- `CacheGrowsBehindEmptyKey`: `older` is an order of the finitely many cached keys in which every set of
  them has a first one (`OrderInv`), so `evict` finds one unless it is the empty key.
- `SuccessIsFetched`: without panics a goroutine has a value, or an error, from the return of its
  fetch on, and so have batches and items (`FetchedInv`).
- `CoalescedFetchesAreOrdered`: what a coalesced fetch stored is no newer than the source, nor than what the
  present leader is about to store (`VersionInv`); this needs that there is one leader.

**API cache's file** (`Components_proofs`). `SavesAreLoaded`. An encoding nothing came under has met exactly what was there when it
began (`EncodingsAreWhole`), so that what it may write is that map: one with as many of the keys is all of
it (`AsManyAreAll`). Overlapping saves are harmless because a file without types has a save that is about
to write them, an empty file one that is about to write the value (`FileIsOnItsWay`), and a whole one holds what
its last writer intended. No map grows past `MaxItems` when evicting and setting (`SetKeepsWithin`), hence no file.

**Key-value cache** (`KVCache_proofs`). `KVCacheTypes`, `AcknowledgedItemsAreInFile`, `MemoryAndBucketAgree`. `LockInv` says which program
counters hold which lock, and that a flush that writes has excluded writers of the
map. Then what is acknowledged is in memory, so that every flush writes it again
(`FileInv`), and memory and bucket differ only for a key whose put is on its way and brings
what memory holds (`BucketInv`). `NoOtherLockUp`: by `LockInv` a call that has `mu` waits at most for `fileMu`, one that has `fileMu` at
most for `mu`; without the cycle one of the holders goes on, and without holders everyone does.

**Time series cache, one call at a time** (`TimeSeries_proofs`). The invariant: every partition in
memory or in a file is `Sound`, its items those of its start time in ascending order, and its
index exact. `insert`, `cleanup` and the removal of a range preserve it. Their loops are recursive
functions, followed by taking the first turn at which a claim would fail (`LeastNumber` of `Loops`);
the binary search is given by what it finds, which `SearchFinds` shows to exist.
- `SeriesTypes`, `PartitionsStayWellFormed`: the invariant and its consequence.
- `NearestIsFound`, `RangesAreExact`: of a sound partition `getNearest` and `getRange` return what they should; `GetRange`
  joins partitions whose timestamps do not overlap.
- `CacheIsStore`: the refinement. The initial states map to one another, and each action is the step
  of `TimeSeriesStore` that its name promises; what is found and kept is compared partition by
  partition, since a partition decides about its own timestamps.

**Iterator** (`Iterator_proofs`). `SkipsNeedRemovals`, `RepeatsNeedInsertions`. The invariant `ItInv`: a point in range that was there all
the time is ahead of the position or accounted for, and what was returned is behind it.
A step of the cache keeps this because no item moves to an earlier position in a
partition that only gains points, nor to a later one in a partition that only loses
some (`NoEarlier`, `PositionsGrow`). That partitions are sound is taken from `TimeSeries_proofs`.

**Time series cache, overlapping calls** (`TimeSeriesSync_proofs`). `SyncTypes`, `AcknowledgedSetsAreVisible`, `AcknowledgedSetsAreDurable`. The parts: who holds
which lock (`LockInv`), that objects in use exist (`UseInv`), that files hold timestamps of their
partition (`FileInv`); then, of a partition that is not `spoiled`, that whoever uses it uses the
object that is mapped, that nobody else uses what is being evicted (`OwnInv`), and that a
snapshot in progress has what is acknowledged (`SaveInv`). The last two make it safe that a
save goes on after `mu` was let go. `CallsDoNotAllWait`: who has `fileMu` waits for nothing, who has `mu` at most for `fileMu`, so one
of the calls in progress can go on. It says with the locks what `SomeCallGoesOn` says with ENABLED; the
latter adds that a step the locks permit has nothing else to wait for, an unused identity in `Ids` included,
which is a bound of the model and not of the code.

**Storage** (`Components_proofs`). `StorageTypes`, `SavedFilesAreListed`, `MetadataStaysWhole`. `StoreInv`: `SavePartition` and `Repair` exclude each other
(`CallsInv`); what was acknowledged is on disk, in the map, and in what a `Repair` has found
(`ListInv`); a save of the metadata that has been alone owns the temporary file and may rename
it (`AloneInv`); as long as no two saves overlapped the present one is alone and the file good (`FileInv`).

**Completer, safe map** (`Components_proofs`). `NobodyIsStranded`: the invariant adds that, while the flag is set, there
is a `Complete` on its way whenever the present channel is open or about to be replaced: without it
a `Reset` could leave a new, open channel behind a set flag. `IterationSeesTheMap`: it adds that a thread in
an iteration holds the read lock, one whose callback reads or writes too; a writer changes the map only when
nobody does, hence never from a callback.

**Server** (`Components_proofs`). `FailuresAreNotSuccesses`, `RequestsAreCountedAsAnswered`. A request on its way is `Consistent`: as long as the handler
has set no status nothing was sent except by the closing brotli writer, and with one status
set, it is the one seen and sent; a body after it sets no other. At `respond` what was counted is what was seen, or nothing
after a panic.

**Task runner** (`Components_proofs`). `RunnerTypesHold`, `CallsReturnTheirErrors`. A task is with the pool once and as long as its call has it
submitted (`PoolInv`); a nested call goes on while its task waits (`NestedInv`); the wait group counts the
tasks that are outstanding (`CountInv`), which is why it is never negative and 0 only when
all are over; a failed task is in the list or about to be appended, and is over once it is
there (`ErrorsInv`). `RunnerIsForkJoin`: the refinement. `wg` being 0 means that no task of the call is with the pool, hence
that none is in `NotOver`; a task with a nested call on its way runs; and each action of the runner is the
step of `ForkJoin` it maps to, or none (`RunnerForksAndJoins`).

**Rate limiter** (`Components_proofs`). `LimiterTypesHold`, `NoThirdWindow`, `WaitsAreNeeded`. Each window has counted what was admitted since it
began, which is at most the maximum, and what was admitted earlier within the
interval is at most the maximum as well (`LimiterInv`): a window begins only after the one before
it ended. The loop over the limits is followed turn by turn (`EachTurn`), as two limits may share an
interval.

**Side by side** (`Components_proofs`). `ComponentsHold`: in `Components`, whose next-state relation is the one the run checks, the
invariants of all eight hold together: a step of one changes no variable of another (`PartsStep`).

**Assumptions on constants.** `BreakerAssumption`, `CacheAssumption`: positive thresholds, time-outs, ttl and size limit, which
`NewCircuitBreaker` and `New` enforce by defaults or an error. `TimeSeriesAssumption`, `SyncAssumption`: a positive partition
duration (see section 6), timestamps that are natural numbers. `LimiterAssumption`: positive intervals, any
list of limits; positive maxima, since with a maximum of 0 nobody is ever admitted, and a user
who is not in the map would differ from one who is. `RunnerAssumption`: a worker, and tasks that are each in
one list once, as a task's name stands for that submission. `PersistenceAssumption`: finitely many keys, a positive limit. `ServerAssumption`, `StatusAssumption`: positive time-outs
(0 has a meaning of its own in `net/http` and is not modelled), final statuses. `StorageAssumption`, `ObjectAssumption`,
`NoneIsNoItem`, `KVCacheAssumption`, `CompletionAssumption`, `SafeMapAssumption`: that the value for "none" or "torn" is not one of the
others, and that there is an identity for each partition.

**Only proved.** The types of `ApiCache`, `KVCache` and `TimeSeriesSync` (`TypesCorrect`, `KVCacheTypes`, `SyncTypes`), which no run repeats;
`ErrorsAreComplete` (`CallsReturnTheirErrors`), which a run checks as part of `ForksAndJoins`; `NotAllWait` (`CallsDoNotAllWait`).

**Only model-checked.**
- `RecoversWhenHealthy`, `NeverRefusesForever`, `WaitReturns`, `PersistentUserIsAdmitted`, `MapCallsReturn`, `RunTasksReturns`, `WaiterReturns`, `CircuitRecovers`, `CatchesUp`, `CallsReturn`: liveness
  under fairness, out of this prover's reach.
- `SomeCallGoesOn`: it speaks of ENABLED, which is out of reach too; `CallsDoNotAllWait` is what is proved in its place.
- The properties of the runs that end in a violation, which do not hold.
- What a recursive function computes for every input is not stated: the loop lemmas say
  what holds at each turn of a loop whose length is given.

## 6. Not modelled

Metrics, access hook and middleware of the API cache; `Stats`; other
processes on the NATS bucket; of `server`, `Start` and `Shutdown`, which hand over to `net/http`,
routes and options; `debug`, `env`, `jwt`, `json-utils`, `utils`, which are formatting and parsing. The
data race on `LastAccess` under the read lock (`apicache.go:275`) is modelled as atomic updates in some order;
the number of refreshes at a time, which the code does not bound (`apicache.go:171`), is a constant. A
partition duration of 0, with which `GetRange` and `DeleteRange` do not end, is excluded by
`TimeSeriesAssumption`. In `Storage`, what a partition file holds and whether `Repair` finds it sound: every file
there was renamed into place whole. In `SafeMap`, that `SetMap` keeps the caller's map, which the caller may
go on writing.

## 7. Plan

Done, in this order: breaker, API cache and its first theorems, partitions, time
series cache, iterator, its concurrency, key-value cache; then completer, rate limiter, safe
map, task runner, server middleware and storage, the abstract store and its
refinement, and the theorems about completer and safe map; then the theorems about all other
safety and action properties and the refinement; then the abstract task runner and its refinement, the
absence of deadlocks, the components side by side, and the API cache's file. Left:

1. Proofs about what no run states yet: that `Saved` of `TimeSeriesSync` is what `Storage` does, that the partitions
   a `TimeSeriesSync` call uses are those of `TimeSeries`.
2. `Storage` under `TimeSeriesSync`, in place of the saves it has of its own.
