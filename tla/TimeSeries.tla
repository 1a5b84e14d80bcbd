----------------------------- MODULE TimeSeries -----------------------------
(***************************************************************************)
(* The time series cache (tscache/cache.go) one call at a time: partitions *)
(* in memory, their files, the maintenance loop, clean and unclean         *)
(* restarts.  Every call is a single step here and saves do not fail;      *)
(* TimeSeriesSync has the locks, the overlapping calls and the failures.   *)
(***************************************************************************)
EXTENDS Partition, FiniteSets

CONSTANTS
  Times,            \* timestamps, and bounds of ranges
  PartitionSize,    \* Config.PartitionDuration
  Configurations,   \* the rest of Config
  Values,
  TTLs,             \* ttl arguments of Set, 0 for none
  MaxTime           \* bound on the clock

ASSUME TimeSeriesAssumption ==
  /\ Times \subseteq Nat /\ PartitionSize \in Nat \ {0}
  /\ MaxTime \in Nat \ {0}
  /\ \A c \in Configurations :
       c \in [MaxPartitions : Nat, FlushImmediately : BOOLEAN, FlushTicks : BOOLEAN]
  /\ TTLs \subseteq Nat

VARIABLES
  config,       \* MaxPartitions, 0 for no limit; FlushImmediately; FlushTicks:
                \* whether FlushInterval elapses at all
  partitions,   \* c.partitions: from mapped start times to partitions
  disk,         \* the partition files, which the metadata lists, likewise
  now           \* the clock

vars == <<config, partitions, disk, now>>

\* time.Truncate.
StartOf(t) == t - (t % PartitionSize)
Starts == {StartOf(t) : t \in Times}

Mapped == DOMAIN partitions

\* What Set can store: no expiration without a ttl.
Stored == [ts : Times, val : Values,
           exp : {0} \union {t + ttl : t \in 1..MaxTime, ttl \in TTLs \ {0}}]

TypeOK ==
  /\ config \in Configurations
  /\ \A ps \in {partitions, disk} :
       /\ DOMAIN ps \subseteq Starts
       /\ \A s \in DOMAIN ps : ToSet(ps[s].Items) \subseteq {x \in Stored : StartOf(x.ts) = s}
  /\ now \in 1..MaxTime

Init ==
  /\ config \in Configurations
  /\ partitions = <<>> /\ disk = <<>>
  /\ now = 1

-----------------------------------------------------------------------------
\* getPartition: the mapped partition, else its file, else a new one.
getPartition(s) ==
  IF s \in Mapped THEN partitions[s]
  ELSE IF s \in DOMAIN disk THEN disk[s]
  ELSE newPartition

\* The map, or the files, with those of ps at the start times in starts.
With(old, ps, starts) ==
  [s \in DOMAIN old \union starts |-> IF s \in starts THEN ps[s] ELSE old[s]]
Saved(ps, starts) == With(disk, ps, starts)

\* Mutated form: an item without a ttl expires at once.
SetExpiring(t, v, ttl) ==
  LET s == StartOf(t)
      p == insert(getPartition(s), Point(t, v, now + ttl))
  IN /\ partitions' = With(partitions, [r \in {s} |-> p], {s})
     /\ disk' = IF config.FlushImmediately THEN Saved(partitions', {s}) ELSE disk
     /\ UNCHANGED <<config, now>>

Set(t, v, ttl) ==
  LET s == StartOf(t)
      p == insert(getPartition(s), Point(t, v, IF ttl > 0 THEN now + ttl ELSE 0))
  IN /\ partitions' = With(partitions, [r \in {s} |-> p], {s})
     /\ disk' = IF config.FlushImmediately THEN Saved(partitions', {s}) ELSE disk
     /\ UNCHANGED <<config, now>>

\* GetExact and GetNearest map the partition they look into.
GetExact(t) ==
  LET s == StartOf(t) IN
  /\ s \notin Mapped
  /\ partitions' = With(partitions, [r \in {s} |-> getPartition(s)], {s})
  /\ UNCHANGED <<config, disk, now>>

\* Mutated form: the evicted partition is dropped without being saved.
cleanupWithoutSave ==
  LET kept == {s \in Mapped : pruned(partitions[s], now).Items # <<>>}
      old == IF config.MaxPartitions > 0 /\ Cardinality(kept) > config.MaxPartitions
             THEN {s \in kept : \A r \in kept : s <= r} ELSE {}
  IN /\ partitions' = [s \in kept \ old |-> pruned(partitions[s], now)]
     /\ UNCHANGED <<config, disk, now>>

\* cleanup: expired items go, then empty partitions, then, above the limit,
\* the oldest partition, which is saved.
cleanup ==
  LET p == [s \in Mapped |-> pruned(partitions[s], now)]
      kept == {s \in Mapped : p[s].Items # <<>>}
      old == IF config.MaxPartitions > 0 /\ Cardinality(kept) > config.MaxPartitions
             THEN {s \in kept : \A r \in kept : s <= r} ELSE {}
  IN /\ partitions' = Restrict(p, kept \ old)
     /\ disk' = Saved(p, old)
     /\ UNCHANGED <<config, now>>

flush ==
  /\ config.FlushTicks
  /\ disk' = Saved(partitions, Mapped)
  /\ UNCHANGED <<config, partitions, now>>

\* Clear unmaps the partitions and saves the ones it unmapped, as they were.
Clear ==
  /\ disk' = Saved(partitions, Mapped)
  /\ partitions' = <<>>
  /\ UNCHANGED <<config, now>>

\* Mutated form: the points at the two ends of the range stay.
DeleteRangeInside(lo, hi) ==
  LET hit == {s \in Mapped : StartOf(lo) <= s /\ s <= StartOf(hi)}
      rest == [s \in hit |-> Keeping(partitions[s],
                 {x \in ToSet(partitions[s].Items) : x.ts <= lo \/ x.ts >= hi})]
  IN /\ partitions' = With(partitions, rest, hit)
     /\ disk' = Saved(rest, hit)
     /\ UNCHANGED <<config, now>>

\* DeleteRange: a partition inside the range is unmapped, of any other the
\* items in the range are removed and the rest is saved.
DeleteRange(lo, hi) ==
  LET hit == {s \in Mapped : StartOf(lo) <= s /\ s <= StartOf(hi)}
      whole == {s \in hit : lo <= s /\ s + PartitionSize <= hi}
      part == hit \ whole
      rest == [s \in part |-> Keeping(partitions[s],
                 {x \in ToSet(partitions[s].Items) : x.ts < lo \/ x.ts > hi})]
  IN /\ partitions' = With(Restrict(partitions, Mapped \ whole), rest, part)
     /\ disk' = Saved(rest, part)
     /\ UNCHANGED <<config, now>>

\* NewTimeSeries loads every file the metadata lists.
Restart ==
  /\ disk' = Saved(partitions, Mapped)     \* Close
  /\ partitions' = disk'
  /\ UNCHANGED <<config, now>>

Crash ==
  /\ partitions' = disk
  /\ UNCHANGED <<config, disk, now>>

Tick ==
  /\ now < MaxTime
  /\ now' = now + 1
  /\ UNCHANGED <<config, partitions, disk>>

Next ==
  \/ \E t \in Times, v \in Values, ttl \in TTLs : Set(t, v, ttl)
  \/ \E t \in Times : GetExact(t)
  \/ \E lo, hi \in Times : lo <= hi /\ DeleteRange(lo, hi)
  \/ cleanup \/ flush \/ Clear \/ Restart \/ Crash \/ Tick

Spec == Init /\ [][Next]_vars

-----------------------------------------------------------------------------
(* What callers see.                                                        *)

\* GetRange appends what the partitions in memory have of the range, in the
\* order of their starts: before[t] is what those that start before t have.
GetRange(lo, hi) ==
  LET before[t \in StartOf(lo)..(StartOf(hi) + 1)] ==
        IF t = StartOf(lo) THEN <<>>
        ELSE IF t - 1 \in Mapped THEN before[t - 1] \o getRange(partitions[t - 1], lo, hi, now)
        ELSE before[t - 1]
  IN before[StartOf(hi) + 1]

\* The live points that GetExact finds, in memory or on disk.
Visible == UNION {get(getPartition(StartOf(t)), t, now) : t \in Times}

(* Every partition, mapped or on disk, keeps its slice and its index in     *)
(* step through inserts, expiry, range deletions, saves and reloads.        *)
PartitionsWellFormed ==
  \A ps \in {partitions, disk} : \A s \in DOMAIN ps : WellFormed(ps[s])

(* GetRange returns, in ascending order and once, the points of the closed  *)
(* range that GetExact finds, except those of a partition that is not in    *)
(* memory.  "All values within a time range" (cache.go:267) claims those    *)
(* too; the loop passes over a partition that was evicted, cleared or       *)
(* deleted and has a file (cache.go:285), until another call maps it again. *)
RangeIsExact ==
  \A lo, hi \in Times : lo <= hi =>
    LET r == GetRange(lo, hi)
    IN /\ ToSet(r) = {x \in Visible : lo <= x.ts /\ x.ts <= hi /\ StartOf(x.ts) \in Mapped}
       /\ \A i, j \in DOMAIN r : i < j => r[i].ts < r[j].ts

(* GetNearest returns a point of the timestamp's partition that no other    *)
(* point there is nearer than, the later of two at the same distance; it    *)
(* finds one whenever the partition has any.  "The value with the closest   *)
(* timestamp" (cache.go:242) claims more: a nearer point of a neighbouring  *)
(* partition is not looked for, not even when this one is empty             *)
(* (cache.go:245), and an expired point, which no other read returns, counts*)
(* as long as cleanup has not come by (partition.go:78-105).                *)
Distance(x, t) == IF x.ts < t THEN t - x.ts ELSE x.ts - t
NearestIsNearest ==
  \A t \in Times :
    LET p == getPartition(StartOf(t))
        items == ToSet(p.Items)
    IN getNearest(p, t) =
         {x \in items : \A y \in items : y # x =>
            \/ Distance(x, t) < Distance(y, t)
            \/ Distance(x, t) = Distance(y, t) /\ x.ts > y.ts}

\* The live points of the files.
OnDisk(s) == IF s \in DOMAIN disk THEN disk[s] ELSE newPartition
Durable == UNION {get(OnDisk(StartOf(t)), t, now) : t \in Times}

Store == INSTANCE TimeSeriesStore WITH found <- Visible, kept <- Durable, clock <- now

\* Each call is the step of the store that its name promises.
CallsDoWhatTheyPromise ==
  [][/\ \A t \in Times, v \in Values, ttl \in TTLs :
          Set(t, v, ttl) => Store!StoreSet(t, v, ttl)
     /\ \A lo, hi \in Times :
          lo <= hi /\ DeleteRange(lo, hi) => Store!StoreDelete(lo, hi)
     /\ cleanup \/ flush \/ Clear \/ Restart => Store!StoreMaintain
     /\ Crash => Store!StoreCrash]_vars

(* Seen from its callers the cache is a memory of points and a copy of it:  *)
(* whatever sets, deletions, expiry, eviction, crashes and reloads do to    *)
(* partitions and files is a step of TimeSeriesStore.  A deletion is one of *)
(* its whole range and nothing else; the expiry of its neighbours, eviction *)
(* of its partition, flushes, Clear and clean restarts never lose a live    *)
(* point; and a point that was deleted, has expired or was overwritten is   *)
(* found again only where nothing else is, and only as the files last held  *)
(* it (cache.go:133, 335).                                                  *)
ImplementsStore ==
  /\ Store!StoreSpec
  /\ CallsDoWhatTheyPromise

(* "Clear removes all items from the cache" (cache.go:294): after it no     *)
(* point is found any more.                                                 *)
ClearRemovesAll == [][Clear => Visible' = {}]_vars
=============================================================================
