------------------------------ MODULE KVCache -------------------------------
(***************************************************************************)
(* The key-value cache of cache/cache.go: a map under the lock mu, a file  *)
(* under the lock fileMu, a NATS bucket, and the goroutine that sweeps     *)
(* expired items and flushes periodically.  A step is what the code does   *)
(* between two locks or two calls it makes out.                            *)
(*                                                                         *)
(* Waiting writers keep new readers out of a Go RWMutex.  Nobody here      *)
(* takes a read lock twice or waits while holding one, so the model leaves *)
(* the preference out.                                                     *)
(***************************************************************************)
EXTENDS Integers

CONSTANTS
  Keys, Values,
  Callers, Janitor,  \* the goroutines of the program, and of cleanup
  TTLs,              \* ttl arguments of Set, DefaultTTL for a Set without one
  DefaultTTL,        \* Config.DefaultTTL, 0 for none
  UseNATS,           \* whether a bucket is configured
  RefreshOnAccess,   \* Config.RefreshTTLOnAccess
  None, Torn

Threads == Callers \union {Janitor}

ASSUME KVCacheAssumption ==
  /\ Janitor \notin Callers /\ None \notin Threads \union Keys
  /\ TTLs \subseteq Nat /\ DefaultTTL \in TTLs
  /\ UseNATS \in BOOLEAN /\ RefreshOnAccess \in BOOLEAN

\* left is the time to Expiration, 0 once it has passed.
Forever == -1
Lefts == {Forever} \union UNION {0..ttl : ttl \in TTLs}
Item == [val : Values, left : Lefts]
ASSUME NoneIsNoItem == \A item \in Item : item # None

NewItem(v, ttl) == [val |-> v, left |-> IF ttl > 0 THEN ttl ELSE Forever]
Contents == [Keys -> Item \union {None}]
Empty == [k \in Keys |-> None]

Live(item) == item # None /\ item.left # 0

VARIABLES
  immediate, \* Config.FlushImmediately
  up,        \* whether the process runs
  items,     \* c.items
  mu,        \* the thread that holds c.mu for writing
  fileMu,    \* the thread that holds c.fileMu
  kv,        \* the bucket
  file,      \* what the cache file decodes to, Torn if it does not
  go,        \* the calls in progress
  acked,     \* observer: the item of the last write of a key, if it was a Set
             \* or Edit that returned no error in a cache that flushes at once
  diverged   \* observer: keys a failed or late step left different in bucket
             \* and map

obs == <<acked, diverged>>
vars == <<immediate, up, items, mu, fileMu, kv, file, go, acked, diverged>>

Call ==
  [pc : {"idle", "lock", "nats", "flush", "write", "file", "rlock", "bucket"},
   op : {"none", "set", "edit", "touch", "adopt", "del", "sweep", "flush"},
   key : Keys \union {None}, item : Item \union {None}]
Idle == [pc |-> "idle", op |-> "none", key |-> None, item |-> None]

TypeOK ==
  /\ immediate \in BOOLEAN /\ up \in BOOLEAN
  /\ items \in Contents /\ kv \in Contents /\ acked \in Contents
  /\ file \in Contents \union {Torn}
  /\ mu \in Threads \union {None} /\ fileMu \in Threads \union {None}
  /\ go \in [Threads -> Call]
  /\ diverged \in SUBSET Keys

Init ==
  /\ immediate \in BOOLEAN
  /\ up = TRUE
  /\ items = Empty /\ kv = Empty /\ file = Empty /\ acked = Empty
  /\ mu = None /\ fileMu = None
  /\ go = [t \in Threads |-> Idle]
  /\ diverged = {}

-----------------------------------------------------------------------------
(* Calls, up to the lock they need.                                         *)

Begin(t, pc, op, k, item) ==
  /\ up /\ go[t].pc = "idle"
  /\ go' = [go EXCEPT ![t] = [pc |-> pc, op |-> op, key |-> k, item |-> item]]
  /\ UNCHANGED <<immediate, up, items, mu, fileMu, kv, file, obs>>

Set(t, k, v, ttl) == Begin(t, "lock", "set", k, NewItem(v, ttl))

Edit(t, k, v) == Begin(t, "lock", "edit", k, NewItem(v, 0))

Del(t, k) == Begin(t, "lock", "del", k, None)

\* Get under the read lock.  A hit that needs no refresh, and a miss without
\* a bucket, return and change nothing.
GetHit(t, k) ==
  /\ mu = None /\ Live(items[k])
  /\ RefreshOnAccess /\ items[k].left # Forever
  /\ Begin(t, "lock", "touch", k, items[k])

GetMiss(t, k) ==
  /\ mu = None /\ ~Live(items[k]) /\ UseNATS
  /\ Begin(t, "bucket", "adopt", k, None)

\* Get asks the bucket.
GetFromNATS(t) ==
  LET found == kv[go[t].key] IN
  /\ go[t].pc = "bucket"
  /\ go' = [go EXCEPT ![t] = IF Live(found)
               THEN [@ EXCEPT !.pc = "lock", !.item = found] ELSE Idle]
  /\ UNCHANGED <<immediate, up, items, mu, fileMu, kv, file, obs>>

Sweep == Begin(Janitor, "lock", "sweep", None, None)

\* The flush ticker of cleanup, and Close.
FlushCall(t) == Begin(t, "file", "flush", None, None)

-----------------------------------------------------------------------------
(* Under mu.                                                                *)

CanLock == mu = None /\ \A t \in Threads : go[t].op = "flush" => go[t].pc # "write"

\* Refreshing adds what was left of the ttl to the present time, which is
\* where the item expires anyway; only an item that expired meanwhile gets
\* the default.
Refreshed(item) == IF item.left = 0 THEN [item EXCEPT !.left = DefaultTTL] ELSE item

\* What a call writes for its key.
Written(t) ==
  CASE go[t].op = "edit" -> [items[go[t].key] EXCEPT !.val = go[t].item.val]
    [] go[t].op = "touch" \/ (go[t].op = "adopt" /\ RefreshOnAccess /\ go[t].item.left # Forever)
         -> Refreshed(go[t].item)
    [] OTHER -> go[t].item

\* Whether the bucket is written, and the file then.
Syncs(t) == UseNATS /\ (go[t].op = "adopt" => RefreshOnAccess /\ go[t].item.left # Forever)

\* Mutated form: Edit does not flush.
FlushesNoEdit(op) == immediate /\ op \in {"set", "touch", "sweep"}

Flushes(op) == immediate /\ op \in {"set", "edit", "touch", "sweep"}

\* Mutated form: the file lock is kept when the call fails.
ReturnKeepingFile(t, ok) ==
  /\ go' = [go EXCEPT ![t] = Idle]
  /\ mu' = IF mu = t THEN None ELSE mu
  /\ fileMu' = IF ok /\ fileMu = t THEN None ELSE fileMu
  /\ acked' = IF ok /\ immediate /\ go[t].op \in {"set", "edit"}
              THEN [acked EXCEPT ![go[t].key] = items[go[t].key]] ELSE acked

\* The deferred unlocks; ok is whether the caller gets a nil error.
Return(t, ok) ==
  /\ go' = [go EXCEPT ![t] = Idle]
  /\ mu' = IF mu = t THEN None ELSE mu
  /\ fileMu' = IF fileMu = t THEN None ELSE fileMu
  /\ acked' = IF ok /\ immediate /\ go[t].op \in {"set", "edit"}
              THEN [acked EXCEPT ![go[t].key] = items[go[t].key]] ELSE acked

Continue(t, pc, item) ==
  /\ go' = [go EXCEPT ![t] = [@ EXCEPT !.pc = pc, !.item = item]]
  /\ UNCHANGED fileMu

\* Mutated form: the lock is not held any more when the bucket is written.
WriteKeyUnlocked(t) ==
  LET k == go[t].key IN
  /\ go[t].pc = "lock" /\ go[t].op # "sweep" /\ CanLock
  /\ go[t].op = "edit" => items[k] # None
  /\ items' = [items EXCEPT ![k] = Written(t)]
  /\ acked' = [acked EXCEPT ![k] = None]
  /\ diverged' = IF go[t].op = "adopt" /\ kv[k] # go[t].item
                 THEN diverged \union {k} ELSE diverged
  /\ Continue(t, IF Syncs(t) THEN "nats" ELSE "flush", Written(t))
  /\ UNCHANGED <<immediate, up, mu, kv, file>>

\* Set, Edit, Del and the two write-backs of Get write the map.
WriteKey(t) ==
  LET k == go[t].key IN
  /\ go[t].pc = "lock" /\ go[t].op # "sweep" /\ CanLock
  /\ go[t].op = "edit" => items[k] # None
  /\ mu' = t
  /\ items' = [items EXCEPT ![k] = Written(t)]
  /\ acked' = [acked EXCEPT ![k] = None]
  /\ diverged' = IF go[t].op = "adopt" /\ kv[k] # go[t].item
                 THEN diverged \union {k} ELSE diverged
  /\ Continue(t, IF Syncs(t) THEN "nats" ELSE "flush", Written(t))
  /\ UNCHANGED <<immediate, up, kv, file>>

EditMissing(t) ==
  /\ go[t].pc = "lock" /\ go[t].op = "edit" /\ CanLock
  /\ items[go[t].key] = None
  /\ Return(t, FALSE)
  /\ UNCHANGED <<immediate, up, items, kv, file, diverged>>

SweepExpired(t) ==
  LET gone == {k \in Keys : items[k] # None /\ ~Live(items[k])} IN
  /\ go[t].pc = "lock" /\ go[t].op = "sweep" /\ CanLock
  /\ mu' = t
  /\ items' = [k \in Keys |-> IF k \in gone THEN None ELSE items[k]]
  /\ acked' = [k \in Keys |-> IF k \in gone THEN None ELSE acked[k]]
  /\ Continue(t, "flush", None)
  /\ UNCHANGED <<immediate, up, kv, file, diverged>>

\* syncWithNATS, or the Delete of Del.
Sync(t) ==
  LET k == go[t].key IN
  /\ go[t].pc = "nats"
  /\ kv' = [kv EXCEPT ![k] = go[t].item]
  /\ diverged' = diverged \ {k}
  /\ Continue(t, "flush", go[t].item)
  /\ UNCHANGED <<immediate, up, items, mu, file, acked>>

\* It fails, with or without effect.  Only Get goes on.
SyncFails(t) ==
  LET k == go[t].key IN
  /\ go[t].pc = "nats"
  /\ kv' \in {kv, [kv EXCEPT ![k] = go[t].item]}
  /\ diverged' = diverged \union {k}
  /\ IF go[t].op = "touch"
     THEN Continue(t, "flush", go[t].item) /\ UNCHANGED <<mu, acked>>
     ELSE Return(t, FALSE)
  /\ UNCHANGED <<immediate, up, items, file>>

-----------------------------------------------------------------------------
(* flushToFileFunc.                                                         *)

NoFlush(t) ==
  /\ go[t].pc = "flush" /\ ~Flushes(go[t].op)
  /\ Return(t, TRUE)
  /\ UNCHANGED <<immediate, up, items, kv, file, diverged>>

\* Called with mu held: fileMu, then the file is opened with O_TRUNC.
FlushLocked(t) ==
  /\ go[t].pc = "flush" /\ Flushes(go[t].op) /\ fileMu = None
  /\ fileMu' = t /\ file' = Torn
  /\ go' = [go EXCEPT ![t] = [@ EXCEPT !.pc = "write"]]
  /\ UNCHANGED <<immediate, up, items, mu, kv, obs>>

\* Called without: fileMu, then mu for reading.
LockFile(t) ==
  /\ go[t].pc = "file" /\ fileMu = None
  /\ fileMu' = t
  /\ go' = [go EXCEPT ![t] = [@ EXCEPT !.pc = "rlock"]]
  /\ UNCHANGED <<immediate, up, items, mu, kv, file, obs>>

RLockMu(t) ==
  /\ go[t].pc = "rlock" /\ mu = None
  /\ file' = Torn
  /\ go' = [go EXCEPT ![t] = [@ EXCEPT !.pc = "write"]]
  /\ UNCHANGED <<immediate, up, items, mu, fileMu, kv, obs>>

\* MkdirAll or OpenFile fails.
OpenFails(t) ==
  /\ \/ go[t].pc = "flush" /\ Flushes(go[t].op) /\ fileMu = None
     \/ go[t].pc = "rlock" /\ mu = None
  /\ Return(t, FALSE)
  /\ UNCHANGED <<immediate, up, items, kv, file, diverged>>

WriteFile(t) ==
  /\ go[t].pc = "write"
  /\ file' = items
  /\ Return(t, TRUE)
  /\ UNCHANGED <<immediate, up, items, kv, diverged>>

\* Encoding or writing fails: what is in the file stays there.
WriteFails(t) ==
  /\ go[t].pc = "write"
  /\ Return(t, FALSE)
  /\ UNCHANGED <<immediate, up, items, kv, file, diverged>>

-----------------------------------------------------------------------------
(* Restarts, the bucket, the clock.                                         *)

Crash ==
  /\ up
  /\ up' = FALSE
  /\ items' = Empty /\ mu' = None /\ fileMu' = None
  /\ go' = [t \in Threads |-> Idle]
  /\ UNCHANGED <<immediate, kv, file, obs>>

\* New fails on a file it cannot decode.
New ==
  /\ ~up /\ file # Torn
  /\ up' = TRUE /\ items' = file
  /\ diverged' = {k \in Keys : file[k] # kv[k]}
  /\ UNCHANGED <<immediate, mu, fileMu, kv, file, go, acked>>

OperatorRemovesFile ==
  /\ ~up /\ file = Torn
  /\ file' = Empty /\ acked' = Empty
  /\ UNCHANGED <<immediate, up, items, mu, fileMu, kv, go, diverged>>

BucketExpires(k) ==
  /\ kv[k] # None
  /\ kv' = [kv EXCEPT ![k] = None]
  /\ UNCHANGED <<immediate, up, items, mu, fileMu, file, go, obs>>

Aged(item) ==
  IF item # None /\ item.left > 0 THEN [item EXCEPT !.left = @ - 1] ELSE item
AllAged(contents) == [k \in Keys |-> Aged(contents[k])]

\* The expiration of a Set is computed under the lock.
Tick ==
  /\ items' = AllAged(items) /\ kv' = AllAged(kv) /\ acked' = AllAged(acked)
  /\ file' = IF file = Torn THEN Torn ELSE AllAged(file)
  /\ go' = [t \in Threads |->
       IF go[t].pc = "lock" /\ go[t].op = "set" THEN go[t]
       ELSE [go[t] EXCEPT !.item = Aged(@)]]
  /\ UNCHANGED <<immediate, up, mu, fileMu, diverged>>

LockStep(t) == WriteKey(t) \/ EditMissing(t) \/ SweepExpired(t)
FileLockStep(t) == FlushLocked(t) \/ LockFile(t) \/ RLockMu(t)
FreeStep(t) == GetFromNATS(t) \/ Sync(t) \/ NoFlush(t) \/ WriteFile(t)
Fault(t) == SyncFails(t) \/ OpenFails(t) \/ WriteFails(t)

Next ==
  \/ \E t \in Callers, k \in Keys :
       \/ \E v \in Values, ttl \in TTLs : Set(t, k, v, ttl)
       \/ \E v \in Values : Edit(t, k, v)
       \/ Del(t, k) \/ GetHit(t, k) \/ GetMiss(t, k)
  \/ Sweep
  \/ \E t \in Threads :
       FlushCall(t) \/ LockStep(t) \/ FileLockStep(t) \/ FreeStep(t) \/ Fault(t)
  \/ Crash \/ New \/ OperatorRemovesFile \/ Tick
  \/ \E k \in Keys : BucketExpires(k)

(* Threads run, calls to NATS and the file system return, and a Go lock that *)
(* becomes free again and again is eventually had.                          *)
Fairness ==
  \A t \in Threads : WF_vars(FreeStep(t)) /\ SF_vars(LockStep(t) \/ FileLockStep(t))

Spec == Init /\ [][Next]_vars /\ Fairness

-----------------------------------------------------------------------------
(* In a cache that flushes at once, the item of a Set or Edit that returned *)
(* no error stays in the file until the key is written again, whatever      *)
(* flushes of others, sweeps and restarts do, unless the file is torn.      *)
AckedIsInFile ==
  file # Torn => \A k \in Keys : acked[k] # None => file[k] = acked[k]

(* Between calls, memory and bucket do not hold different items for a key,  *)
(* unless a put failed, a Get stored what the bucket held before, or the    *)
(* process started from an older file.                                      *)
MemoryAgreesWithBucket ==
  UseNATS /\ up /\ mu = None =>
    \A k \in Keys \ diverged : items[k] # None /\ kv[k] # None => items[k] = kv[k]

(* Without FlushImmediately every call that has begun returns.              *)
CallsReturn ==
  \A t \in Threads : ~immediate /\ go[t].pc # "idle" ~> go[t].pc = "idle"

(* "Intended to be run in a background goroutine" (cache.go:370): the       *)
(* periodic flush of cleanup does not lock up with the calls it runs beside, *)
(* one holding mu and waiting for fileMu, the other the reverse.            *)
NoLockCycle ==
  \A t, u \in Threads :
    ~ /\ mu = t /\ go[t].pc = "flush" /\ Flushes(go[t].op)
      /\ fileMu = u /\ go[u].pc = "rlock"

\* The calls that wait for a lock that another has.
Waits(t) ==
  \/ go[t].pc = "lock" /\ ~CanLock
  \/ go[t].pc = "flush" /\ Flushes(go[t].op) /\ fileMu # None
  \/ go[t].pc = "file" /\ fileMu # None
  \/ go[t].pc = "rlock" /\ mu # None

(* That cycle is the only way to lock up, and takes FlushImmediately: of    *)
(* the calls in progress one waits for nobody, since every return, with an  *)
(* error or without, lets go of what the call holds (cache.go:139-258).     *)
OnlyTheCycleLocksUp ==
  /\ ~immediate => NoLockCycle
  /\ NoLockCycle /\ (\E t \in Threads : go[t].pc # "idle") =>
       \E t \in Threads : go[t].pc # "idle" /\ ~Waits(t)
=============================================================================
