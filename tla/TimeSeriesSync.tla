--------------------------- MODULE TimeSeriesSync ---------------------------
(***************************************************************************)
(* The time series cache under overlapping calls: the lock mu over the map *)
(* of partitions (tscache/cache.go), the lock fileMu over the files, the   *)
(* steps of a save and their failures (tscache/storage.go), crashes.       *)
(* A call keeps the partition it looked up, mapped or not, so partitions   *)
(* are objects with an identity.  What a partition holds is the set of its *)
(* timestamps; TimeSeries has values, expiry and order.                    *)
(*                                                                         *)
(* Locks are taken in the order mu, fileMu, s.mu and partition.mu.  The    *)
(* last two are held within one step; loading a partition waits for the    *)
(* first two and does the rest, so it is one step too.                     *)
(***************************************************************************)
EXTENDS Integers, FiniteSets

CONSTANTS
  Times,
  PartitionSize,     \* Config.PartitionDuration
  MaxPartitions,     \* Config.MaxPartitions, 0 for no limit
  Callers, Maintainer,  \* the goroutines of the program, and of maintenance
  Workloads,         \* sets of goroutines and timestamps that a program uses
  Ids,               \* identities of partition objects, a bound
  None

Threads == Callers \union {Maintainer}

ASSUME SyncAssumption ==
  /\ Times \subseteq Nat /\ PartitionSize \in Nat \ {0} /\ MaxPartitions \in Nat
  /\ Maintainer \notin Callers
  /\ None \notin Threads \union Ids /\ Ids \subseteq Int
  /\ \A w \in Workloads : w.callers \subseteq Callers /\ w.times \subseteq Times

VARIABLES
  immediate,   \* Config.FlushImmediately
  workload,    \* what the program uses, of the Workloads
  partitions,  \* c.partitions: start time -> object, or None
  heap,        \* the objects in use
  mu,          \* the thread that holds c.mu for writing
  fileMu,      \* the thread that holds fileMu
  file,        \* the partition files
  meta,        \* metadata.PartitionMap in memory, its start times
  metaFile,    \* and in metadata.dat
  go,          \* the calls in progress
  spoiled,     \* observer: start times where an object was replaced under a
               \* call that used it, or a load or an evicting save failed
  acked        \* observer: timestamps whose last Set returned no error, and
               \* that were not deleted or spoiled since

obs == <<acked, spoiled>>
disk == <<file, meta, metaFile>>
vars == <<immediate, workload, partitions, heap, mu, fileMu, disk, go, obs>>

StartOf(t) == t - (t % PartitionSize)
Starts == {StartOf(t) : t \in Times}
Mapped == {s \in Starts : partitions[s] # None}
Object == [start : Starts, has : SUBSET Times]

(* None is neither an object nor the content of a file, and each partition  *)
(* can have an object of its own.                                           *)
ASSUME ObjectAssumption ==
  /\ \A object \in Object : object # None
  /\ \A ts \in SUBSET Times : ts # None
  /\ \E f \in [Starts -> Ids] : \A s, r \in Starts : s # r => f[s] # f[r]

\* ts: the timestamps of the call; id: the object it uses; todo: the objects
\* it will still save; snap: what it is saving.
Idle == [pc |-> "idle", op |-> "none", ts |-> {}, id |-> None, todo |-> {}, snap |-> {}]

Call == [pc : {"idle", "lookup", "insert", "save", "rename", "meta", "next"},
         op : {"none", "set", "voidset", "get", "evict", "flush", "clear", "delete"},
         ts : SUBSET Times, id : Ids \union {None}, todo : SUBSET Ids, snap : SUBSET Times]

\* An object holds timestamps of its partition, and is mapped at its start.
ObjectsOK ==
  /\ partitions \in [Starts -> Ids \union {None}]
  /\ heap \in [Ids -> Object \union {None}]
  /\ \A i \in Ids : heap[i] # None => \A t \in heap[i].has : StartOf(t) = heap[i].start
  /\ \A s \in Mapped : heap[partitions[s]] # None /\ heap[partitions[s]].start = s

TypeOK ==
  /\ immediate \in BOOLEAN /\ workload \in Workloads
  /\ ObjectsOK
  /\ mu \in Threads \union {None} /\ fileMu \in Threads \union {None}
  /\ file \in [Starts -> (SUBSET Times) \union {None}]
  /\ meta \in SUBSET Starts /\ metaFile \in SUBSET Starts
  /\ go \in [Threads -> Call]
  /\ spoiled \in SUBSET Starts
  /\ acked \in SUBSET {t \in Times : StartOf(t) \notin spoiled}

Init ==
  /\ immediate \in BOOLEAN /\ workload \in Workloads
  /\ partitions = [s \in Starts |-> None] /\ heap = [i \in Ids |-> None]
  /\ mu = None /\ fileMu = None
  /\ file = [s \in Starts |-> None] /\ meta = {} /\ metaFile = {}
  /\ go = [c \in Threads |-> Idle]
  /\ acked = {} /\ spoiled = {}

-----------------------------------------------------------------------------
Uses(c) == go[c].todo \union {go[c].id}
UsedByOthers(c, i) == \E d \in Threads \ {c} : i \in Uses(d)

\* Go frees an object that neither the map nor a call refers to.
Collected(h) ==
  [i \in Ids |-> IF \/ \E s \in Starts : partitions'[s] = i
                    \/ \E c \in Threads : i \in go'[c].todo \union {go'[c].id}
                 THEN h[i] ELSE None]

\* mu can be had for writing: no writer, and no flush, which holds it for
\* reading.
CanLock == mu = None /\ \A c \in Threads : go[c].op # "flush"

Goto(c, pc) == go' = [go EXCEPT ![c] = [@ EXCEPT !.pc = pc]]

Return(c) ==
  /\ go' = [go EXCEPT ![c] = Idle]
  /\ mu' = IF mu = c THEN None ELSE mu

Sound(ts) == {t \in ts : StartOf(t) \notin spoiled'}

Replaced(ids, c) == {heap[i].start : i \in {j \in ids : UsedByOthers(c, j)}}

-----------------------------------------------------------------------------
(* Set and the Get calls.                                                   *)

Set(c, t) ==
  /\ go[c].pc = "idle"
  /\ go' = [go EXCEPT ![c] = [Idle EXCEPT !.pc = "lookup", !.op = "set", !.ts = {t}]]
  /\ UNCHANGED <<immediate, workload, partitions, heap, mu, fileMu, disk, obs>>

\* A Get that finds the partition mapped changes nothing.
Get(c, t) ==
  /\ go[c].pc = "idle" /\ StartOf(t) \notin Mapped
  /\ go' = [go EXCEPT ![c] = [Idle EXCEPT !.pc = "lookup", !.op = "get", !.ts = {t}]]
  /\ UNCHANGED <<immediate, workload, partitions, heap, mu, fileMu, disk, obs>>

Found(c, id) ==
  go' = [go EXCEPT ![c] = IF go[c].op = "get" THEN Idle
                          ELSE [@ EXCEPT !.pc = "insert", !.id = id]]

\* getPartition, with the read lock.
Lookup(c) ==
  \E t \in go[c].ts :
    /\ go[c].pc = "lookup" /\ mu = None /\ StartOf(t) \in Mapped
    /\ Found(c, partitions[StartOf(t)])
    /\ UNCHANGED <<immediate, workload, partitions, heap, mu, fileMu, disk, obs>>

\* LoadPartition: the content of the file; without one, or if it cannot be
\* read, an empty partition (newPartition).
ObjectFor(t, loaded) ==
  [start |-> StartOf(t),
   has |-> IF file[StartOf(t)] # None /\ loaded THEN file[StartOf(t)] ELSE {}]

\* getPartition, with the write lock: the file's partition, or a new one if
\* there is no file or loading it fails.
MapPartition(c) ==
  \E t \in go[c].ts, id \in Ids, loaded \in BOOLEAN :
    LET s == StartOf(t) IN
    /\ go[c].pc = "lookup" /\ CanLock /\ fileMu = None /\ s \notin Mapped
    /\ heap[id] = None /\ \A i \in Ids : heap[i] = None => ~(i < id)
    /\ loaded \/ file[s] # None
    /\ partitions' = [partitions EXCEPT ![s] = id]
    /\ Found(c, id)
    /\ heap' = Collected([heap EXCEPT ![id] = ObjectFor(t, loaded)])
    /\ spoiled' = IF ~loaded \/ \E d \in Threads : \E i \in Uses(d) \ {None} : heap[i].start = s
                  THEN spoiled \union {s} ELSE spoiled
    /\ acked' = Sound(acked)
    /\ UNCHANGED <<immediate, workload, mu, fileMu, disk>>

\* partition.insert, under the partition's lock only.
Insert(c) ==
  /\ go[c].pc = "insert"
  /\ IF immediate
     THEN Goto(c, "save") /\ UNCHANGED <<mu, acked, partitions, spoiled>>
     ELSE /\ Return(c)
          /\ UNCHANGED <<partitions, spoiled>>
          /\ acked' = Sound(acked \union go[c].ts)
  /\ heap' = Collected([heap EXCEPT ![go[c].id].has = @ \union go[c].ts])
  /\ UNCHANGED <<immediate, workload, fileMu, disk>>

-----------------------------------------------------------------------------
(* SavePartition.                                                           *)

\* Mutated form: the snapshot is taken before the file lock.
SnapshotUnlocked(c) ==
  /\ go[c].pc = "save"
  /\ go' = [go EXCEPT ![c] = [@ EXCEPT !.pc = "rename", !.snap = heap[go[c].id].has]]
  /\ UNCHANGED <<immediate, workload, partitions, heap, mu, fileMu, disk, obs>>

\* fileMu, then the copy of the partition goes to the temporary file.
Snapshot(c) ==
  /\ go[c].pc = "save" /\ fileMu = None
  /\ fileMu' = c
  /\ go' = [go EXCEPT ![c] = [@ EXCEPT !.pc = "rename", !.snap = heap[go[c].id].has]]
  /\ UNCHANGED <<immediate, workload, partitions, heap, mu, disk, obs>>

Rename(c) ==
  LET s == heap[go[c].id].start IN
  /\ go[c].pc = "rename"
  /\ file' = [file EXCEPT ![s] = go[c].snap]
  /\ meta' = meta \union {s}
  /\ go' = [go EXCEPT ![c] = [@ EXCEPT !.pc = "meta", !.snap = {}]]
  /\ UNCHANGED <<immediate, workload, partitions, heap, mu, fileMu, metaFile, obs>>

\* What the call does with the outcome: Set and Clear and DeleteRange return
\* an error, the maintenance goroutine goes on.
AfterSave(c, ok) ==
  LET id == go[c].id
      op == go[c].op
      left == [go[c] EXCEPT !.pc = "next", !.id = None, !.snap = {}, !.todo = @ \ {id}]
  IN /\ IF op = "flush" \/ (ok /\ op \in {"clear", "delete"})
        THEN go' = [go EXCEPT ![c] = left] /\ UNCHANGED mu
        ELSE Return(c)
     /\ partitions' = IF op = "evict" THEN [partitions EXCEPT ![heap[id].start] = None]
                      ELSE partitions
     /\ spoiled' = IF op = "evict" /\ ~ok THEN spoiled \union {heap[id].start} ELSE spoiled
     /\ acked' = Sound(IF ok /\ op = "set" THEN acked \union go[c].ts ELSE acked)
     /\ heap' = Collected(heap)

\* saveMetadata.
SaveMeta(c) ==
  /\ go[c].pc = "meta"
  /\ metaFile' = meta
  /\ fileMu' = None
  /\ AfterSave(c, TRUE)
  /\ UNCHANGED <<immediate, workload, file, meta>>

\* Mutated form: an error leaves the file lock held.
SaveFailsLocked(c) ==
  /\ go[c].pc \in {"rename", "meta"}
  /\ AfterSave(c, FALSE)
  /\ UNCHANGED <<immediate, workload, fileMu, disk>>

\* Any of the steps up to the rename, or saving the metadata, fails.
SaveFails(c) ==
  /\ go[c].pc \in {"rename", "meta"}
  /\ fileMu' = None
  /\ AfterSave(c, FALSE)
  /\ UNCHANGED <<immediate, workload, disk>>

-----------------------------------------------------------------------------
(* Maintenance, Clear and DeleteRange.                                      *)

Oldest(ss) == CHOOSE s \in ss : \A r \in ss : s <= r

\* Mutated form: the partition to evict is unmapped before it is saved, and
\* the lock given up.
CleanupUnlocked(c) ==
  LET kept == {s \in Mapped : heap[partitions[s]].has # {}}
      full == MaxPartitions > 0 /\ Cardinality(kept) > MaxPartitions
  IN /\ go[c].pc = "idle" /\ c = Maintainer /\ CanLock
     /\ IF full
        THEN /\ go' = [go EXCEPT ![c] = [Idle EXCEPT !.pc = "save", !.op = "evict",
                                           !.id = partitions[Oldest(kept)]]]
             /\ partitions' = [s \in Starts |->
                  IF s \in kept /\ s # Oldest(kept) THEN partitions[s] ELSE None]
        ELSE /\ UNCHANGED go
             /\ partitions' = [s \in Starts |-> IF s \in kept THEN partitions[s] ELSE None]
     /\ UNCHANGED mu
     /\ spoiled' = spoiled \union Replaced({partitions[s] : s \in Mapped \ kept}, c)
     /\ acked' = Sound(acked)
     /\ heap' = Collected(heap)
     /\ UNCHANGED <<immediate, workload, fileMu, disk>>

\* cleanup unmaps empty partitions, and above the limit saves the oldest of
\* the others before it unmaps it.
Cleanup(c) ==
  LET kept == {s \in Mapped : heap[partitions[s]].has # {}}
      full == MaxPartitions > 0 /\ Cardinality(kept) > MaxPartitions
      out == IF full THEN {Oldest(kept)} ELSE {}
  IN /\ go[c].pc = "idle" /\ c = Maintainer /\ CanLock
     /\ full \/ kept # Mapped
     /\ IF full
        THEN /\ mu' = c
             /\ go' = [go EXCEPT ![c] = [Idle EXCEPT !.pc = "save", !.op = "evict",
                                           !.id = partitions[Oldest(kept)]]]
        ELSE UNCHANGED <<mu, go>>
     /\ partitions' = [s \in Starts |-> IF s \in kept THEN partitions[s] ELSE None]
     /\ spoiled' = spoiled \union
          Replaced({partitions[s] : s \in (Mapped \ kept) \union out}, c)
     /\ acked' = Sound(acked)
     /\ heap' = Collected(heap)
     /\ UNCHANGED <<immediate, workload, fileMu, disk>>

\* flush holds the read lock while it saves, one partition after the other.
Flush(c) ==
  /\ go[c].pc = "idle" /\ c = Maintainer /\ mu = None /\ Mapped # {}
  /\ go' = [go EXCEPT ![c] = [Idle EXCEPT !.pc = "next", !.op = "flush",
                                !.todo = {partitions[s] : s \in Mapped}]]
  /\ UNCHANGED <<immediate, workload, partitions, heap, mu, fileMu, disk, obs>>

\* Clear unmaps everything under the lock and saves it without.
Clear(c) ==
  /\ go[c].pc = "idle" /\ c \in Callers /\ CanLock /\ Mapped # {}
  /\ go' = [d \in Threads |->
       IF d = c THEN [Idle EXCEPT !.pc = "next", !.op = "clear",
                                  !.todo = {partitions[s] : s \in Mapped}]
       ELSE IF go[d].op = "set" /\ go[d].id # None THEN [go[d] EXCEPT !.op = "voidset"]
       ELSE go[d]]
  /\ spoiled' = spoiled \union Replaced({partitions[s] : s \in Mapped}, c)
  /\ acked' = Sound({t \in acked : StartOf(t) \notin Mapped})
  /\ partitions' = [s \in Starts |-> None]
  /\ UNCHANGED <<immediate, workload, heap, mu, fileMu, disk>>

DeleteRange(c, lo, hi) ==
  LET hit == {s \in Mapped : StartOf(lo) <= s /\ s <= StartOf(hi)} IN
  /\ go[c].pc = "idle" /\ c \in Callers /\ CanLock /\ hit # {}
  /\ mu' = c
  /\ go' = [go EXCEPT ![c] = [Idle EXCEPT !.pc = "next", !.op = "delete",
       !.ts = {t \in Times : lo <= t /\ t <= hi},
       !.todo = {partitions[s] : s \in hit}]]
  /\ UNCHANGED <<immediate, workload, partitions, heap, fileMu, disk, obs>>

SaveNext(c) ==
  \E id \in go[c].todo :
    /\ go[c].pc = "next" /\ go[c].op \in {"flush", "clear"}
    /\ go' = [go EXCEPT ![c] = [@ EXCEPT !.pc = "save", !.id = id]]
    /\ UNCHANGED <<immediate, workload, partitions, heap, mu, fileMu, disk, obs>>

\* DeleteRange unmaps a partition that lies within the range, removes the
\* timestamps in range from another and saves it.
DeleteNext(c) ==
  LET s == Oldest({heap[i].start : i \in go[c].todo})
      id == partitions[s]
      gone == heap[id].has \intersect go[c].ts
      whole == s \in go[c].ts /\ \E t \in go[c].ts : t >= s + PartitionSize
      voided == [d \in Threads |->
        IF go[d].op = "set" /\ go[d].id = id /\ go[d].ts \subseteq gone
        THEN [go[d] EXCEPT !.op = "voidset"] ELSE go[d]]
  IN /\ go[c].pc = "next" /\ go[c].op = "delete" /\ go[c].todo # {}
     /\ IF whole
        THEN /\ partitions' = [partitions EXCEPT ![s] = None]
             /\ go' = [voided EXCEPT ![c] = [@ EXCEPT !.todo = go[c].todo \ {id}]]
             /\ heap' = Collected(heap)
             /\ spoiled' = spoiled \union Replaced({id}, c)
        ELSE /\ go' = [voided EXCEPT ![c] = [@ EXCEPT !.pc = "save", !.id = id]]
             /\ heap' = [heap EXCEPT ![id].has = @ \ gone]
             /\ UNCHANGED <<partitions, spoiled>>
     /\ acked' = Sound(acked \ gone)
     /\ UNCHANGED <<immediate, workload, mu, fileMu, disk>>

Finish(c) ==
  /\ go[c].pc = "next" /\ go[c].todo = {}
  /\ Return(c)
  /\ UNCHANGED <<immediate, workload, partitions, heap, fileMu, disk, obs>>

-----------------------------------------------------------------------------
\* loadMetadata: the start times whose files are loaded, those that exist.
Listed == {s \in metaFile : file[s] # None}

\* The process ends and NewTimeSeries loads the files the metadata lists.
Crash ==
  LET id == CHOOSE f \in [Listed -> Ids] : \A s, r \in Listed : s # r => f[s] # f[r]
  IN /\ partitions' = [s \in Starts |-> IF s \in Listed THEN id[s] ELSE None]
     /\ heap' = [i \in Ids |-> IF \E s \in Listed : id[s] = i
                  THEN LET s == CHOOSE r \in Listed : id[r] = i
                       IN [start |-> s, has |-> file[s]]
                  ELSE None]
     /\ go' = [c \in Threads |-> Idle]
     /\ mu' = None /\ fileMu' = None
     /\ meta' = metaFile
     /\ acked' = IF immediate THEN acked
                 ELSE {t \in acked : file[StartOf(t)] # None /\ t \in file[StartOf(t)]}
     /\ UNCHANGED <<immediate, workload, file, metaFile, spoiled>>

LockStep(c) == Lookup(c) \/ MapPartition(c) \/ Snapshot(c)
FreeStep(c) ==
  Insert(c) \/ Rename(c) \/ SaveMeta(c) \/ SaveNext(c) \/ DeleteNext(c) \/ Finish(c)

Next ==
  \/ \E c \in workload.callers :
       \/ \E t \in workload.times : Set(c, t) \/ Get(c, t)
       \/ \E lo, hi \in workload.times : lo <= hi /\ DeleteRange(c, lo, hi)
       \/ Clear(c)
  \/ Cleanup(Maintainer) \/ Flush(Maintainer)
  \/ \E c \in Threads : LockStep(c) \/ FreeStep(c) \/ SaveFails(c)
  \/ Crash

Spec == Init /\ [][Next]_vars

-----------------------------------------------------------------------------
(* A timestamp whose Set returned no error is found by GetExact until it is *)
(* deleted, through saves, evictions, reloads and crashes, unless its       *)
(* partition was unmapped under a call that used it, or a load or an        *)
(* evicting save failed.                                                    *)
AckedIsVisible ==
  \A t \in acked : LET s == StartOf(t) IN
    IF s \in Mapped THEN t \in heap[partitions[s]].has
    ELSE file[s] # None /\ t \in file[s]

(* In a cache that flushes at once it is in the file as well: saves of the  *)
(* same partition by other calls never bring back an older content.         *)
AckedIsDurable ==
  immediate => \A t \in acked :
    file[StartOf(t)] # None /\ t \in file[StartOf(t)]

(* No deadlock: while calls are in progress, one of them can go on.  The     *)
(* locks are taken in one order, and let go on every error.                 *)
SomeCallGoesOn ==
  LET busy == {c \in Threads : go[c].pc # "idle"}
  IN busy # {} => \E c \in busy : ENABLED (LockStep(c) \/ FreeStep(c))
=============================================================================
