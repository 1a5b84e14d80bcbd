------------------------ MODULE TimeSeriesSync_proofs ------------------------
(***************************************************************************)
(* What a time series cache has acknowledged stays visible and, with       *)
(* FlushImmediately, durable, whatever calls, saves, evictions, failures   *)
(* and crashes overlap.                                                    *)
(***************************************************************************)
EXTENDS TimeSeriesSync, FiniteSetTheorems, TLAPS

PC(c) == go[c].pc
Op(c) == go[c].op
Objects(c) == Uses(c) \ {None}
Start(c) == heap[go[c].id].start
InFile(t) == file[StartOf(t)] # None /\ t \in file[StartOf(t)]

\* Where each call may be, and what it refers to there.
CallInv(c) ==
  /\ PC(c) = "idle" => Op(c) = "none"
  /\ Op(c) = "none" => PC(c) = "idle"
  /\ PC(c) = "lookup" => Op(c) \in {"set", "get"}
  /\ Op(c) = "get" => PC(c) = "lookup"
  /\ PC(c) = "insert" => Op(c) \in {"set", "voidset"}
  /\ PC(c) = "next" => Op(c) \in {"flush", "clear", "delete"}
  /\ PC(c) \in {"idle", "lookup", "next"} <=> go[c].id = None
  /\ Op(c) \in {"none", "set", "voidset", "get", "evict"} => go[c].todo = {}
  /\ Op(c) \in {"set", "get"} => \E t \in Times : go[c].ts = {t}

\* Who holds the locks; a flush has mu for reading.
LockInv ==
  \A c \in Threads :
    /\ CallInv(c)
    /\ mu = c <=> Op(c) \in {"evict", "delete"}
    /\ fileMu = c <=> PC(c) \in {"rename", "meta"}

\* The objects that a call refers to exist; those of a DeleteRange are mapped.
UseOf(c) ==
  /\ \A i \in Objects(c) : heap[i] # None
  /\ Op(c) \in {"set", "voidset"} /\ go[c].id # None =>
       \A t \in go[c].ts : StartOf(t) = Start(c)
  /\ Op(c) = "delete" =>
       /\ \A i \in Objects(c) : partitions[heap[i].start] = i
       /\ \A t \in Times :
            (\E a, b \in go[c].ts : a <= t /\ t <= b) => t \in go[c].ts

UseInv == \A c \in Threads : UseOf(c)

\* Files and what is written to them hold timestamps of their partition.
FileInv ==
  /\ \A s \in Starts : file[s] # None => \A t \in file[s] : StartOf(t) = s
  /\ \A c \in Threads : PC(c) = "rename" =>
       \A t \in go[c].snap : StartOf(t) = Start(c)

\* Nobody else has to do with the object i, nor with its partition.
Alone(c, i) ==
  /\ \A t \in acked : StartOf(t) # heap[i].start
  /\ \A d \in Threads \ {c} : \A j \in Objects(d) : heap[j].start # heap[i].start

\* While a partition is not spoiled, a call that uses it uses the object that
\* is mapped, unless it is a Clear which has unmapped it; nobody else uses what
\* is being evicted.
Own(c, i) ==
  heap[i].start \notin spoiled =>
    /\ \/ partitions[heap[i].start] = i
       \/ partitions[heap[i].start] = None /\ Op(c) = "clear" /\ Alone(c, i)
    /\ Op(c) = "evict" => \A d \in Threads \ {c} : i \notin Objects(d)

OwnInv == \A c \in Threads : \A i \in Objects(c) : Own(c, i)

\* What a Set is about to acknowledge is where it will be looked for, and what
\* is acknowledged is not lost by the save in progress.
SaveOf(c) ==
  go[c].id # None /\ Start(c) \notin spoiled =>
    /\ Op(c) = "set" =>
         /\ PC(c) \in {"save", "rename", "meta"} => go[c].ts \subseteq heap[go[c].id].has
         /\ PC(c) = "rename" => go[c].ts \subseteq go[c].snap
         /\ PC(c) = "meta" => \A t \in go[c].ts : InFile(t)
    /\ \A t \in acked : StartOf(t) = Start(c) /\ (immediate \/ Op(c) = "evict") =>
         /\ PC(c) = "rename" => t \in go[c].snap
         /\ PC(c) = "meta" => InFile(t)

SaveInv == \A c \in Threads : SaveOf(c)

Inv ==
  /\ TypeOK /\ LockInv /\ UseInv /\ FileInv
  /\ OwnInv /\ SaveInv /\ AckedIsVisible /\ AckedIsDurable

-----------------------------------------------------------------------------
(* Of some start times there is an oldest one, whether they are finitely    *)
(* many or not.                                                             *)
LEMMA OldestExists ==
  ASSUME NEW T \in SUBSET Nat, T # {}
  PROVE  Oldest(T) \in T /\ \A r \in T : Oldest(T) <= r
<1>1. PICK n \in T : TRUE
  OBVIOUS
<1> DEFINE S == {x \in T : x <= n}
           Below(x) == {y \in S : y <= x}
           F == {Below(x) : x \in S}
<1>2. IsFiniteSet(S)
  BY FS_BoundedSetOfNaturals
<1>3. IsWellFoundedOn(StrictSubsetOrdering(S), FiniteSubsetsOf(S))
  BY <1>2, FS_StrictSubsetOrderingWellFounded
<1>4. F \subseteq FiniteSubsetsOf(S) /\ F # {}
  BY <1>1, <1>2, FS_Subset DEF FiniteSubsetsOf
<1>5. PICK B \in F : \A C \in F : <<C, B>> \notin StrictSubsetOrdering(S)
  BY <1>3, <1>4, WFMin
<1>6. PICK x \in S : B = Below(x)
  BY <1>5
<1>7. ASSUME NEW y \in S PROVE x <= y
  <2>1. SUFFICES ASSUME y < x PROVE FALSE
    OBVIOUS
  <2>2. x \in Nat /\ y \in Nat /\ S \subseteq Nat
    OBVIOUS
  <2>3. x \in Below(x) /\ x \notin Below(y)
    BY <2>1, <2>2
  <2>4. Below(y) \subseteq Below(x)
    BY <2>1, <2>2
  <2>5. Below(y) \in F
    OBVIOUS
  <2>6. QED
    BY <1>5, <1>6, <2>3, <2>4, <2>5 DEF StrictSubsetOrdering
<1>8. \A y \in T : x <= y
  BY <1>1, <1>7
<1>9. QED
  BY <1>8 DEF Oldest

(* A partition starts at or before its timestamps, which end before the     *)
(* next one starts.                                                         *)
LEMMA StartTimes ==
  ASSUME NEW t \in Times
  PROVE  /\ StartOf(t) \in Starts /\ StartOf(t) \in Nat
         /\ StartOf(t) <= t /\ t < StartOf(t) + PartitionSize
<1>1. t \in Nat /\ PartitionSize \in Nat \ {0}
  BY SyncAssumption
<1>2. t % PartitionSize \in 0..(PartitionSize - 1)
  BY <1>1
<1>3. QED
  BY <1>1, <1>2 DEF StartOf, Starts

(* Partitions start at natural numbers, so there is an oldest of them.      *)
LEMMA StartsAreNaturals == Starts \subseteq Nat
BY StartTimes DEF Starts

(* Only objects that nothing refers to are freed.                           *)
LEMMA CollectedObjects ==
  ASSUME NEW h \in [Ids -> Object \union {None}], heap' = Collected(h)
  PROVE  /\ heap' \in [Ids -> Object \union {None}]
         /\ \A i \in Ids : heap'[i] # None => heap'[i] = h[i]
         /\ \A s \in Starts : partitions'[s] \in Ids => heap'[partitions'[s]] = h[partitions'[s]]
         /\ \A c \in Threads : \A i \in Objects(c)' : i \in Ids => heap'[i] = h[i]
BY DEF Collected, Objects, Uses

(* Where a call goes on after a save, or returns.                           *)
LEMMA SavedCalls ==
  ASSUME TypeOK, LockInv, NEW c \in Threads, PC(c) \in {"rename", "meta"},
         NEW ok \in BOOLEAN, AfterSave(c, ok)
  PROVE  \/ /\ Op(c) \in {"set", "voidset", "evict", "clear", "delete"}
            /\ Op(c) \in {"clear", "delete"} => ~ok
            /\ go' = [go EXCEPT ![c] = Idle]
            /\ mu' = IF mu = c THEN None ELSE mu
         \/ /\ Op(c) \in {"flush", "clear", "delete"}
            /\ \E next \in Call :
                 /\ go' = [go EXCEPT ![c] = next]
                 /\ next.pc = "next" /\ next.op = Op(c) /\ next.ts = go[c].ts
                 /\ next.id = None /\ next.todo = go[c].todo \ {go[c].id}
            /\ mu' = mu
<1>1. go[c] \in Call /\ CallInv(c)
  BY DEF TypeOK, LockInv
<1>2. Op(c) \in {"set", "voidset", "evict", "flush", "clear", "delete"}
  BY <1>1 DEF CallInv, PC, Op, Call
<1>3. CASE Op(c) = "flush" \/ (ok /\ Op(c) \in {"clear", "delete"})
  <2> DEFINE next == [go[c] EXCEPT !.pc = "next", !.id = None, !.snap = {},
                                   !.todo = @ \ {go[c].id}]
  <2>1. go' = [go EXCEPT ![c] = next] /\ mu' = mu
    BY <1>3 DEF AfterSave, Op
  <2>2. /\ next \in Call
        /\ next.pc = "next" /\ next.op = Op(c) /\ next.ts = go[c].ts
        /\ next.id = None /\ next.todo = go[c].todo \ {go[c].id}
    BY <1>1 DEF Call, Op
  <2>3. QED
    BY <1>3, <2>1, <2>2
<1>4. CASE ~(Op(c) = "flush" \/ (ok /\ Op(c) \in {"clear", "delete"}))
  BY <1>2, <1>4 DEF AfterSave, Return, Op
<1>5. QED
  BY <1>3, <1>4

\* What DeleteRange does with i, the oldest of the partitions it has to do.
Deleted(c, i) ==
  LET s == heap[i].start
      gone == heap[i].has \intersect go[c].ts
  IN /\ PC(c) = "next" /\ Op(c) = "delete" /\ mu = c
     /\ i \in go[c].todo /\ heap[i] \in Object /\ partitions[s] = i
     /\ go' \in [Threads -> Call]
     /\ \A d \in Threads \ {c} :
          IF Op(d) = "set" /\ go[d].id = i /\ go[d].ts \subseteq gone
          THEN go'[d] = [go[d] EXCEPT !.op = "voidset"] ELSE go'[d] = go[d]
     /\ go'[c].op = "delete" /\ go'[c].ts = go[c].ts
     /\ \/ /\ gone = heap[i].has
           /\ partitions' = [partitions EXCEPT ![s] = None]
           /\ go'[c].pc = "next" /\ go'[c].id = None /\ go'[c].todo = go[c].todo \ {i}
           /\ heap' = Collected(heap)
           /\ spoiled' = spoiled \union Replaced({i}, c)
        \/ /\ go'[c].pc = "save" /\ go'[c].id = i /\ go'[c].todo = go[c].todo
           /\ heap' = [heap EXCEPT ![i] = [heap[i] EXCEPT !.has = heap[i].has \ gone]]
           /\ partitions' = partitions /\ spoiled' = spoiled
     /\ acked' = {t \in acked : t \notin gone /\ StartOf(t) \notin spoiled'}

(* DeleteNext does what Deleted says, for one object in the map: a          *)
(* partition that lies within the range loses all of its timestamps.        *)
LEMMA DeletedObjects ==
  ASSUME TypeOK, LockInv, UseInv, NEW c \in Threads, DeleteNext(c)
  PROVE  \E i \in Ids : Deleted(c, i)
<1> DEFINE starts == {heap[i].start : i \in go[c].todo}
           s == Oldest(starts)
           i == partitions[s]
           gone == heap[i].has \intersect go[c].ts
           whole == s \in go[c].ts /\ \E t \in go[c].ts : t >= s + PartitionSize
           voided == [d \in Threads |->
             IF go[d].op = "set" /\ go[d].id = i /\ go[d].ts \subseteq gone
             THEN [go[d] EXCEPT !.op = "voidset"] ELSE go[d]]
<1>1. /\ go[c] \in Call /\ PC(c) = "next" /\ Op(c) = "delete" /\ go[c].todo # {}
      /\ go \in [Threads -> Call] /\ mu = c /\ go[c].id = None
  BY DEF DeleteNext, TypeOK, PC, Op, LockInv, CallInv
<1>2. \A j \in go[c].todo : /\ j \in Ids /\ heap[j] \in Object
                            /\ partitions[heap[j].start] = j
  BY <1>1, SyncAssumption DEF UseInv, UseOf, Objects, Uses, TypeOK, ObjectsOK, Call
<1>3. \A j \in go[c].todo : heap[j].start \in Nat
  BY <1>2, StartsAreNaturals DEF Object
<1>4. s \in starts
  <2>1. starts \in SUBSET Nat /\ starts # {}
    BY <1>1, <1>3
  <2> HIDE DEF starts
  <2>2. QED
    BY <2>1, OldestExists
<1>5. PICK j \in go[c].todo : s = heap[j].start
  BY <1>4
<1>6. /\ i \in go[c].todo /\ i \in Ids /\ heap[i] \in Object
      /\ heap[i].start = s /\ partitions[heap[i].start] = i
  <2> HIDE DEF s
  <2>1. QED
    BY <1>2, <1>5
<1>7. voided \in [Threads -> Call] /\ voided[c] = go[c]
  BY <1>1, SMTT(30), ZenonT(30) DEF Call, Op
<1>8. whole => gone = heap[i].has
  <2> HIDE DEF s, i
  <2> SUFFICES ASSUME whole, NEW t \in heap[i].has PROVE t \in go[c].ts
    OBVIOUS
  <2>1. t \in Times /\ StartOf(t) = s
    BY <1>6, ObjectAssumption DEF TypeOK, ObjectsOK, Object
  <2>2. PICK u \in go[c].ts : u >= s + PartitionSize
    OBVIOUS
  <2>3. u \in Nat /\ t \in Nat /\ s \in Nat /\ PartitionSize \in Nat
    BY <1>1, <2>1, StartTimes, SyncAssumption DEF Call
  <2>4. s <= t /\ t <= u
    BY <2>1, <2>2, <2>3, StartTimes
  <2>5. QED
    BY <1>1, <2>1, <2>2, <2>4 DEF UseInv, UseOf
<1>9. acked' = {t \in acked : t \notin gone /\ StartOf(t) \notin spoiled'}
  BY DEF DeleteNext, Sound
<1>10. CASE whole
  <2> DEFINE next == [voided[c] EXCEPT !.todo = go[c].todo \ {i}]
  <2>1. /\ partitions' = [partitions EXCEPT ![s] = None]
        /\ heap' = Collected(heap)
        /\ spoiled' = spoiled \union Replaced({i}, c)
    BY <1>10 DEF DeleteNext
  <2>2. go' = [voided EXCEPT ![c] = next]
    BY <1>10 DEF DeleteNext
  <2> HIDE DEF s, i, whole
  <2>3. /\ next \in Call
        /\ next.pc = "next" /\ next.op = "delete" /\ next.ts = go[c].ts
        /\ next.id = None /\ next.todo = go[c].todo \ {i}
    <3> HIDE DEF voided
    <3>1. QED
      BY <1>1, <1>6, <1>7 DEF Call, PC, Op
  <2>4. /\ go' \in [Threads -> Call] /\ go'[c] = next
        /\ \A d \in Threads \ {c} : go'[d] = voided[d]
    <3> HIDE DEF voided, next
    <3>1. QED
      BY <1>7, <2>2, <2>3
  <2>5. \A d \in Threads \ {c} :
          IF Op(d) = "set" /\ go[d].id = i /\ go[d].ts \subseteq gone
          THEN go'[d] = [go[d] EXCEPT !.op = "voidset"] ELSE go'[d] = go[d]
    BY <2>4 DEF Op
  <2> HIDE DEF next, voided
  <2>6. QED
    BY <1>1, <1>6, <1>8, <1>9, <1>10, <2>1, <2>3, <2>4, <2>5 DEF Deleted
<1>11. CASE ~whole
  <2> DEFINE next == [voided[c] EXCEPT !.pc = "save", !.id = i]
  <2>1. /\ partitions' = partitions /\ spoiled' = spoiled
        /\ heap' = [heap EXCEPT ![i] = [heap[i] EXCEPT !.has = heap[i].has \ gone]]
    BY <1>11 DEF DeleteNext
  <2>2. go' = [voided EXCEPT ![c] = next]
    BY <1>11 DEF DeleteNext
  <2> HIDE DEF s, i, whole
  <2>3. /\ next \in Call
        /\ next.pc = "save" /\ next.op = "delete" /\ next.ts = go[c].ts
        /\ next.id = i /\ next.todo = go[c].todo
    <3> HIDE DEF voided
    <3>1. QED
      BY <1>1, <1>6, <1>7 DEF Call, PC, Op
  <2>4. /\ go' \in [Threads -> Call] /\ go'[c] = next
        /\ \A d \in Threads \ {c} : go'[d] = voided[d]
    <3> HIDE DEF voided, next
    <3>1. QED
      BY <1>7, <2>2, <2>3
  <2>5. \A d \in Threads \ {c} :
          IF Op(d) = "set" /\ go[d].id = i /\ go[d].ts \subseteq gone
          THEN go'[d] = [go[d] EXCEPT !.op = "voidset"] ELSE go'[d] = go[d]
    BY <2>4 DEF Op
  <2> HIDE DEF next, voided
  <2>6. QED
    BY <1>1, <1>6, <1>9, <2>1, <2>3, <2>4, <2>5 DEF Deleted
<1>12. QED
  BY <1>6, <1>10, <1>11

\* What cleanup does: it keeps the partitions that are not empty, out is the
\* one it evicts, if any.
CleanedUp(kept, out) ==
  /\ mu = None /\ \A c \in Threads : Op(c) # "flush"
  /\ PC(Maintainer) = "idle"
  /\ kept \subseteq Mapped /\ out \subseteq kept
  /\ \A s \in Mapped \ kept : heap[partitions[s]].has = {}
  /\ \/ out = {} /\ mu' = mu /\ go' = go
     \/ \E s \in kept :
          /\ out = {s} /\ mu' = Maintainer
          /\ go' = [go EXCEPT ![Maintainer] =
               [Idle EXCEPT !.pc = "save", !.op = "evict", !.id = partitions[s]]]
  /\ partitions' = [s \in Starts |-> IF s \in kept THEN partitions[s] ELSE None]
  /\ spoiled' = spoiled \union
       Replaced({partitions[s] : s \in (Mapped \ kept) \union out}, Maintainer)
  /\ acked' = Sound(acked)
  /\ heap' = Collected(heap)

(* Cleanup does what CleanedUp says, for the partitions that are not empty  *)
(* and the oldest of them if they are too many.                             *)
LEMMA CleanedUpPartitions ==
  ASSUME TypeOK, Cleanup(Maintainer)
  PROVE  \E kept, out \in SUBSET Starts : CleanedUp(kept, out)
<1> DEFINE kept == {s \in Mapped : heap[partitions[s]].has # {}}
           full == MaxPartitions > 0 /\ Cardinality(kept) > MaxPartitions
           out == IF full THEN {Oldest(kept)} ELSE {}
<1>1. full => Oldest(kept) \in kept
  <2>1. SUFFICES ASSUME full PROVE kept # {}
    BY OldestExists, StartsAreNaturals DEF Mapped
  <2>2. QED
    BY <2>1, FS_EmptySet, SyncAssumption
<1>2. kept \in SUBSET Starts /\ out \in SUBSET Starts
  BY <1>1 DEF Mapped
<1>3. CleanedUp(kept, out)
  BY <1>1 DEF Cleanup, CleanedUp, CanLock, PC, Op
<1>4. QED
  BY <1>2, <1>3

\* A call that goes on as it was, or whose timestamp was deleted meanwhile.
GoesOn(d) ==
  \/ go'[d] = go[d]
  \/ Op(d) = "set" /\ go[d].id # None /\ go'[d] = [go[d] EXCEPT !.op = "voidset"]

(* A call that goes on keeps its place, its object and its timestamps; only *)
(* a Set that has an object may turn into one whose timestamp is deleted.   *)
LEMMA VoidedCalls ==
  ASSUME NEW d \in Threads, go[d] \in Call, GoesOn(d)
  PROVE  /\ go'[d].pc = PC(d) /\ go'[d].id = go[d].id /\ go'[d].ts = go[d].ts
         /\ go'[d].todo = go[d].todo /\ go'[d].snap = go[d].snap
         /\ go'[d] \in Call
         /\ \/ go'[d].op = Op(d)
            \/ Op(d) = "set" /\ go[d].id # None /\ go'[d].op = "voidset"
<1>1. CASE go'[d] = go[d]
  BY <1>1 DEF PC, Op
<1>2. CASE go'[d] = [go[d] EXCEPT !.op = "voidset"]
  BY <1>2 DEF GoesOn, Call, PC, Op
<1>3. QED
  BY <1>1, <1>2 DEF GoesOn

(* The goroutines and timestamps of a workload are those of the model.      *)
LEMMA CallersAreThreads ==
  ASSUME TypeOK
  PROVE  workload.callers \subseteq Threads /\ workload.times \subseteq Times
BY SyncAssumption DEF TypeOK, Threads

(* A call that saves or inserts refers to an object.                        *)
LEMMA ObjectInUse ==
  ASSUME TypeOK, LockInv, UseInv, NEW c \in Threads,
         PC(c) \in {"insert", "save", "rename", "meta"}
  PROVE  /\ go[c].id \in Ids /\ go[c].id \in Objects(c)
         /\ heap[go[c].id] \in Object /\ Start(c) \in Starts
         /\ go[c] \in Call /\ go[c].ts \in SUBSET Times /\ go[c].snap \in SUBSET Times
<1>1. go[c] \in Call /\ go[c].id # None
  BY DEF TypeOK, LockInv, CallInv
<1>2. go[c].id \in Ids /\ go[c].id \in Objects(c) /\ heap[go[c].id] # None
  BY <1>1 DEF UseInv, UseOf, Objects, Uses, Call
<1>3. heap[go[c].id] \in Object
  BY <1>2 DEF TypeOK, ObjectsOK
<1>4. QED
  BY <1>1, <1>2, <1>3 DEF Call, Object, Start

(* Unmapping partitions, and freeing what nothing refers to, leaves well-   *)
(* formed objects.                                                          *)
LEMMA CollectedTypes ==
  ASSUME ObjectsOK, heap' = Collected(heap), partitions' \in [Starts -> Ids \union {None}],
         \A s \in Starts : partitions'[s] \in {partitions[s], None}
  PROVE  ObjectsOK'
<1>1. heap \in [Ids -> Object \union {None}]
  BY DEF ObjectsOK
<1>2. /\ heap' \in [Ids -> Object \union {None}]
      /\ \A i \in Ids : heap'[i] # None => heap'[i] = heap[i]
      /\ \A s \in Starts : partitions'[s] \in Ids => heap'[partitions'[s]] = heap[partitions'[s]]
  BY <1>1, CollectedObjects
<1>3. QED
  BY <1>2, SyncAssumption DEF ObjectsOK, Mapped

(* A partition is replaced under a call, other than that of c, that uses    *)
(* it.                                                                      *)
LEMMA ReplacedStarts ==
  ASSUME NEW ids, NEW c
  PROVE  \A s : s \in Replaced(ids, c) <=>
           \E i \in ids : heap[i].start = s /\ \E d \in Threads \ {c} : i \in Uses(d)
BY DEF Replaced, UsedByOthers

(* getPartition returns: a Get is done, a Set goes on with the object.      *)
LEMMA FoundCalls ==
  ASSUME TypeOK, NEW c \in Threads, NEW id \in Ids, Found(c, id)
  PROVE  /\ go' \in [Threads -> Call]
         /\ \A d \in Threads \ {c} : go'[d] = go[d]
         /\ \/ Op(c) = "get" /\ go'[c] = Idle
            \/ /\ Op(c) # "get" /\ Op(c)' = Op(c) /\ PC(c)' = "insert" /\ go'[c].id = id
               /\ go'[c].ts = go[c].ts /\ go'[c].todo = go[c].todo
<1>1. go \in [Threads -> Call] /\ go[c] \in Call /\ Idle \in Call
  BY DEF TypeOK, Idle, Call
<1>2. CASE Op(c) = "get"
  BY <1>1, <1>2 DEF Found, Op
<1>3. CASE Op(c) # "get"
  <2> DEFINE next == [go[c] EXCEPT !.pc = "insert", !.id = id]
  <2>1. /\ next \in Call /\ next.op = Op(c) /\ next.pc = "insert" /\ next.id = id
        /\ next.ts = go[c].ts /\ next.todo = go[c].todo
    BY <1>1 DEF Call, Op
  <2>2. go' = [go EXCEPT ![c] = next]
    BY <1>3 DEF Found, Op
  <2> HIDE DEF next
  <2>3. QED
    BY <1>1, <1>3, <2>1, <2>2 DEF PC, Op
<1>4. QED
  BY <1>2, <1>3

-----------------------------------------------------------------------------
(* The calls and the locks.                                                 *)
LEMMA LockInvStep ==
  ASSUME TypeOK, LockInv, UseInv, [Next]_vars
  PROVE  LockInv'
<1> USE SyncAssumption DEF TypeOK, Call, LockInv, CallInv, PC, Op, Threads
<1>1. ASSUME NEW c \in workload.callers, NEW t \in workload.times, Set(c, t)
      PROVE  LockInv'
  BY <1>1 DEF Set, Idle
<1>2. ASSUME NEW c \in workload.callers, NEW t \in workload.times, Get(c, t)
      PROVE  LockInv'
  BY <1>2 DEF Get, Idle
<1>3. ASSUME NEW c \in workload.callers, NEW lo \in workload.times, NEW hi \in workload.times,
             DeleteRange(c, lo, hi)
      PROVE  LockInv'
  BY <1>3 DEF DeleteRange, Idle, CanLock
<1>4. ASSUME NEW c \in workload.callers, Clear(c) PROVE LockInv'
  <2>1. /\ c \in Threads /\ go'[c].pc = "next" /\ go'[c].op = "clear" /\ go'[c].id = None
        /\ mu = None /\ mu' = mu /\ fileMu' = fileMu /\ PC(c) = "idle"
    BY <1>4 DEF Clear, Idle, CanLock
  <2>2. ASSUME NEW d \in Threads \ {c} PROVE GoesOn(d)
    BY <1>4 DEF Clear, GoesOn
  <2>3. ASSUME NEW d \in Threads \ {c}
        PROVE  CallInv(d)' /\ (Op(d) \in {"evict", "delete"} <=> Op(d)' \in {"evict", "delete"})
    BY <2>2, VoidedCalls
  <2>4. CallInv(c)'
    BY <1>4, <2>1 DEF Clear, Idle
  <2>5. \A d \in Threads \ {c} : PC(d)' = PC(d)
    BY <2>2, VoidedCalls
  <2>6. QED
    BY <2>1, <2>3, <2>4, <2>5
<1>5. ASSUME Cleanup(Maintainer) PROVE LockInv'
  <2>1. PICK kept, out \in SUBSET Starts : CleanedUp(kept, out)
    BY <1>5, CleanedUpPartitions
  <2>2. fileMu' = fileMu
    BY <1>5 DEF Cleanup
  <2>3. CASE mu' = mu /\ go' = go
    BY <2>2, <2>3
  <2>4. ASSUME NEW s \in kept, mu' = Maintainer,
               go' = [go EXCEPT ![Maintainer] =
                 [Idle EXCEPT !.pc = "save", !.op = "evict", !.id = partitions[s]]]
        PROVE  LockInv'
    <3>1. mu = None /\ PC(Maintainer) = "idle" /\ partitions[s] # None
      BY <2>1 DEF CleanedUp, Mapped
    <3>2. QED
      BY <2>2, <2>4, <3>1 DEF Idle
  <2>5. QED
    BY <2>1, <2>3, <2>4 DEF CleanedUp
<1>6. ASSUME Flush(Maintainer) PROVE LockInv'
  BY <1>6 DEF Flush, Idle, Mapped
<1>7. ASSUME NEW c \in Threads, Lookup(c) PROVE LockInv'
  BY <1>7 DEF Lookup, Found, Idle, Mapped
<1>8. ASSUME NEW c \in Threads, MapPartition(c) PROVE LockInv'
  BY <1>8 DEF MapPartition, Found, Idle, Mapped
<1>9. ASSUME NEW c \in Threads, Snapshot(c) PROVE LockInv'
  BY <1>9 DEF Snapshot
<1>10. ASSUME NEW c \in Threads, Insert(c) PROVE LockInv'
  BY <1>10 DEF Insert, Goto, Return, Idle
<1>11. ASSUME NEW c \in Threads, Rename(c) PROVE LockInv'
  BY <1>11 DEF Rename
<1>12. ASSUME NEW c \in Threads, SaveMeta(c) PROVE LockInv'
  <2>1. PC(c) \in {"rename", "meta"} /\ AfterSave(c, TRUE) /\ fileMu' = None
    BY <1>12 DEF SaveMeta, SaveFails
  <2>2. CASE go' = [go EXCEPT ![c] = Idle] /\ mu' = IF mu = c THEN None ELSE mu
    BY <2>1, <2>2, SMTT(30), ZenonT(30) DEF Idle
  <2>3. ASSUME NEW next \in Call, go' = [go EXCEPT ![c] = next], mu' = mu,
               next.pc = "next", next.op = Op(c), next.id = None,
               Op(c) \in {"flush", "clear", "delete"}
        PROVE  LockInv'
    BY <2>1, <2>3
  <2> HIDE DEF TypeOK, Call, LockInv, CallInv, PC, Op, Threads
  <2>4. QED
    BY <2>1, <2>2, <2>3, SavedCalls
<1>13. ASSUME NEW c \in Threads, SaveNext(c) PROVE LockInv'
  BY <1>13 DEF SaveNext
<1>14. ASSUME NEW c \in Threads, DeleteNext(c) PROVE LockInv'
  <2>1. PICK i \in Ids : Deleted(c, i)
    BY <1>14, DeletedObjects
  <2>2. mu' = mu /\ fileMu' = fileMu
    BY <1>14 DEF DeleteNext
  <2>3. ASSUME NEW d \in Threads \ {c} PROVE GoesOn(d)
    BY <2>1 DEF Deleted, GoesOn
  <2>4. ASSUME NEW d \in Threads \ {c}
        PROVE  CallInv(d)' /\ (Op(d) \in {"evict", "delete"} <=> Op(d)' \in {"evict", "delete"})
    BY <2>3, VoidedCalls
  <2>5. \A d \in Threads \ {c} : PC(d)' = PC(d)
    BY <2>3, VoidedCalls
  <2>6. /\ CallInv(c)' /\ Op(c)' = "delete" /\ mu = c
        /\ PC(c) = "next" /\ PC(c)' \in {"next", "save"}
    BY <2>1 DEF Deleted
  <2>7. QED
    BY <2>2, <2>4, <2>5, <2>6
<1>15. ASSUME NEW c \in Threads, Finish(c) PROVE LockInv'
  BY <1>15 DEF Finish, Return, Idle
<1>16. ASSUME NEW c \in Threads, SaveFails(c) PROVE LockInv'
  <2>1. PC(c) \in {"rename", "meta"} /\ AfterSave(c, FALSE) /\ fileMu' = None
    BY <1>16 DEF SaveMeta, SaveFails
  <2>2. CASE go' = [go EXCEPT ![c] = Idle] /\ mu' = IF mu = c THEN None ELSE mu
    BY <2>1, <2>2 DEF Idle
  <2>3. ASSUME NEW next \in Call, go' = [go EXCEPT ![c] = next], mu' = mu,
               next.pc = "next", next.op = Op(c), next.id = None,
               Op(c) \in {"flush", "clear", "delete"}
        PROVE  LockInv'
    BY <2>1, <2>3
  <2> HIDE DEF TypeOK, Call, LockInv, CallInv, PC, Op, Threads
  <2>4. QED
    BY <2>1, <2>2, <2>3, SavedCalls
<1>17. ASSUME Crash PROVE LockInv'
  BY <1>17 DEF Crash, Idle
<1>18. CASE UNCHANGED vars
  BY <1>18 DEF vars, disk, obs
<1>19. QED
  BY <1>1, <1>2, <1>3, <1>4, <1>5, <1>6, <1>7, <1>8, <1>9,
     <1>10, <1>11, <1>12, <1>13, <1>14, <1>15, <1>16, <1>17, <1>18
  DEF Next, LockStep, FreeStep

(* After a restart each listed file is mapped, to an object of its own.     *)
LEMMA RestartedObjects ==
  ASSUME TypeOK, FileInv, Crash
  PROVE  /\ heap' \in [Ids -> Object \union {None}]
         /\ partitions' \in [Starts -> Ids \union {None}]
         /\ \A s \in Starts \ Listed : partitions'[s] = None
         /\ \A s \in Listed : /\ partitions'[s] \in Ids
                              /\ heap'[partitions'[s]] = [start |-> s, has |-> file[s]]
         /\ \A i \in Ids : heap'[i] # None =>
              \E s \in Listed : heap'[i] = [start |-> s, has |-> file[s]]
<1>1. PICK f \in [Starts -> Ids] : \A s, r \in Starts : s # r => f[s] # f[r]
  BY ObjectAssumption
<1>2. [s \in Listed |-> f[s]] \in [Listed -> Ids]
  BY <1>1 DEF Listed, TypeOK
<1>3. \A s, r \in Listed : s # r => [u \in Listed |-> f[u]][s] # [u \in Listed |-> f[u]][r]
  BY <1>1 DEF Listed, TypeOK
<1> DEFINE id == CHOOSE g \in [Listed -> Ids] : \A s, r \in Listed : s # r => g[s] # g[r]
<1>4. id \in [Listed -> Ids] /\ \A s, r \in Listed : s # r => id[s] # id[r]
  BY <1>2, <1>3
<1>5. /\ partitions' = [s \in Starts |-> IF s \in Listed THEN id[s] ELSE None]
      /\ heap' = [i \in Ids |-> IF \E s \in Listed : id[s] = i
                THEN LET s == CHOOSE r \in Listed : id[r] = i
                     IN [start |-> s, has |-> file[s]]
                ELSE None]
  BY DEF Crash
<1> HIDE DEF id
<1>6. ASSUME NEW i \in Ids
      PROVE  \/ heap'[i] = None /\ \A s \in Listed : id[s] # i
             \/ \E s \in Listed : id[s] = i /\ heap'[i] = [start |-> s, has |-> file[s]]
  BY <1>4, <1>5
<1>7. ASSUME NEW s \in Listed PROVE s \in Starts /\ file[s] \in SUBSET Times
  <2>1. s \in Starts /\ file[s] # None
    BY DEF Listed, TypeOK
  <2>2. file[s] \in (SUBSET Times) \union {None}
    BY <2>1 DEF TypeOK
  <2>3. QED
    BY <2>1, <2>2
<1>8. heap' \in [Ids -> Object \union {None}]
  BY <1>5, <1>6, <1>7 DEF Object
<1>9. \A s \in Listed : partitions'[s] = id[s]
  BY <1>5, <1>7
<1>10. ASSUME NEW s \in Listed
       PROVE  heap'[id[s]] = [start |-> s, has |-> file[s]]
  <2>1. PICK r \in Listed : id[r] = id[s] /\ heap'[id[s]] = [start |-> r, has |-> file[r]]
    BY <1>4, <1>6
  <2>2. r = s
    BY <1>4, <2>1
  <2>3. QED
    BY <2>1, <2>2
<1>11. \A s \in Starts \ Listed : partitions'[s] = None
  BY <1>5
<1>12. partitions' \in [Starts -> Ids \union {None}]
  BY <1>4, <1>5
<1>13. QED
  BY <1>4, <1>6, <1>8, <1>9, <1>10, <1>11, <1>12

(* Objects stay well formed: a loaded partition has the content of its      *)
(* file, an insert adds a timestamp to its own partition (getPartition,     *)
(* partition.insert).                                                       *)
LEMMA ObjectsStep ==
  ASSUME TypeOK, LockInv, UseInv, FileInv, [Next]_vars
  PROVE  ObjectsOK'
<1>0. ObjectsOK /\ heap \in [Ids -> Object \union {None}]
  BY DEF TypeOK, ObjectsOK
<1>1. ASSUME NEW c \in workload.callers, NEW t \in workload.times, Set(c, t)
      PROVE  ObjectsOK'
  <2>1. heap' = heap /\ partitions' = partitions
    BY <1>1 DEF Set
  <2>2. QED
    BY <1>0, <2>1 DEF ObjectsOK, Mapped
<1>2. ASSUME NEW c \in workload.callers, NEW t \in workload.times, Get(c, t)
      PROVE  ObjectsOK'
  <2>1. heap' = heap /\ partitions' = partitions
    BY <1>2 DEF Get
  <2>2. QED
    BY <1>0, <2>1 DEF ObjectsOK, Mapped
<1>3. ASSUME NEW c \in workload.callers, NEW lo \in workload.times, NEW hi \in workload.times,
             DeleteRange(c, lo, hi)
      PROVE  ObjectsOK'
  <2>1. heap' = heap /\ partitions' = partitions
    BY <1>3 DEF DeleteRange
  <2>2. QED
    BY <1>0, <2>1 DEF ObjectsOK, Mapped
<1>4. ASSUME NEW c \in workload.callers, Clear(c) PROVE ObjectsOK'
  <2>1. heap' = heap /\ partitions' = [s \in Starts |-> None]
    BY <1>4 DEF Clear
  <2>2. QED
    BY <1>0, <2>1 DEF ObjectsOK, Mapped
<1>5. ASSUME Cleanup(Maintainer) PROVE ObjectsOK'
  <2>1. PICK kept, out \in SUBSET Starts : CleanedUp(kept, out)
    BY <1>5, CleanedUpPartitions
  <2>2. QED
    BY <1>0, <2>1, CollectedTypes DEF CleanedUp, ObjectsOK
<1>6. ASSUME Flush(Maintainer) PROVE ObjectsOK'
  <2>1. heap' = heap /\ partitions' = partitions
    BY <1>6 DEF Flush
  <2>2. QED
    BY <1>0, <2>1 DEF ObjectsOK, Mapped
<1>7. ASSUME NEW c \in Threads, Lookup(c) PROVE ObjectsOK'
  <2>1. heap' = heap /\ partitions' = partitions
    BY <1>7 DEF Lookup
  <2>2. QED
    BY <1>0, <2>1 DEF ObjectsOK, Mapped
<1>8. ASSUME NEW c \in Threads, MapPartition(c) PROVE ObjectsOK'
  <2>1. PICK t \in go[c].ts, id \in Ids, loaded \in BOOLEAN :
          /\ heap[id] = None /\ StartOf(t) \notin Mapped
          /\ partitions' = [partitions EXCEPT ![StartOf(t)] = id]
          /\ heap' = Collected([heap EXCEPT ![id] = ObjectFor(t, loaded)])
    BY <1>8 DEF MapPartition
  <2>2. t \in Times /\ StartOf(t) \in Starts
    BY StartTimes DEF TypeOK, Call
  <2>3. /\ ObjectFor(t, loaded) \in Object
        /\ ObjectFor(t, loaded).start = StartOf(t)
        /\ \A u \in ObjectFor(t, loaded).has : StartOf(u) = StartOf(t)
    <3>1. file[StartOf(t)] # None =>
            file[StartOf(t)] \in SUBSET Times /\ \A u \in file[StartOf(t)] : StartOf(u) = StartOf(t)
      BY <2>2 DEF FileInv, TypeOK
    <3>2. QED
      BY <2>2, <3>1 DEF ObjectFor, Object
  <2>4. ObjectFor(t, loaded) # None
    BY <2>3, ObjectAssumption
  <2> DEFINE h == [heap EXCEPT ![id] = ObjectFor(t, loaded)]
  <2>5. h \in [Ids -> Object \union {None}]
    BY <1>0, <2>3
  <2>6. /\ heap' \in [Ids -> Object \union {None}]
        /\ \A s \in Starts : partitions'[s] \in Ids => heap'[partitions'[s]] = h[partitions'[s]]
        /\ \A i \in Ids : heap'[i] # None => heap'[i] = h[i]
    <3> HIDE DEF h
    <3>1. heap' = Collected(h)
      BY <2>1 DEF h
    <3>2. QED
      BY <2>5, <3>1, CollectedObjects
  <2>7. \A i \in Ids : h[i] # None => \A u \in h[i].has : StartOf(u) = h[i].start
    BY <1>0, <2>3 DEF ObjectsOK
  <2>8. \A s \in Mapped' : h[partitions'[s]] # None /\ h[partitions'[s]].start = s
    BY <1>0, <2>1, <2>2, <2>3, <2>4 DEF Mapped, ObjectsOK
  <2>9. partitions' \in [Starts -> Ids \union {None}]
    BY <1>0, <2>1 DEF ObjectsOK
  <2> HIDE DEF h
  <2>10. QED
    BY <2>6, <2>7, <2>8, <2>9 DEF ObjectsOK, Mapped
<1>9. ASSUME NEW c \in Threads, Snapshot(c) PROVE ObjectsOK'
  <2>1. heap' = heap /\ partitions' = partitions
    BY <1>9 DEF Snapshot
  <2>2. QED
    BY <1>0, <2>1 DEF ObjectsOK, Mapped
<1>10. ASSUME NEW c \in Threads, Insert(c) PROVE ObjectsOK'
  <2>1. go[c].id \in Ids /\ heap[go[c].id] \in Object /\ go[c].ts \in SUBSET Times
    BY <1>10, ObjectInUse DEF Insert, PC
  <2>2. \A t \in go[c].ts : StartOf(t) = heap[go[c].id].start
    BY <1>10, <2>1, SyncAssumption DEF Insert, UseInv, UseOf, LockInv, CallInv, PC, Start
  <2> DEFINE h == [heap EXCEPT ![go[c].id].has = @ \union go[c].ts]
  <2>3. h[go[c].id] \in Object /\ h[go[c].id].start = heap[go[c].id].start
        /\ h[go[c].id].has = heap[go[c].id].has \union go[c].ts
    BY <1>0, <2>1 DEF Object
  <2>4. h \in [Ids -> Object \union {None}] /\ \A i \in Ids \ {go[c].id} : h[i] = heap[i]
    BY <1>0, <2>1, <2>3
  <2>5. h[go[c].id] # None /\ heap[go[c].id] # None
    BY <2>1, <2>3, ObjectAssumption
  <2>6. heap' = Collected(h) /\ partitions' = partitions
    BY <1>10 DEF Insert
  <2> HIDE DEF h
  <2>7. /\ heap' \in [Ids -> Object \union {None}]
        /\ \A s \in Starts : partitions'[s] \in Ids => heap'[partitions'[s]] = h[partitions'[s]]
        /\ \A i \in Ids : heap'[i] # None => heap'[i] = h[i]
    BY <2>4, <2>6, CollectedObjects
  <2>8. \A i \in Ids : h[i] # None => \A u \in h[i].has : StartOf(u) = h[i].start
    BY <1>0, <2>2, <2>3, <2>4, <2>5 DEF ObjectsOK
  <2>9. QED
    BY <1>0, <2>3, <2>4, <2>5, <2>6, <2>7, <2>8 DEF ObjectsOK, Mapped
<1>11. ASSUME NEW c \in Threads, Rename(c) PROVE ObjectsOK'
  <2>1. heap' = heap /\ partitions' = partitions
    BY <1>11 DEF Rename
  <2>2. QED
    BY <1>0, <2>1 DEF ObjectsOK, Mapped
<1>12. ASSUME NEW c \in Threads, SaveMeta(c) PROVE ObjectsOK'
  <2>1. Start(c) \in Starts
    BY <1>12, ObjectInUse DEF SaveMeta, SaveFails, PC
  <2>2. /\ partitions' \in [Starts -> Ids \union {None}]
        /\ \A s \in Starts : partitions'[s] \in {partitions[s], None}
        /\ heap' = Collected(heap)
    BY <1>12, <2>1, <1>0 DEF SaveMeta, SaveFails, AfterSave, Start, ObjectsOK
  <2>3. QED
    BY <1>0, <2>2, CollectedTypes
<1>13. ASSUME NEW c \in Threads, SaveNext(c) PROVE ObjectsOK'
  <2>1. heap' = heap /\ partitions' = partitions
    BY <1>13 DEF SaveNext
  <2>2. QED
    BY <1>0, <2>1 DEF ObjectsOK, Mapped
<1>14. ASSUME NEW c \in Threads, DeleteNext(c) PROVE ObjectsOK'
  <2>1. PICK i \in Ids : Deleted(c, i)
    BY <1>14, DeletedObjects
  <2>2. heap[i] \in Object /\ heap[i].start \in Starts
    BY <2>1 DEF Deleted, Object
  <2>3. CASE partitions' = partitions /\ heap' =
               [heap EXCEPT ![i] = [heap[i] EXCEPT !.has = heap[i].has \ (heap[i].has \intersect go[c].ts)]]
    <3>1. /\ heap'[i] \in Object /\ heap'[i].start = heap[i].start
          /\ heap'[i].has \subseteq heap[i].has
          /\ heap' \in [Ids -> Object \union {None}] /\ \A j \in Ids \ {i} : heap'[j] = heap[j]
      BY <1>0, <2>2, <2>3 DEF Object
    <3>2. heap'[i] # None /\ heap[i] # None
      BY <2>2, <3>1, ObjectAssumption
    <3>3. QED
      BY <1>0, <2>3, <3>1, <3>2 DEF ObjectsOK, Mapped
  <2>4. CASE /\ partitions' = [partitions EXCEPT ![heap[i].start] = None]
             /\ heap' = Collected(heap)
    BY <1>0, <2>2, <2>4, CollectedTypes DEF ObjectsOK
  <2>5. QED
    BY <2>1, <2>3, <2>4 DEF Deleted
<1>15. ASSUME NEW c \in Threads, Finish(c) PROVE ObjectsOK'
  <2>1. heap' = heap /\ partitions' = partitions
    BY <1>15 DEF Finish
  <2>2. QED
    BY <1>0, <2>1 DEF ObjectsOK, Mapped
<1>16. ASSUME NEW c \in Threads, SaveFails(c) PROVE ObjectsOK'
  <2>1. Start(c) \in Starts
    BY <1>16, ObjectInUse DEF SaveMeta, SaveFails, PC
  <2>2. /\ partitions' \in [Starts -> Ids \union {None}]
        /\ \A s \in Starts : partitions'[s] \in {partitions[s], None}
        /\ heap' = Collected(heap)
    BY <1>16, <2>1, <1>0 DEF SaveMeta, SaveFails, AfterSave, Start, ObjectsOK
  <2>3. QED
    BY <1>0, <2>2, CollectedTypes
<1>17. ASSUME Crash PROVE ObjectsOK'
  <2>1. /\ heap' \in [Ids -> Object \union {None}]
        /\ partitions' \in [Starts -> Ids \union {None}]
        /\ \A s \in Starts \ Listed : partitions'[s] = None
        /\ \A s \in Listed : /\ partitions'[s] \in Ids
                             /\ heap'[partitions'[s]] = [start |-> s, has |-> file[s]]
        /\ \A i \in Ids : heap'[i] # None =>
             \E s \in Listed : heap'[i] = [start |-> s, has |-> file[s]]
    BY <1>17, RestartedObjects
  <2>2. \A s \in Listed : s \in Starts /\ file[s] \in SUBSET Times
                          /\ \A t \in file[s] : StartOf(t) = s
    BY DEF Listed, TypeOK, FileInv
  <2>3. \A s \in Listed : [start |-> s, has |-> file[s]] # None
    BY <2>2, ObjectAssumption DEF Object
  <2>4. ASSUME NEW s \in Mapped'
        PROVE  heap'[partitions'[s]] # None /\ heap'[partitions'[s]].start = s
    <3>1. s \in Listed
      BY <2>1 DEF Mapped
    <3>2. heap'[partitions'[s]] = [start |-> s, has |-> file[s]]
      BY <2>1, <3>1
    <3>3. [start |-> s, has |-> file[s]].start = s
      OBVIOUS
    <3>4. QED
      BY <2>3, <3>1, <3>2, <3>3
  <2>5. \A i \in Ids : heap'[i] # None => \A t \in heap'[i].has : StartOf(t) = heap'[i].start
    BY <2>1, <2>2
  <2>6. QED
    BY <2>1, <2>4, <2>5 DEF ObjectsOK
<1>18. CASE UNCHANGED vars
  BY <1>0, <1>18 DEF vars, ObjectsOK, Mapped
<1>19. QED
  BY <1>1, <1>2, <1>3, <1>4, <1>5, <1>6, <1>7, <1>8, <1>9,
     <1>10, <1>11, <1>12, <1>13, <1>14, <1>15, <1>16, <1>17, <1>18
  DEF Next, LockStep, FreeStep

(* Every step keeps the variables within their types, and drops from acked  *)
(* what it spoils.                                                          *)
LEMMA TypesStep ==
  ASSUME TypeOK, LockInv, UseInv, FileInv, [Next]_vars
  PROVE  TypeOK'
<1>0. /\ ObjectsOK /\ ObjectsOK' /\ immediate \in BOOLEAN /\ workload \in Workloads
      /\ mu \in Threads \union {None} /\ fileMu \in Threads \union {None}
      /\ file \in [Starts -> (SUBSET Times) \union {None}]
      /\ meta \in SUBSET Starts /\ metaFile \in SUBSET Starts /\ go \in [Threads -> Call]
      /\ spoiled \in SUBSET Starts /\ acked \in SUBSET {t \in Times : StartOf(t) \notin spoiled}
  BY ObjectsStep DEF TypeOK
<1>1. ASSUME NEW c \in workload.callers, NEW t \in workload.times, Set(c, t)
      PROVE  TypeOK'
  BY <1>1, <1>0, CallersAreThreads DEF Set, Idle, Call, TypeOK, disk, obs
<1>2. ASSUME NEW c \in workload.callers, NEW t \in workload.times, Get(c, t)
      PROVE  TypeOK'
  BY <1>2, <1>0, CallersAreThreads DEF Get, Idle, Call, TypeOK, disk, obs
<1>3. ASSUME NEW c \in workload.callers, NEW lo \in workload.times, NEW hi \in workload.times,
             DeleteRange(c, lo, hi)
      PROVE  TypeOK'
  <2>1. {partitions[s] : s \in {s \in Mapped : StartOf(lo) <= s /\ s <= StartOf(hi)}} \in SUBSET Ids
    BY <1>0 DEF ObjectsOK, Mapped
  <2>2. go' \in [Threads -> Call] /\ mu' \in Threads \union {None}
    BY <1>3, <1>0, <2>1, CallersAreThreads DEF DeleteRange, Idle, Call
  <2>3. QED
    BY <1>3, <1>0, <2>2 DEF DeleteRange, TypeOK, disk, obs
<1>4. ASSUME NEW c \in workload.callers, Clear(c) PROVE TypeOK'
  <2>1. ASSUME NEW d \in Threads \ {c} PROVE go'[d] \in Call
    <3>1. GoesOn(d)
      BY <1>4 DEF Clear, GoesOn, Op
    <3>2. QED
      BY <1>0, <3>1, VoidedCalls
  <2>2. {partitions[s] : s \in Mapped} \in SUBSET Ids
    BY <1>0 DEF ObjectsOK, Mapped
  <2>3. c \in Threads /\ go'[c] \in Call /\ go' = [d \in Threads |-> go'[d]]
    BY <1>4, <2>2, CallersAreThreads DEF Clear, Idle, Call
  <2>4. go' \in [Threads -> Call]
    BY <2>1, <2>3
  <2>5. {heap[partitions[s]].start : s \in Mapped} \in SUBSET Starts
    BY <1>0 DEF ObjectsOK, Mapped
  <2>6. spoiled' \in SUBSET Starts /\ acked' \in SUBSET {t \in Times : StartOf(t) \notin spoiled'}
    BY <1>4, <1>0, <2>5 DEF Clear, Replaced, Sound
  <2>7. QED
    BY <1>4, <1>0, <2>4, <2>6 DEF Clear, TypeOK, disk
<1>5. ASSUME Cleanup(Maintainer) PROVE TypeOK'
  <2>1. PICK kept, out \in SUBSET Starts : CleanedUp(kept, out)
    BY <1>5, CleanedUpPartitions
  <2>2. go' \in [Threads -> Call] /\ mu' \in Threads \union {None}
    <3>1. ASSUME NEW s \in Mapped
          PROVE  [Idle EXCEPT !.pc = "save", !.op = "evict", !.id = partitions[s]] \in Call
      BY <1>0 DEF Idle, Call, Mapped, ObjectsOK
    <3>2. kept \subseteq Mapped /\ Maintainer \in Threads
      BY <2>1 DEF CleanedUp, Threads
    <3>3. CASE mu' = mu /\ go' = go
      BY <1>0, <3>3
    <3>4. ASSUME NEW s \in kept, mu' = Maintainer,
                 go' = [go EXCEPT ![Maintainer] =
                   [Idle EXCEPT !.pc = "save", !.op = "evict", !.id = partitions[s]]]
          PROVE  go' \in [Threads -> Call] /\ mu' \in Threads \union {None}
      <4> DEFINE call == [Idle EXCEPT !.pc = "save", !.op = "evict", !.id = partitions[s]]
      <4>1. call \in Call
        BY <3>1, <3>2
      <4> HIDE DEF call
      <4>2. go' = [go EXCEPT ![Maintainer] = call]
        BY <3>4 DEF call
      <4> QED
        BY <1>0, <3>2, <3>4, <4>1, <4>2
    <3>5. QED
      BY <2>1, <3>3, <3>4, Zenon DEF CleanedUp
  <2>3. {heap[partitions[s]].start : s \in Mapped} \in SUBSET Starts
    BY <1>0 DEF ObjectsOK, Mapped
  <2>4. spoiled' \in SUBSET Starts /\ acked' \in SUBSET {t \in Times : StartOf(t) \notin spoiled'}
    <3>1. Replaced({partitions[s] : s \in (Mapped \ kept) \union out}, Maintainer)
            \subseteq {heap[partitions[s]].start : s \in Mapped}
      <4> DEFINE gone == (Mapped \ kept) \union out
      <4>1. gone \subseteq Mapped
        BY <2>1 DEF CleanedUp
      <4> HIDE DEF gone
      <4>2. Replaced({partitions[s] : s \in gone}, Maintainer)
              \subseteq {heap[partitions[s]].start : s \in Mapped}
        BY <4>1, ReplacedStarts
      <4>3. QED
        BY <4>2 DEF gone
    <3>2. QED
      BY <1>0, <2>1, <2>3, <3>1 DEF CleanedUp, Sound
  <2>5. QED
    BY <1>5, <1>0, <2>2, <2>4 DEF Cleanup, TypeOK, disk
<1>6. ASSUME Flush(Maintainer) PROVE TypeOK'
  <2>1. {partitions[s] : s \in Mapped} \in SUBSET Ids
    BY <1>0 DEF ObjectsOK, Mapped
  <2>2. go' \in [Threads -> Call]
    BY <1>6, <1>0, <2>1 DEF Flush, Idle, Call
  <2>3. QED
    BY <1>6, <1>0, <2>2 DEF Flush, TypeOK, disk, obs
<1>7. ASSUME NEW c \in Threads, Lookup(c) PROVE TypeOK'
  <2>1. PICK t \in go[c].ts : StartOf(t) \in Mapped /\ Found(c, partitions[StartOf(t)])
    BY <1>7 DEF Lookup
  <2>2. partitions[StartOf(t)] \in Ids
    BY <1>0, <2>1 DEF ObjectsOK, Mapped
  <2>3. go' \in [Threads -> Call]
    BY <2>1, <2>2, FoundCalls
  <2>4. QED
    BY <1>7, <1>0, <2>3 DEF Lookup, TypeOK, disk, obs
<1>8. ASSUME NEW c \in Threads, MapPartition(c) PROVE TypeOK'
  <2>1. PICK t \in go[c].ts, id \in Ids :
          /\ Found(c, id)
          /\ spoiled' = spoiled \/ spoiled' = spoiled \union {StartOf(t)}
          /\ acked' = Sound(acked)
    BY <1>8 DEF MapPartition
  <2>2. StartOf(t) \in Starts
    BY <1>0, StartTimes DEF Call
  <2>3. go' \in [Threads -> Call]
    BY <2>1, FoundCalls
  <2>4. QED
    BY <1>8, <1>0, <2>1, <2>2, <2>3 DEF MapPartition, Sound, TypeOK, disk
<1>9. ASSUME NEW c \in Threads, Snapshot(c) PROVE TypeOK'
  <2>1. go[c] \in Call /\ heap[go[c].id].has \in SUBSET Times
    BY <1>9, ObjectInUse DEF Snapshot, PC, Object
  <2>2. [go[c] EXCEPT !.pc = "rename", !.snap = heap[go[c].id].has] \in Call
    BY <2>1 DEF Call
  <2>3. go' \in [Threads -> Call]
    BY <1>9, <1>0, <2>2 DEF Snapshot
  <2>4. QED
    BY <1>9, <1>0, <2>3 DEF Snapshot, TypeOK, disk, obs
<1>10. ASSUME NEW c \in Threads, Insert(c) PROVE TypeOK'
  <2>1. go[c].ts \in SUBSET Times
    BY <1>0 DEF Call
  <2>2. go' \in [Threads -> Call] /\ mu' \in Threads \union {None}
    BY <1>10, <1>0 DEF Insert, Goto, Return, Idle, Call
  <2>3. spoiled' = spoiled /\ acked' \in SUBSET {t \in Times : StartOf(t) \notin spoiled'}
    BY <1>10, <1>0, <2>1 DEF Insert, Sound
  <2>4. QED
    BY <1>10, <1>0, <2>2, <2>3 DEF Insert, TypeOK, disk
<1>11. ASSUME NEW c \in Threads, Rename(c) PROVE TypeOK'
  <2>1. go[c] \in Call /\ Start(c) \in Starts /\ go[c].snap \in SUBSET Times
    BY <1>11, ObjectInUse DEF Rename, PC
  <2>2. [go[c] EXCEPT !.pc = "meta", !.snap = {}] \in Call
    BY <2>1 DEF Call
  <2>3. go' \in [Threads -> Call]
    BY <1>11, <1>0, <2>2 DEF Rename
  <2>4. file' \in [Starts -> (SUBSET Times) \union {None}] /\ meta' \in SUBSET Starts
    BY <1>11, <1>0, <2>1 DEF Rename, Start, TypeOK
  <2>5. QED
    BY <1>11, <1>0, <2>3, <2>4 DEF Rename, TypeOK, obs
<1>12. ASSUME NEW c \in Threads, SaveMeta(c) PROVE TypeOK'
  <2>1. go' \in [Threads -> Call] /\ mu' \in Threads \union {None}
    <3>1. PC(c) \in {"rename", "meta"} /\ \E ok \in BOOLEAN : AfterSave(c, ok)
      BY <1>12 DEF SaveMeta, SaveFails, PC
    <3>2. Idle \in Call
      BY DEF Idle, Call
    <3>3. QED
      BY <1>0, <3>1, <3>2, SavedCalls
  <2>2. Start(c) \in Starts /\ go[c].ts \in SUBSET Times
    BY <1>12, ObjectInUse DEF SaveMeta, SaveFails, PC
  <2>3. /\ spoiled' \in SUBSET Starts
        /\ acked' \in SUBSET {t \in Times : StartOf(t) \notin spoiled'}
    BY <1>12, <1>0, <2>2 DEF SaveMeta, SaveFails, AfterSave, Sound, Start
  <2>4. QED
    BY <1>12, <1>0, <2>1, <2>3 DEF SaveMeta, SaveFails, disk, TypeOK
<1>13. ASSUME NEW c \in Threads, SaveNext(c) PROVE TypeOK'
  <2>1. PICK id \in go[c].todo : go' = [go EXCEPT ![c] = [@ EXCEPT !.pc = "save", !.id = id]]
    BY <1>13 DEF SaveNext
  <2>2. go[c] \in Call /\ id \in Ids
    BY <1>0 DEF Call
  <2>3. [go[c] EXCEPT !.pc = "save", !.id = id] \in Call
    BY <2>2 DEF Call
  <2>4. QED
    BY <1>13, <1>0, <2>1, <2>3 DEF SaveNext, TypeOK, disk, obs
<1>14. ASSUME NEW c \in Threads, DeleteNext(c) PROVE TypeOK'
  <2>1. PICK i \in Ids : Deleted(c, i)
    BY <1>14, DeletedObjects
  <2>2. go' \in [Threads -> Call] /\ heap[i].start \in Starts
        /\ acked' \in SUBSET {t \in Times : StartOf(t) \notin spoiled'}
    BY <1>0, <2>1 DEF Deleted, Object
  <2>3. spoiled' \in SUBSET Starts
    BY <1>0, <2>1, <2>2 DEF Deleted, Replaced
  <2>4. QED
    BY <1>14, <1>0, <2>2, <2>3 DEF DeleteNext, TypeOK, disk
<1>15. ASSUME NEW c \in Threads, Finish(c) PROVE TypeOK'
  BY <1>15, <1>0 DEF Finish, Return, Idle, Call, TypeOK, disk, obs
<1>16. ASSUME NEW c \in Threads, SaveFails(c) PROVE TypeOK'
  <2>1. go' \in [Threads -> Call] /\ mu' \in Threads \union {None}
    <3>1. PC(c) \in {"rename", "meta"} /\ \E ok \in BOOLEAN : AfterSave(c, ok)
      BY <1>16 DEF SaveMeta, SaveFails, PC
    <3>2. Idle \in Call
      BY DEF Idle, Call
    <3>3. QED
      BY <1>0, <3>1, <3>2, SavedCalls
  <2>2. Start(c) \in Starts /\ go[c].ts \in SUBSET Times
    BY <1>16, ObjectInUse DEF SaveMeta, SaveFails, PC
  <2>3. /\ spoiled' \in SUBSET Starts
        /\ acked' \in SUBSET {t \in Times : StartOf(t) \notin spoiled'}
    BY <1>16, <1>0, <2>2 DEF SaveMeta, SaveFails, AfterSave, Sound, Start
  <2>4. QED
    BY <1>16, <1>0, <2>1, <2>3 DEF SaveMeta, SaveFails, disk, TypeOK
<1>17. ASSUME Crash PROVE TypeOK'
  BY <1>17, <1>0 DEF Crash, Idle, Call, TypeOK, disk, obs
<1>18. CASE UNCHANGED vars
  BY <1>18, <1>0 DEF TypeOK, vars, disk, obs
<1>19. QED
  BY <1>1, <1>2, <1>3, <1>4, <1>5, <1>6, <1>7, <1>8, <1>9,
     <1>10, <1>11, <1>12, <1>13, <1>14, <1>15, <1>16, <1>17, <1>18
  DEF Next, LockStep, FreeStep

\* A step of the thread c, or of the program it runs.
Step(c) ==
  \/ /\ c \in workload.callers
     /\ \/ \E t \in workload.times : Set(c, t) \/ Get(c, t)
        \/ \E lo, hi \in workload.times : DeleteRange(c, lo, hi)
        \/ Clear(c)
  \/ c = Maintainer /\ (Cleanup(c) \/ Flush(c))
  \/ LockStep(c) \/ FreeStep(c) \/ SaveFails(c)

(* A step is one of a thread, unless the process ends.                      *)
LEMMA StepsOfThreads ==
  ASSUME TypeOK, [Next]_vars
  PROVE  Crash \/ UNCHANGED vars \/ \E c \in Threads : Step(c)
BY CallersAreThreads DEF Next, Step, Threads

\* What the step of another thread leaves to the call of d: the call itself, and
\* the map if it has mu.
Undisturbed(d) == GoesOn(d) /\ (Op(d) \in {"evict", "delete"} => partitions' = partitions)

(* No step disturbs the calls of other threads, and none changes the map    *)
(* under a thread that has mu.                                              *)
LEMMA Bystanders ==
  ASSUME TypeOK, LockInv, UseInv, NEW c \in Threads, Step(c), NEW d \in Threads \ {c}
  PROVE  Undisturbed(d)
<1> USE DEF Undisturbed
<1>0. Op(d) \in {"evict", "delete"} <=> mu = d
  BY DEF LockInv
<1>1. ASSUME NEW t \in workload.times, Set(c, t) PROVE Undisturbed(d)
  BY <1>1 DEF Set, TypeOK, GoesOn
<1>2. ASSUME NEW t \in workload.times, Get(c, t) PROVE Undisturbed(d)
  BY <1>2 DEF Get, TypeOK, GoesOn
<1>3. ASSUME NEW lo \in workload.times, NEW hi \in workload.times, DeleteRange(c, lo, hi)
      PROVE  Undisturbed(d)
  BY <1>3 DEF DeleteRange, TypeOK, GoesOn
<1>4. ASSUME Clear(c) PROVE Undisturbed(d)
  BY <1>4, <1>0, SyncAssumption DEF Clear, CanLock, GoesOn, Op
<1>5. ASSUME Cleanup(c), c = Maintainer PROVE Undisturbed(d)
  BY <1>5, <1>0, SyncAssumption, CleanedUpPartitions, SMTT(30), ZenonT(30)
    DEF CleanedUp, GoesOn, TypeOK
<1>6. ASSUME Flush(c), c = Maintainer PROVE Undisturbed(d)
  BY <1>6 DEF Flush, TypeOK, GoesOn
<1>7. ASSUME Lookup(c) PROVE Undisturbed(d)
  BY <1>7 DEF Lookup, Found, TypeOK, GoesOn
<1>8. ASSUME MapPartition(c) PROVE Undisturbed(d)
  BY <1>8, <1>0, SyncAssumption DEF MapPartition, Found, CanLock, GoesOn, TypeOK
<1>9. ASSUME Snapshot(c) PROVE Undisturbed(d)
  BY <1>9 DEF Snapshot, TypeOK, GoesOn
<1>10. ASSUME Insert(c) PROVE Undisturbed(d)
  BY <1>10 DEF Insert, Goto, Return, TypeOK, GoesOn
<1>11. ASSUME Rename(c) PROVE Undisturbed(d)
  BY <1>11 DEF Rename, TypeOK, GoesOn
<1>12. ASSUME SaveMeta(c) PROVE Undisturbed(d)
  <2>1. PC(c) \in {"rename", "meta"} /\ \E ok \in BOOLEAN : AfterSave(c, ok)
    BY <1>12 DEF SaveMeta, SaveFails, PC
  <2>2. go'[d] = go[d]
    BY <2>1, SavedCalls DEF TypeOK
  <2>3. Op(c) # "evict" => partitions' = partitions
    BY <1>12 DEF SaveMeta, SaveFails, AfterSave, Op
  <2>4. Op(c) = "evict" => mu = c
    BY DEF LockInv
  <2>5. QED
    BY <2>2, <2>3, <2>4 DEF GoesOn, LockInv
<1>13. ASSUME SaveNext(c) PROVE Undisturbed(d)
  BY <1>13 DEF SaveNext, TypeOK, GoesOn
<1>14. ASSUME DeleteNext(c) PROVE Undisturbed(d)
  <2>1. mu = c
    BY <1>14 DEF DeleteNext, LockInv, Op
  <2>2. GoesOn(d)
    <3>1. PICK i \in Ids : Deleted(c, i)
      BY <1>14, DeletedObjects
    <3>2. i # None
      BY SyncAssumption
    <3>3. QED
      BY <3>1, <3>2 DEF Deleted, GoesOn
  <2>3. QED
    BY <1>0, <2>1, <2>2
<1>15. ASSUME Finish(c) PROVE Undisturbed(d)
  BY <1>15 DEF Finish, Return, TypeOK, GoesOn
<1>16. ASSUME SaveFails(c) PROVE Undisturbed(d)
  <2>1. PC(c) \in {"rename", "meta"} /\ \E ok \in BOOLEAN : AfterSave(c, ok)
    BY <1>16 DEF SaveMeta, SaveFails, PC
  <2>2. go'[d] = go[d]
    BY <2>1, SavedCalls DEF TypeOK
  <2>3. Op(c) # "evict" => partitions' = partitions
    BY <1>16 DEF SaveMeta, SaveFails, AfterSave, Op
  <2>4. Op(c) = "evict" => mu = c
    BY DEF LockInv
  <2>5. QED
    BY <2>2, <2>3, <2>4 DEF GoesOn, LockInv
<1>17. QED
  BY <1>1, <1>2, <1>3, <1>4, <1>5, <1>6, <1>7, <1>8, <1>9,
     <1>10, <1>11, <1>12, <1>13, <1>14, <1>15, <1>16
  DEF Step, LockStep, FreeStep

\* The object i is the same partition as before.
Kept(i) == heap'[i] \in Object /\ heap'[i].start = heap[i].start

(* An object that a call refers to keeps its start, also when it was freed  *)
(* for all others.                                                          *)
LEMMA ObjectsKept ==
  ASSUME TypeOK, LockInv, UseInv, NEW c \in Threads, Step(c),
         NEW d \in Threads, NEW i \in Objects(d)', i \in Ids, heap[i] \in Object
  PROVE  Kept(i)
<1> USE DEF Kept
<1>1. ASSUME NEW t \in workload.times, Set(c, t) PROVE Kept(i)
  <2>1. heap' = heap
    BY <1>1 DEF Set
  <2>2. QED
    BY <2>1
<1>2. ASSUME NEW t \in workload.times, Get(c, t) PROVE Kept(i)
  <2>1. heap' = heap
    BY <1>2 DEF Get
  <2>2. QED
    BY <2>1
<1>3. ASSUME NEW lo \in workload.times, NEW hi \in workload.times, DeleteRange(c, lo, hi)
      PROVE  Kept(i)
  <2>1. heap' = heap
    BY <1>3 DEF DeleteRange
  <2>2. QED
    BY <2>1
<1>4. ASSUME Clear(c) PROVE Kept(i)
  <2>1. heap' = heap
    BY <1>4 DEF Clear
  <2>2. QED
    BY <2>1
<1>5. ASSUME Cleanup(c), c = Maintainer PROVE Kept(i)
  <2>1. heap' = Collected(heap) /\ heap \in [Ids -> Object \union {None}]
    BY <1>5 DEF Cleanup, AfterSave, TypeOK, ObjectsOK
  <2>2. heap'[i] = heap[i]
    BY <2>1, CollectedObjects
  <2>3. QED
    BY <2>2
<1>6. ASSUME Flush(c), c = Maintainer PROVE Kept(i)
  <2>1. heap' = heap
    BY <1>6 DEF Flush
  <2>2. QED
    BY <2>1
<1>7. ASSUME Lookup(c) PROVE Kept(i)
  <2>1. heap' = heap
    BY <1>7 DEF Lookup
  <2>2. QED
    BY <2>1
<1>8. ASSUME MapPartition(c) PROVE Kept(i)
  <2>1. PICK t \in go[c].ts, id \in Ids, loaded \in BOOLEAN :
          /\ heap[id] = None
          /\ heap' = Collected([heap EXCEPT ![id] = ObjectFor(t, loaded)])
    BY <1>8 DEF MapPartition
  <2> DEFINE h == [heap EXCEPT ![id] = ObjectFor(t, loaded)]
  <2>2. ObjectFor(t, loaded) \in Object
    <3>1. t \in Times
      BY DEF TypeOK, Call
    <3>2. StartOf(t) \in Starts
      BY <3>1, StartTimes
    <3>3. file[StartOf(t)] # None => file[StartOf(t)] \in SUBSET Times
      BY <3>2 DEF TypeOK
    <3>4. QED
      BY <3>2, <3>3 DEF ObjectFor, Object
  <2>3. h \in [Ids -> Object \union {None}] /\ (i # id => h[i] = heap[i])
    BY <2>2 DEF TypeOK, ObjectsOK
  <2>4. heap' = Collected(h)
    BY <2>1
  <2> HIDE DEF h
  <2>5. heap'[i] = h[i]
    BY <2>3, <2>4, CollectedObjects
  <2>6. i # id
    BY <2>1, ObjectAssumption
  <2>7. QED
    BY <2>3, <2>5, <2>6
<1>9. ASSUME Snapshot(c) PROVE Kept(i)
  <2>1. heap' = heap
    BY <1>9 DEF Snapshot
  <2>2. QED
    BY <2>1
<1>10. ASSUME Insert(c) PROVE Kept(i)
  <2> DEFINE h == [heap EXCEPT ![go[c].id].has = @ \union go[c].ts]
  <2>1. go[c].id \in Ids /\ heap[go[c].id] \in Object /\ go[c].ts \in SUBSET Times
    BY <1>10, ObjectInUse DEF Insert, PC
  <2>2. h[go[c].id] \in Object /\ h[go[c].id].start = heap[go[c].id].start
    BY <2>1 DEF Object, TypeOK, ObjectsOK
  <2>3. h \in [Ids -> Object \union {None}] /\ \A j \in Ids \ {go[c].id} : h[j] = heap[j]
    BY <2>1, <2>2 DEF TypeOK, ObjectsOK
  <2>4. heap' = Collected(h)
    BY <1>10 DEF Insert
  <2> HIDE DEF h
  <2>5. heap'[i] = h[i]
    BY <2>3, <2>4, CollectedObjects
  <2>6. QED
    BY <2>2, <2>3, <2>5
<1>11. ASSUME Rename(c) PROVE Kept(i)
  <2>1. heap' = heap
    BY <1>11 DEF Rename
  <2>2. QED
    BY <2>1
<1>12. ASSUME SaveMeta(c) PROVE Kept(i)
  <2>1. heap' = Collected(heap) /\ heap \in [Ids -> Object \union {None}]
    BY <1>12 DEF SaveMeta, AfterSave, TypeOK, ObjectsOK
  <2>2. heap'[i] = heap[i]
    BY <2>1, CollectedObjects
  <2>3. QED
    BY <2>2
<1>13. ASSUME SaveNext(c) PROVE Kept(i)
  <2>1. heap' = heap
    BY <1>13 DEF SaveNext
  <2>2. QED
    BY <2>1
<1>14. ASSUME DeleteNext(c) PROVE Kept(i)
  <2>1. PICK j \in Ids : Deleted(c, j)
    BY <1>14, DeletedObjects
  <2>2. CASE heap' = Collected(heap)
    <3>1. heap'[i] = heap[i]
      BY <2>2, CollectedObjects DEF TypeOK, ObjectsOK
    <3>2. QED
      BY <3>1
  <2>3. CASE heap' = [heap EXCEPT ![j] = [heap[j] EXCEPT !.has =
                        heap[j].has \ (heap[j].has \intersect go[c].ts)]]
    BY <2>1, <2>3 DEF Deleted, Object, TypeOK, ObjectsOK
  <2>4. QED
    BY <2>1, <2>2, <2>3 DEF Deleted
<1>15. ASSUME Finish(c) PROVE Kept(i)
  <2>1. heap' = heap
    BY <1>15 DEF Finish
  <2>2. QED
    BY <2>1
<1>16. ASSUME SaveFails(c) PROVE Kept(i)
  <2>1. heap' = Collected(heap) /\ heap \in [Ids -> Object \union {None}]
    BY <1>16 DEF SaveFails, AfterSave, TypeOK, ObjectsOK
  <2>2. heap'[i] = heap[i]
    BY <2>1, CollectedObjects
  <2>3. QED
    BY <2>2
<1>17. QED
  BY <1>1, <1>2, <1>3, <1>4, <1>5, <1>6, <1>7, <1>8, <1>9,
     <1>10, <1>11, <1>12, <1>13, <1>14, <1>15, <1>16
  DEF Step, LockStep, FreeStep

(* What a call refers to is an object in use.                               *)
LEMMA ObjectsOf ==
  ASSUME TypeOK, UseInv, NEW c \in Threads, NEW i \in Objects(c)
  PROVE  i \in Ids /\ heap[i] \in Object /\ heap[i].start \in Starts
<1>1. i \in Ids /\ heap[i] # None
  BY DEF UseInv, UseOf, Objects, Uses, TypeOK, Call
<1>2. QED
  BY <1>1 DEF TypeOK, ObjectsOK, Object

(* The other calls keep their objects, with their partitions, through a     *)
(* step of c.                                                               *)
LEMMA OthersObjects ==
  ASSUME TypeOK, LockInv, UseInv, NEW c \in Threads, Step(c), NEW d \in Threads \ {c}
  PROVE  /\ Objects(d)' = Objects(d) /\ \A i \in Objects(d) : i \in Ids /\ Kept(i)
         /\ PC(d)' = PC(d) /\ go'[d].id = go[d].id /\ go'[d].ts = go[d].ts
         /\ go'[d].snap = go[d].snap
         /\ Op(d)' = Op(d) \/ (Op(d) = "set" /\ go[d].id # None /\ Op(d)' = "voidset")
         /\ go[d].id # None => go[d].id \in Objects(d) /\ Start(d)' = Start(d)
<1>1. GoesOn(d) /\ go[d] \in Call
  BY Bystanders DEF Undisturbed, TypeOK
<1>2. Objects(d)' = Objects(d)
  BY <1>1, VoidedCalls DEF Objects, Uses
<1>3. \A i \in Objects(d) : i \in Ids /\ Kept(i)
  BY <1>2, ObjectsOf, ObjectsKept
<1>4. go[d].id # None => go[d].id \in Objects(d)
  BY DEF Objects, Uses
<1>5. go'[d].id = go[d].id
  BY <1>1, VoidedCalls
<1>6. go[d].id # None => Start(d)' = Start(d)
  BY <1>3, <1>4, <1>5 DEF Start, Kept
<1>7. QED
  BY <1>1, <1>2, <1>3, <1>4, <1>6, VoidedCalls DEF PC, Op

(* What the other calls refer to is in use after a step of c.               *)
LEMMA UseOfOthers ==
  ASSUME TypeOK, LockInv, UseInv, NEW c \in Threads, Step(c), NEW d \in Threads \ {c}
  PROVE  UseOf(d)'
<1>1. UseOf(d) /\ Undisturbed(d)
  BY Bystanders DEF UseInv
<1>2. \A i \in Objects(d)' : heap'[i] # None
  BY OthersObjects, ObjectAssumption DEF Kept
<1>3. Op(d)' \in {"set", "voidset"} /\ go'[d].id # None =>
        \A t \in go'[d].ts : StartOf(t) = Start(d)'
  BY <1>1, OthersObjects DEF UseOf
<1>4. Op(d)' = "delete" =>
        /\ \A i \in Objects(d)' : partitions'[heap'[i].start] = i
        /\ \A t \in Times :
             (\E a, b \in go'[d].ts : a <= t /\ t <= b) => t \in go'[d].ts
  BY <1>1, OthersObjects DEF UseOf, Undisturbed, Kept
<1>5. QED
  BY <1>2, <1>3, <1>4 DEF UseOf

(* A Set that found its partition refers to it.                             *)
LEMMA FoundUse ==
  ASSUME TypeOK, LockInv, NEW c \in Threads, PC(c) = "lookup", NEW t \in go[c].ts,
         NEW id \in Ids, Found(c, id), heap'[id] # None, heap'[id].start = StartOf(t)
  PROVE  UseOf(c)'
<1>1. go[c] \in Call /\ CallInv(c)
  BY DEF TypeOK, LockInv
<1>2. CASE go'[c] = Idle
  BY <1>2 DEF UseOf, Idle, Objects, Uses, Op
<1>3. CASE /\ Op(c) # "get" /\ Op(c)' = Op(c) /\ go'[c].id = id
           /\ go'[c].ts = go[c].ts /\ go'[c].todo = go[c].todo
  <2>1. Op(c) = "set" /\ go[c].todo = {} /\ go[c].ts = {t}
    BY <1>1, <1>3 DEF CallInv
  <2>2. Objects(c)' = {id}
    BY <1>3, <2>1, SyncAssumption DEF Objects, Uses
  <2>3. QED
    BY <1>3, <2>1, <2>2 DEF UseOf, Start
<1>4. QED
  BY <1>2, <1>3, FoundCalls

(* What a call comes to refer to is in use, and mapped if it deletes.       *)
LEMMA UseOfOwn ==
  ASSUME TypeOK, LockInv, UseInv, ObjectsOK', NEW c \in Threads, Step(c)
  PROVE  UseOf(c)'
<1>0. go \in [Threads -> Call] /\ go[c] \in Call
  BY DEF TypeOK
<1>1. ASSUME NEW t \in workload.times, Set(c, t) PROVE UseOf(c)'
  <2>1. Objects(c)' = {} /\ go'[c].id = None /\ Op(c)' # "delete"
    BY <1>1 DEF Set, Idle, Objects, Uses, TypeOK, Op
  <2>2. QED
    BY <2>1 DEF UseOf
<1>2. ASSUME NEW t \in workload.times, Get(c, t) PROVE UseOf(c)'
  <2>1. Objects(c)' = {} /\ go'[c].id = None /\ Op(c)' # "delete"
    BY <1>2 DEF Get, Idle, Objects, Uses, TypeOK, Op
  <2>2. QED
    BY <2>1 DEF UseOf
<1>3. ASSUME NEW lo \in workload.times, NEW hi \in workload.times, DeleteRange(c, lo, hi)
      PROVE  UseOf(c)'
  <2> DEFINE hit == {s \in Mapped : StartOf(lo) <= s /\ s <= StartOf(hi)}
  <2>1. /\ Objects(c)' = {partitions[s] : s \in hit} /\ go'[c].id = None /\ Op(c)' = "delete"
        /\ heap' = heap /\ partitions' = partitions
        /\ go'[c].ts = {t \in Times : lo <= t /\ t <= hi}
    BY <1>3, <1>0 DEF DeleteRange, Idle, Objects, Uses, Op, Mapped
  <2>2. \A s \in hit : heap[partitions[s]] # None /\ heap[partitions[s]].start = s
    BY DEF TypeOK, ObjectsOK
  <2>3. lo \in Nat /\ hi \in Nat /\ Times \subseteq Nat
    BY CallersAreThreads, SyncAssumption
  <2> HIDE DEF hit
  <2>4. \A t \in Times : (\E a, b \in go'[c].ts : a <= t /\ t <= b) => t \in go'[c].ts
    <3>1. ASSUME NEW t \in Times, NEW a \in go'[c].ts, NEW b \in go'[c].ts, a <= t, t <= b
          PROVE  lo <= t /\ t <= hi
      <4>1. a \in Nat /\ b \in Nat /\ t \in Nat /\ lo <= a /\ b <= hi
        BY <2>1, <2>3
      <4>2. QED
        BY <2>3, <3>1, <4>1
    <3>2. QED
      BY <2>1, <3>1
  <2>5. QED
    BY <2>1, <2>2, <2>4 DEF UseOf
<1>4. ASSUME Clear(c) PROVE UseOf(c)'
  <2>1. Objects(c)' = {partitions[s] : s \in Mapped} /\ Op(c)' = "clear" /\ heap' = heap
    BY <1>4, <1>0 DEF Clear, Idle, Objects, Uses, Op, Mapped
  <2>2. QED
    BY <2>1 DEF UseOf, TypeOK, ObjectsOK
<1>5. ASSUME Cleanup(c), c = Maintainer PROVE UseOf(c)'
  <2>1. PICK kept, out \in SUBSET Starts : CleanedUp(kept, out)
    BY <1>5, CleanedUpPartitions
  <2>2. CASE go' = go
    <3>1. Objects(c)' = Objects(c) /\ Op(c)' = Op(c) /\ go'[c].id = go[c].id /\ PC(c) = "idle"
      BY <1>5, <2>1, <2>2 DEF CleanedUp, Objects, Uses, Op
    <3>2. Objects(c) = {} /\ go[c].id = None /\ Op(c) = "none"
      BY <3>1 DEF LockInv, CallInv, Objects, Uses
    <3>3. QED
      BY <3>1, <3>2 DEF UseOf
  <2>3. ASSUME NEW s \in kept,
               go' = [go EXCEPT ![c] =
                 [Idle EXCEPT !.pc = "save", !.op = "evict", !.id = partitions[s]]]
        PROVE  UseOf(c)'
    <3>1. s \in Mapped /\ partitions[s] \in Ids /\ heap[partitions[s]] \in Object
      <4>1. s \in Mapped
        BY <2>1 DEF CleanedUp
      <4>2. QED
        BY <4>1 DEF TypeOK, ObjectsOK, Mapped
    <3>2. Objects(c)' = {partitions[s]} /\ Op(c)' = "evict"
      BY <1>0, <2>3, <3>1, SyncAssumption DEF Idle, Objects, Uses, Op
    <3>3. heap'[partitions[s]] # None
      BY <3>1, <3>2, ObjectsKept, ObjectAssumption DEF Kept
    <3>4. QED
      BY <3>2, <3>3 DEF UseOf
  <2>4. QED
    BY <1>5, <2>1, <2>2, <2>3 DEF CleanedUp
<1>6. ASSUME Flush(c), c = Maintainer PROVE UseOf(c)'
  <2>1. Objects(c)' = {partitions[s] : s \in Mapped} /\ Op(c)' = "flush" /\ heap' = heap
    BY <1>6, <1>0 DEF Flush, Idle, Objects, Uses, Op, Mapped
  <2>2. QED
    BY <2>1 DEF UseOf, TypeOK, ObjectsOK
<1>7. ASSUME Lookup(c) PROVE UseOf(c)'
  <2>1. PICK t \in go[c].ts : StartOf(t) \in Mapped /\ Found(c, partitions[StartOf(t)])
    BY <1>7 DEF Lookup
  <2>2. /\ partitions[StartOf(t)] \in Ids /\ heap[partitions[StartOf(t)]] # None
        /\ heap[partitions[StartOf(t)]].start = StartOf(t) /\ heap' = heap
    BY <1>7, <2>1 DEF Lookup, TypeOK, ObjectsOK, Mapped
  <2>3. QED
    BY <1>7, <2>1, <2>2, FoundUse DEF Lookup, PC
<1>8. ASSUME MapPartition(c) PROVE UseOf(c)'
  <2>1. PICK t \in go[c].ts, id \in Ids :
          /\ StartOf(t) \notin Mapped /\ Found(c, id)
          /\ partitions' = [partitions EXCEPT ![StartOf(t)] = id]
    BY <1>8 DEF MapPartition
  <2>2. t \in Times /\ StartOf(t) \in Starts
    BY <1>0, StartTimes DEF Call
  <2>3. partitions'[StartOf(t)] = id
    BY <2>1, <2>2 DEF TypeOK, ObjectsOK
  <2>4. heap'[id] # None /\ heap'[id].start = StartOf(t)
    BY <2>2, <2>3, SyncAssumption DEF ObjectsOK, Mapped
  <2>5. QED
    BY <1>8, <2>1, <2>4, FoundUse DEF MapPartition, PC
<1>9. ASSUME Snapshot(c) PROVE UseOf(c)'
  <2>1. /\ Objects(c)' = Objects(c) /\ heap' = heap /\ partitions' = partitions
        /\ go'[c].id = go[c].id /\ go'[c].ts = go[c].ts /\ Op(c)' = Op(c)
    BY <1>9 DEF Snapshot, Objects, Uses, TypeOK, Op, Call
  <2>2. QED
    BY <2>1 DEF UseInv, UseOf, Start
<1>10. ASSUME Insert(c) PROVE UseOf(c)'
  <2>1. Objects(c)' = {} \/ (Objects(c)' = Objects(c) /\ Op(c)' = Op(c) /\ go'[c].id = go[c].id
                               /\ go'[c].ts = go[c].ts)
    BY <1>10, <1>0 DEF Insert, Goto, Return, Idle, Objects, Uses, Op, Call
  <2>2. Op(c)' # "delete"
    BY <1>10, <1>0 DEF Insert, Goto, Return, Idle, LockInv, CallInv, PC, Op, Call
  <2>3. \A i \in Objects(c)' : heap'[i] # None
    BY <2>1, ObjectsOf, ObjectsKept, ObjectAssumption DEF Kept
  <2>4. CASE Objects(c)' = {}
    <3>1. go'[c].id = None
      BY <2>4 DEF Objects, Uses
    <3>2. QED
      BY <2>2, <2>4, <3>1 DEF UseOf
  <2>5. CASE Objects(c)' = Objects(c) /\ Op(c)' = Op(c) /\ go'[c].id = go[c].id
             /\ go'[c].ts = go[c].ts
    <3>1. go[c].id \in Objects(c)
      BY <1>10, ObjectInUse DEF Insert, PC
    <3>2. Start(c)' = Start(c)
      BY <2>5, <3>1, ObjectsOf, ObjectsKept DEF Kept, Start
    <3>3. QED
      BY <2>2, <2>3, <2>5, <3>2 DEF UseInv, UseOf
  <2>6. QED
    BY <2>1, <2>4, <2>5
<1>11. ASSUME Rename(c) PROVE UseOf(c)'
  <2>1. /\ Objects(c)' = Objects(c) /\ heap' = heap /\ partitions' = partitions
        /\ go'[c].id = go[c].id /\ go'[c].ts = go[c].ts /\ Op(c)' = Op(c)
    BY <1>11 DEF Rename, Objects, Uses, TypeOK, Op, Call
  <2>2. QED
    BY <2>1 DEF UseInv, UseOf, Start
<1>12. ASSUME SaveMeta(c) PROVE UseOf(c)'
  <2>1. PC(c) \in {"rename", "meta"} /\ (\E ok \in BOOLEAN : AfterSave(c, ok))
    BY <1>12 DEF SaveMeta, SaveFails, PC
  <2>2. CASE go' = [go EXCEPT ![c] = Idle]
    <3>1. Objects(c)' = {} /\ go'[c].id = None /\ Op(c)' # "delete"
      BY <2>2 DEF Idle, Objects, Uses, TypeOK, Op
    <3>2. QED
      BY <3>1 DEF UseOf
  <2>3. ASSUME NEW next \in Call, go' = [go EXCEPT ![c] = next],
               next.op = Op(c), next.ts = go[c].ts, next.id = None,
               next.todo = go[c].todo \ {go[c].id}, Op(c) \in {"flush", "clear", "delete"}
        PROVE  UseOf(c)'
    <3>1. /\ go'[c].id = None /\ Op(c)' = Op(c) /\ go'[c].ts = go[c].ts
          /\ Objects(c)' \subseteq Objects(c)
      BY <2>3 DEF Objects, Uses, TypeOK, Op
    <3>2. Op(c) = "delete" => partitions' = partitions
      BY <2>1 DEF AfterSave, Op
    <3>3. \A i \in Objects(c)' : i \in Objects(c) /\ Kept(i) /\ heap'[i] # None
      BY <3>1, ObjectsOf, ObjectsKept, ObjectAssumption DEF Kept
    <3>4. QED
      BY <2>3, <3>1, <3>2, <3>3 DEF UseInv, UseOf, Kept
  <2>4. QED
    BY <2>1, <2>2, <2>3, SavedCalls
<1>13. ASSUME SaveNext(c) PROVE UseOf(c)'
  <2>1. PICK id \in go[c].todo : go' = [go EXCEPT ![c] = [@ EXCEPT !.pc = "save", !.id = id]]
    BY <1>13 DEF SaveNext
  <2>2. /\ go'[c].todo = go[c].todo /\ go'[c].id = id /\ Op(c)' = Op(c)
        /\ Op(c) \in {"flush", "clear"} /\ heap' = heap
    BY <1>13, <1>0, <2>1 DEF SaveNext, Call, Op
  <2>3. Objects(c)' \subseteq Objects(c)
    BY <2>1, <2>2 DEF Objects, Uses
  <2>4. QED
    BY <2>2, <2>3 DEF UseInv, UseOf
<1>14. ASSUME DeleteNext(c) PROVE UseOf(c)'
  <2>1. PICK j \in Ids : Deleted(c, j)
    BY <1>14, DeletedObjects
  <2>2. Op(c)' = "delete" /\ go'[c].ts = go[c].ts /\ Objects(c)' \subseteq Objects(c)
    BY <2>1 DEF Deleted, Objects, Uses, Op
  <2>3. ASSUME NEW i \in Objects(c)'
        PROVE  heap'[i] # None /\ partitions'[heap'[i].start] = i
    <3>1. /\ i \in Objects(c) /\ i \in Ids /\ heap[i] \in Object /\ heap[i].start \in Starts
          /\ Kept(i) /\ partitions[heap[i].start] = i
      BY <2>1, <2>2, ObjectsOf, ObjectsKept DEF UseInv, UseOf, Deleted
    <3>2. partitions' = partitions \/
            (i # j /\ partitions' = [partitions EXCEPT ![heap[j].start] = None])
      BY <2>1 DEF Deleted, Objects, Uses
    <3>3. partitions'[heap[i].start] = i
      BY <2>1, <3>1, <3>2 DEF Deleted, TypeOK, ObjectsOK
    <3>4. QED
      BY <3>1, <3>3, ObjectAssumption DEF Kept
  <2>4. QED
    BY <2>1, <2>2, <2>3 DEF UseInv, UseOf, Deleted
<1>15. ASSUME Finish(c) PROVE UseOf(c)'
  <2>1. Objects(c)' = {} /\ go'[c].id = None /\ Op(c)' # "delete"
    BY <1>15 DEF Finish, Return, Idle, Objects, Uses, TypeOK, Op
  <2>2. QED
    BY <2>1 DEF UseOf
<1>16. ASSUME SaveFails(c) PROVE UseOf(c)'
  <2>1. PC(c) \in {"rename", "meta"} /\ (\E ok \in BOOLEAN : AfterSave(c, ok))
    BY <1>16 DEF SaveMeta, SaveFails, PC
  <2>2. CASE go' = [go EXCEPT ![c] = Idle]
    <3>1. Objects(c)' = {} /\ go'[c].id = None /\ Op(c)' # "delete"
      BY <2>2 DEF Idle, Objects, Uses, TypeOK, Op
    <3>2. QED
      BY <3>1 DEF UseOf
  <2>3. ASSUME NEW next \in Call, go' = [go EXCEPT ![c] = next],
               next.op = Op(c), next.ts = go[c].ts, next.id = None,
               next.todo = go[c].todo \ {go[c].id}, Op(c) \in {"flush", "clear", "delete"}
        PROVE  UseOf(c)'
    <3>1. /\ go'[c].id = None /\ Op(c)' = Op(c) /\ go'[c].ts = go[c].ts
          /\ Objects(c)' \subseteq Objects(c)
      BY <2>3 DEF Objects, Uses, TypeOK, Op
    <3>2. Op(c) = "delete" => partitions' = partitions
      BY <2>1 DEF AfterSave, Op
    <3>3. \A i \in Objects(c)' : i \in Objects(c) /\ Kept(i) /\ heap'[i] # None
      BY <3>1, ObjectsOf, ObjectsKept, ObjectAssumption DEF Kept
    <3>4. QED
      BY <2>3, <3>1, <3>2, <3>3 DEF UseInv, UseOf, Kept
  <2>4. QED
    BY <2>1, <2>2, <2>3, SavedCalls
<1>17. QED
  BY <1>1, <1>2, <1>3, <1>4, <1>5, <1>6, <1>7, <1>8, <1>9,
     <1>10, <1>11, <1>12, <1>13, <1>14, <1>15, <1>16
  DEF Step, LockStep, FreeStep

(* What every call refers to is in use, after any step.                     *)
LEMMA UseStep ==
  ASSUME TypeOK, LockInv, UseInv, ObjectsOK', [Next]_vars
  PROVE  UseInv'
<1>1. CASE Crash
  BY <1>1 DEF Crash, Idle, UseInv, UseOf, Objects, Uses, Op
<1>2. CASE UNCHANGED vars
  BY <1>2 DEF vars, UseInv, UseOf, Objects, Uses, Op, Start
<1>3. ASSUME NEW c \in Threads, Step(c) PROVE UseInv'
  BY <1>3, UseOfOthers, UseOfOwn DEF UseInv
<1>4. QED
  BY <1>1, <1>2, <1>3, StepsOfThreads

(* Where the step of c leaves a save: a Set saves what it has inserted, only *)
(* after a snapshot is there something to rename, only Rename changes a file *)
(* and leaves the metadata to save.                                          *)
Wrote(c) ==
  /\ immediate' = immediate
  /\ file' = file \/ Rename(c)
  /\ PC(c)' = "save" /\ Op(c)' = "set" => Insert(c)
  /\ PC(c)' = "rename" => Snapshot(c)
  /\ PC(c)' = "meta" => Rename(c)

(* Every step of a thread is as Wrote says.                                 *)
LEMMA SaveSteps ==
  ASSUME TypeOK, LockInv, UseInv, NEW c \in Threads, Step(c)
  PROVE  Wrote(c)
<1>0. go \in [Threads -> Call] /\ go[c] \in Call
  BY DEF TypeOK
<1>1. ASSUME NEW t \in workload.times, Set(c, t) PROVE Wrote(c)
  BY <1>1, <1>0 DEF Wrote, Set, Idle, PC, Op, Call, disk
<1>2. ASSUME NEW t \in workload.times, Get(c, t) PROVE Wrote(c)
  BY <1>2, <1>0 DEF Wrote, Get, Idle, PC, Op, Call, disk
<1>3. ASSUME NEW lo \in workload.times, NEW hi \in workload.times, DeleteRange(c, lo, hi)
      PROVE  Wrote(c)
  BY <1>3, <1>0 DEF Wrote, DeleteRange, Idle, PC, Op, Call, disk
<1>4. ASSUME Clear(c) PROVE Wrote(c)
  BY <1>4, <1>0 DEF Wrote, Clear, Idle, PC, Op, Call, disk
<1>5. ASSUME Cleanup(c), c = Maintainer PROVE Wrote(c)
  <2>1. PICK kept, out \in SUBSET Starts : CleanedUp(kept, out)
    BY <1>5, CleanedUpPartitions
  <2>2. PC(c)' \in {"idle", "save"} /\ (PC(c)' = "save" => Op(c)' = "evict")
    BY <1>5, <1>0, <2>1 DEF CleanedUp, Idle, PC, Op
  <2>3. QED
    BY <1>5, <2>2 DEF Wrote, Cleanup, disk
<1>6. ASSUME Flush(c), c = Maintainer PROVE Wrote(c)
  BY <1>6, <1>0 DEF Wrote, Flush, Idle, PC, Op, Call, disk
<1>7. ASSUME Lookup(c) PROVE Wrote(c)
  BY <1>7, <1>0 DEF Wrote, Lookup, Found, Idle, PC, Op, Call, disk
<1>8. ASSUME MapPartition(c) PROVE Wrote(c)
  BY <1>8, <1>0 DEF Wrote, MapPartition, Found, Idle, PC, Op, Call, disk
<1>9. ASSUME Snapshot(c) PROVE Wrote(c)
  BY <1>9, <1>0 DEF Wrote, Snapshot, PC, Op, Call, disk
<1>10. ASSUME Insert(c) PROVE Wrote(c)
  BY <1>10, <1>0 DEF Wrote, Insert, Goto, Return, Idle, PC, Op, Call, disk
<1>11. ASSUME Rename(c) PROVE Wrote(c)
  BY <1>11, <1>0 DEF Wrote, Rename, PC, Op, Call, disk
<1>12. ASSUME SaveMeta(c) PROVE Wrote(c)
  <2>1. PC(c) \in {"rename", "meta"} /\ \E ok \in BOOLEAN : AfterSave(c, ok)
    BY <1>12 DEF SaveMeta, PC
  <2>2. PC(c)' \in {"idle", "next"}
    BY <2>1, SavedCalls DEF Idle, TypeOK, PC
  <2>3. QED
    BY <1>12, <2>2 DEF Wrote, SaveMeta, disk
<1>13. ASSUME SaveNext(c) PROVE Wrote(c)
  BY <1>13, <1>0 DEF Wrote, SaveNext, PC, Op, Call, disk
<1>14. ASSUME DeleteNext(c) PROVE Wrote(c)
  <2>1. PC(c)' \in {"next", "save"} /\ Op(c)' = "delete"
    BY <1>14, DeletedObjects DEF Deleted, PC, Op
  <2>2. QED
    BY <1>14, <2>1 DEF Wrote, DeleteNext, disk
<1>15. ASSUME Finish(c) PROVE Wrote(c)
  BY <1>15, <1>0 DEF Wrote, Finish, Return, Idle, PC, Op, Call, disk
<1>16. ASSUME SaveFails(c) PROVE Wrote(c)
  <2>1. PC(c) \in {"rename", "meta"} /\ \E ok \in BOOLEAN : AfterSave(c, ok)
    BY <1>16 DEF SaveFails, PC
  <2>2. PC(c)' \in {"idle", "next"}
    BY <2>1, SavedCalls DEF Idle, TypeOK, PC
  <2>3. QED
    BY <1>16, <2>2 DEF Wrote, SaveFails, disk
<1>17. QED
  BY <1>1, <1>2, <1>3, <1>4, <1>5, <1>6, <1>7, <1>8, <1>9,
     <1>10, <1>11, <1>12, <1>13, <1>14, <1>15, <1>16
  DEF Step, LockStep, FreeStep

(* What a save writes, and what is in the files, belongs there.             *)
LEMMA FileStep ==
  ASSUME TypeOK, LockInv, UseInv, FileInv, [Next]_vars
  PROVE  FileInv'
<1>1. CASE Crash
  BY <1>1 DEF Crash, Idle, FileInv, PC
<1>2. CASE UNCHANGED vars
  BY <1>2 DEF vars, disk, FileInv, PC, Start
<1>3. ASSUME NEW c \in Threads, Step(c) PROVE FileInv'
  <2>1. Wrote(c)
    BY <1>3, SaveSteps
  <2>2. ASSUME NEW s \in Starts, file'[s] # None PROVE \A t \in file'[s] : StartOf(t) = s
    <3>1. CASE file' = file
      BY <2>2, <3>1 DEF FileInv
    <3>2. CASE Rename(c)
      <4>1. PC(c) = "rename" /\ file' = [file EXCEPT ![Start(c)] = go[c].snap]
        BY <3>2 DEF Rename, PC, Start
      <4>2. QED
        BY <2>2, <4>1 DEF FileInv, TypeOK
    <3>3. QED
      BY <2>1, <3>1, <3>2 DEF Wrote
  <2>3. ASSUME NEW d \in Threads, PC(d)' = "rename"
        PROVE  \A t \in go'[d].snap : StartOf(t) = Start(d)'
    <3>1. CASE d # c
      <4>1. PC(d) = "rename" /\ go'[d].snap = go[d].snap
        BY <1>3, <2>3, <3>1, OthersObjects
      <4>2. go[d].id # None
        BY <4>1 DEF LockInv, CallInv
      <4>3. QED
        BY <1>3, <3>1, <4>1, <4>2, OthersObjects DEF FileInv
    <3>2. CASE d = c
      <4>1. Snapshot(c)
        BY <2>1, <2>3, <3>2 DEF Wrote
      <4>2. /\ go'[c].id = go[c].id /\ heap' = heap /\ PC(c) = "save"
            /\ go'[c].snap = heap[go[c].id].has
        BY <4>1 DEF Snapshot, TypeOK, Call, PC
      <4>3. go[c].id \in Ids /\ heap[go[c].id] \in Object
        BY <4>2, ObjectInUse
      <4>4. QED
        BY <3>2, <4>2, <4>3, ObjectAssumption DEF TypeOK, ObjectsOK, Start
    <3>3. QED
      BY <3>1, <3>2
  <2>4. QED
    BY <2>2, <2>3 DEF FileInv
<1>4. QED
  BY <1>1, <1>2, <1>3, StepsOfThreads

(* What a step of c may do to the partition that starts at s: unmap what no *)
(* other call uses, map where nobody uses an object, or it is spoiled.      *)
Remapped(c, s) ==
  \/ partitions'[s] = partitions[s]
  \/ /\ partitions[s] # None /\ partitions'[s] = None
     /\ s \in spoiled' \/ \A d \in Threads \ {c} : partitions[s] \notin Objects(d)
     /\ Op(c) = "none" \/ Op(c)' \in {"none", "delete"}
  \/ /\ partitions[s] = None
     /\ s \in spoiled' \/ \A d \in Threads : \A i \in Objects(d) : heap[i].start # s

(* Every step of a thread changes the map as Remapped says.                 *)
LEMMA MapSteps ==
  ASSUME TypeOK, LockInv, UseInv, OwnInv, NEW c \in Threads, Step(c), NEW s \in Starts
  PROVE  Remapped(c, s)
<1>1. ASSUME NEW t \in workload.times, Set(c, t) PROVE Remapped(c, s)
  BY <1>1 DEF Remapped, Set
<1>2. ASSUME NEW t \in workload.times, Get(c, t) PROVE Remapped(c, s)
  BY <1>2 DEF Remapped, Get
<1>3. ASSUME NEW lo \in workload.times, NEW hi \in workload.times, DeleteRange(c, lo, hi)
      PROVE  Remapped(c, s)
  BY <1>3 DEF Remapped, DeleteRange
<1>4. ASSUME Clear(c) PROVE Remapped(c, s)
  <2>1. /\ partitions'[s] = None
        /\ spoiled' = spoiled \union Replaced({partitions[r] : r \in Mapped}, c)
    BY <1>4 DEF Clear
  <2>0. Op(c) = "none"
    BY <1>4 DEF Clear, LockInv, CallInv, PC
  <2>2. CASE s \in Mapped
    <3>1. heap[partitions[s]].start = s /\ partitions[s] \in {partitions[r] : r \in Mapped}
      BY <2>2 DEF TypeOK, ObjectsOK
    <3>2. s \in spoiled' \/ \A d \in Threads \ {c} : partitions[s] \notin Uses(d)
      BY <2>1, <3>1, ReplacedStarts
    <3>3. QED
      BY <2>0, <2>1, <2>2, <3>2 DEF Remapped, Mapped, Objects
  <2>3. QED
    BY <2>1, <2>2 DEF Remapped, Mapped
<1>5. ASSUME Cleanup(c), c = Maintainer PROVE Remapped(c, s)
  <2>1. PICK kept, out \in SUBSET Starts : CleanedUp(kept, out)
    BY <1>5, CleanedUpPartitions
  <2>2. partitions'[s] = IF s \in kept THEN partitions[s] ELSE None
    BY <2>1 DEF CleanedUp
  <2>0. Op(c) = "none"
    BY <1>5 DEF Cleanup, LockInv, CallInv, PC
  <2>3. CASE s \in Mapped \ kept
    <3> DEFINE ids == {partitions[r] : r \in (Mapped \ kept) \union out}
    <3>1. heap[partitions[s]].start = s /\ partitions[s] \in ids
      BY <2>3 DEF TypeOK, ObjectsOK
    <3>2. spoiled' = spoiled \union Replaced(ids, Maintainer)
      BY <2>1 DEF CleanedUp
    <3> HIDE DEF ids
    <3>3. s \in spoiled' \/ \A d \in Threads \ {c} : partitions[s] \notin Uses(d)
      BY <1>5, <3>1, <3>2, ReplacedStarts
    <3>4. QED
      BY <2>0, <2>2, <2>3, <3>3 DEF Remapped, Mapped, Objects
  <2>4. QED
    BY <2>2, <2>3 DEF Remapped, Mapped
<1>6. ASSUME Flush(c), c = Maintainer PROVE Remapped(c, s)
  BY <1>6 DEF Remapped, Flush
<1>7. ASSUME Lookup(c) PROVE Remapped(c, s)
  BY <1>7 DEF Remapped, Lookup
<1>8. ASSUME MapPartition(c) PROVE Remapped(c, s)
  <2>1. PICK t \in go[c].ts, id \in Ids, loaded \in BOOLEAN :
          /\ StartOf(t) \notin Mapped
          /\ partitions' = [partitions EXCEPT ![StartOf(t)] = id]
          /\ spoiled' = IF \/ ~loaded
                           \/ \E d \in Threads : \E i \in Uses(d) \ {None} :
                                heap[i].start = StartOf(t)
                        THEN spoiled \union {StartOf(t)} ELSE spoiled
    BY <1>8 DEF MapPartition
  <2>2. CASE s = StartOf(t)
    BY <2>1, <2>2 DEF Remapped, Mapped, Objects
  <2>3. CASE s # StartOf(t)
    BY <2>1, <2>3 DEF Remapped, TypeOK, ObjectsOK
  <2>4. QED
    BY <2>2, <2>3
<1>9. ASSUME Snapshot(c) PROVE Remapped(c, s)
  BY <1>9 DEF Remapped, Snapshot
<1>10. ASSUME Insert(c) PROVE Remapped(c, s)
  BY <1>10 DEF Remapped, Insert
<1>11. ASSUME Rename(c) PROVE Remapped(c, s)
  BY <1>11 DEF Remapped, Rename
<1>12. ASSUME SaveMeta(c) PROVE Remapped(c, s)
  <2>1. /\ PC(c) \in {"rename", "meta"} /\ spoiled \subseteq spoiled'
        /\ partitions' = IF Op(c) = "evict" THEN [partitions EXCEPT ![Start(c)] = None]
                         ELSE partitions
        /\ \E ok \in BOOLEAN : AfterSave(c, ok)
    BY <1>12 DEF SaveMeta, AfterSave, Op, PC, Start
  <2>0. Op(c) = "evict" => Op(c)' = "none"
    BY <2>1, SavedCalls DEF Idle, Op, TypeOK
  <2>2. /\ go[c].id \in Ids /\ go[c].id \in Objects(c) /\ Start(c) \in Starts
        /\ Own(c, go[c].id)
    BY <2>1, ObjectInUse DEF OwnInv
  <2>3. CASE Op(c) = "evict" /\ s = Start(c) /\ s \notin spoiled
    <3>1. /\ partitions[s] = go[c].id /\ partitions'[s] = None
          /\ \A d \in Threads \ {c} : go[c].id \notin Objects(d)
      BY <2>1, <2>2, <2>3 DEF Own, Start, TypeOK, ObjectsOK
    <3>2. QED
      BY <2>0, <2>2, <2>3, <3>1, SyncAssumption DEF Remapped
  <2>4. CASE Op(c) = "evict" /\ s = Start(c) /\ s \in spoiled
    BY <2>0, <2>1, <2>4 DEF Remapped, TypeOK, ObjectsOK
  <2>5. CASE ~(Op(c) = "evict" /\ s = Start(c))
    BY <2>1, <2>5 DEF Remapped, TypeOK, ObjectsOK
  <2>6. QED
    BY <2>3, <2>4, <2>5
<1>13. ASSUME SaveNext(c) PROVE Remapped(c, s)
  BY <1>13 DEF Remapped, SaveNext
<1>14. ASSUME DeleteNext(c) PROVE Remapped(c, s)
  <2>1. PICK i \in Ids : Deleted(c, i)
    BY <1>14, DeletedObjects
  <2>2. CASE partitions' = partitions
    BY <2>2 DEF Remapped
  <2>3. CASE /\ partitions' = [partitions EXCEPT ![heap[i].start] = None]
             /\ spoiled' = spoiled \union Replaced({i}, c)
    <3>1. CASE s = heap[i].start
      <4>1. partitions[s] = i /\ partitions'[s] = None /\ i # None
        BY <2>1, <2>3, <3>1, SyncAssumption DEF Deleted, TypeOK, ObjectsOK
      <4>2. s \in spoiled' \/ \A d \in Threads \ {c} : i \notin Uses(d)
        BY <2>3, <3>1, ReplacedStarts
      <4>3. QED
        BY <2>1, <4>1, <4>2 DEF Remapped, Objects, Deleted, Op
    <3>2. CASE s # heap[i].start
      BY <2>3, <3>2 DEF Remapped, TypeOK, ObjectsOK
    <3>3. QED
      BY <3>1, <3>2
  <2>4. QED
    BY <2>1, <2>2, <2>3 DEF Deleted
<1>15. ASSUME Finish(c) PROVE Remapped(c, s)
  BY <1>15 DEF Remapped, Finish
<1>16. ASSUME SaveFails(c) PROVE Remapped(c, s)
  <2>1. /\ PC(c) \in {"rename", "meta"} /\ spoiled \subseteq spoiled'
        /\ partitions' = IF Op(c) = "evict" THEN [partitions EXCEPT ![Start(c)] = None]
                         ELSE partitions
        /\ \E ok \in BOOLEAN : AfterSave(c, ok)
    BY <1>16 DEF SaveFails, AfterSave, Op, PC, Start
  <2>0. Op(c) = "evict" => Op(c)' = "none"
    BY <2>1, SavedCalls DEF Idle, Op, TypeOK
  <2>2. /\ go[c].id \in Ids /\ go[c].id \in Objects(c) /\ Start(c) \in Starts
        /\ Own(c, go[c].id)
    BY <2>1, ObjectInUse DEF OwnInv
  <2>3. CASE Op(c) = "evict" /\ s = Start(c) /\ s \notin spoiled
    <3>1. /\ partitions[s] = go[c].id /\ partitions'[s] = None
          /\ \A d \in Threads \ {c} : go[c].id \notin Objects(d)
      BY <2>1, <2>2, <2>3 DEF Own, Start, TypeOK, ObjectsOK
    <3>2. QED
      BY <2>0, <2>2, <2>3, <3>1, SyncAssumption DEF Remapped
  <2>4. CASE Op(c) = "evict" /\ s = Start(c) /\ s \in spoiled
    BY <2>0, <2>1, <2>4 DEF Remapped, TypeOK, ObjectsOK
  <2>5. CASE ~(Op(c) = "evict" /\ s = Start(c))
    BY <2>1, <2>5 DEF Remapped, TypeOK, ObjectsOK
  <2>6. QED
    BY <2>3, <2>4, <2>5
<1>17. QED
  BY <1>1, <1>2, <1>3, <1>4, <1>5, <1>6, <1>7, <1>8, <1>9,
     <1>10, <1>11, <1>12, <1>13, <1>14, <1>15, <1>16
  DEF Step, LockStep, FreeStep

(* A step adds to spoiled, and acknowledges the timestamp of a Set only.    *)
Observed(c) ==
  /\ spoiled \subseteq spoiled'
  /\ \A t \in acked' \ acked :
       /\ Op(c) \in {"set", "voidset"} /\ t \in go[c].ts
       /\ \/ Insert(c) /\ PC(c) = "insert" /\ ~immediate
          \/ SaveMeta(c) /\ PC(c) = "meta" /\ Op(c) = "set"

(* Every step of a thread changes the observers as Observed says.           *)
LEMMA ObservedSteps ==
  ASSUME TypeOK, LockInv, UseInv, NEW c \in Threads, Step(c)
  PROVE  Observed(c)
<1>1. ASSUME NEW t \in workload.times, Set(c, t) PROVE Observed(c)
  BY <1>1 DEF Observed, Set, obs
<1>2. ASSUME NEW t \in workload.times, Get(c, t) PROVE Observed(c)
  BY <1>2 DEF Observed, Get, obs
<1>3. ASSUME NEW lo \in workload.times, NEW hi \in workload.times, DeleteRange(c, lo, hi)
      PROVE  Observed(c)
  BY <1>3 DEF Observed, DeleteRange, obs
<1>4. ASSUME Clear(c) PROVE Observed(c)
  BY <1>4 DEF Observed, Clear, Sound
<1>5. ASSUME Cleanup(c), c = Maintainer PROVE Observed(c)
  BY <1>5 DEF Observed, Cleanup, Sound
<1>6. ASSUME Flush(c), c = Maintainer PROVE Observed(c)
  BY <1>6 DEF Observed, Flush, obs
<1>7. ASSUME Lookup(c) PROVE Observed(c)
  BY <1>7 DEF Observed, Lookup, obs
<1>8. ASSUME MapPartition(c) PROVE Observed(c)
  BY <1>8 DEF Observed, MapPartition, Sound
<1>9. ASSUME Snapshot(c) PROVE Observed(c)
  BY <1>9 DEF Observed, Snapshot, obs
<1>10. ASSUME Insert(c) PROVE Observed(c)
  <2>1. CASE immediate
    BY <1>10, <2>1 DEF Observed, Insert
  <2>2. CASE ~immediate
    BY <1>10, <2>2 DEF Observed, Insert, Sound, PC, Op, LockInv, CallInv
  <2>3. QED
    BY <2>1, <2>2
<1>11. ASSUME Rename(c) PROVE Observed(c)
  BY <1>11 DEF Observed, Rename, obs
<1>12. ASSUME SaveMeta(c) PROVE Observed(c)
  BY <1>12 DEF Observed, SaveMeta, AfterSave, Sound, Op, PC
<1>13. ASSUME SaveNext(c) PROVE Observed(c)
  BY <1>13 DEF Observed, SaveNext, obs
<1>14. ASSUME DeleteNext(c) PROVE Observed(c)
  BY <1>14, DeletedObjects DEF Observed, Deleted
<1>15. ASSUME Finish(c) PROVE Observed(c)
  BY <1>15 DEF Observed, Finish, obs
<1>16. ASSUME SaveFails(c) PROVE Observed(c)
  BY <1>16 DEF Observed, SaveFails, AfterSave, Sound
<1>17. QED
  BY <1>1, <1>2, <1>3, <1>4, <1>5, <1>6, <1>7, <1>8, <1>9,
     <1>10, <1>11, <1>12, <1>13, <1>14, <1>15, <1>16
  DEF Step, LockStep, FreeStep

(* A step of c does not move an object to another partition, and takes      *)
(* timestamps out of it only when it deletes them.                          *)
Content(c, i) ==
  heap[i] # None /\ heap'[i] # None =>
    /\ heap'[i].start = heap[i].start
    /\ \A t \in heap[i].has \ heap'[i].has :
         /\ t \notin acked' /\ Op(c)' = "delete"
         /\ \A d \in Threads \ {c} : go'[d].id = i /\ t \in go'[d].ts => Op(d)' # "set"

(* Every step of a thread changes objects as Content says.                  *)
LEMMA ContentSteps ==
  ASSUME TypeOK, LockInv, UseInv, NEW c \in Threads, Step(c), NEW i \in Ids
  PROVE  Content(c, i)
<1>0. heap \in [Ids -> Object \union {None}] /\ go \in [Threads -> Call]
  BY DEF TypeOK, ObjectsOK
<1>1. ASSUME NEW t \in workload.times, Set(c, t) PROVE Content(c, i)
  BY <1>1 DEF Content, Set
<1>2. ASSUME NEW t \in workload.times, Get(c, t) PROVE Content(c, i)
  BY <1>2 DEF Content, Get
<1>3. ASSUME NEW lo \in workload.times, NEW hi \in workload.times, DeleteRange(c, lo, hi)
      PROVE  Content(c, i)
  BY <1>3 DEF Content, DeleteRange
<1>4. ASSUME Clear(c) PROVE Content(c, i)
  BY <1>4 DEF Content, Clear
<1>5. ASSUME Cleanup(c), c = Maintainer PROVE Content(c, i)
  <2>1. heap' = Collected(heap)
    BY <1>5 DEF Cleanup
  <2>2. heap'[i] # None => heap'[i] = heap[i]
    BY <1>0, <2>1, CollectedObjects
  <2>3. QED
    BY <2>2 DEF Content
<1>6. ASSUME Flush(c), c = Maintainer PROVE Content(c, i)
  BY <1>6 DEF Content, Flush
<1>7. ASSUME Lookup(c) PROVE Content(c, i)
  BY <1>7 DEF Content, Lookup
<1>8. ASSUME MapPartition(c) PROVE Content(c, i)
  <2>1. PICK t \in go[c].ts, id \in Ids, loaded \in BOOLEAN :
          /\ heap[id] = None
          /\ heap' = Collected([heap EXCEPT ![id] = ObjectFor(t, loaded)])
    BY <1>8 DEF MapPartition
  <2>2. heap'[i] \in {[heap EXCEPT ![id] = ObjectFor(t, loaded)][i], None}
    BY <2>1 DEF Collected
  <2>3. QED
    BY <1>0, <2>1, <2>2 DEF Content
<1>9. ASSUME Snapshot(c) PROVE Content(c, i)
  BY <1>9 DEF Content, Snapshot
<1>10. ASSUME Insert(c) PROVE Content(c, i)
  <2> DEFINE h == [heap EXCEPT ![go[c].id].has = @ \union go[c].ts]
  <2>1. go[c].id \in Ids /\ heap[go[c].id] \in Object
    BY <1>10, ObjectInUse DEF Insert, PC
  <2>2. heap'[i] \in {h[i], None}
    BY <1>10 DEF Insert, Collected
  <2>3. h[i] = heap[i] \/ (h[i].start = heap[i].start /\ heap[i].has \subseteq h[i].has)
    BY <1>0, <2>1 DEF Object
  <2> HIDE DEF h
  <2>4. QED
    BY <2>2, <2>3 DEF Content
<1>11. ASSUME Rename(c) PROVE Content(c, i)
  BY <1>11 DEF Content, Rename
<1>12. ASSUME SaveMeta(c) PROVE Content(c, i)
  <2>1. heap' = Collected(heap)
    BY <1>12 DEF SaveMeta, AfterSave
  <2>2. heap'[i] # None => heap'[i] = heap[i]
    BY <1>0, <2>1, CollectedObjects
  <2>3. QED
    BY <2>2 DEF Content
<1>13. ASSUME SaveNext(c) PROVE Content(c, i)
  BY <1>13 DEF Content, SaveNext
<1>14. ASSUME DeleteNext(c) PROVE Content(c, i)
  <2>1. PICK j \in Ids : Deleted(c, j)
    BY <1>14, DeletedObjects
  <2>2. CASE heap' = Collected(heap)
    <3>1. heap'[i] # None => heap'[i] = heap[i]
      BY <1>0, <2>2, CollectedObjects
    <3>2. QED
      BY <3>1 DEF Content
  <2>3. CASE heap' = [heap EXCEPT ![j] = [heap[j] EXCEPT !.has =
                        heap[j].has \ (heap[j].has \intersect go[c].ts)]]
    <3>1. \/ heap'[i] = heap[i]
          \/ /\ i = j /\ heap'[i].start = heap[i].start
             /\ heap'[i].has = heap[i].has \ (heap[i].has \intersect go[c].ts)
      BY <1>0, <2>1, <2>3 DEF Deleted, Object
    <3>2. ASSUME i = j, NEW t \in heap[i].has, t \in go[c].ts
          PROVE  /\ t \notin acked' /\ Op(c)' = "delete"
                 /\ \A d \in Threads \ {c} : go'[d].id = i /\ t \in go'[d].ts => Op(d)' # "set"
      <4>1. t \notin acked' /\ Op(c)' = "delete"
        BY <2>1, <3>2 DEF Deleted, Op
      <4>2. ASSUME NEW d \in Threads \ {c}, go'[d].id = i, t \in go'[d].ts
            PROVE  Op(d)' # "set"
        <5>1. go[d] \in Call /\ CallInv(d)
          BY <1>0 DEF LockInv
        <5>2. CASE Op(d) = "set" /\ go[d].id = j /\ go[d].ts \subseteq heap[j].has \intersect go[c].ts
          <6>1. go'[d] = [go[d] EXCEPT !.op = "voidset"]
            BY <2>1, <5>2 DEF Deleted
          <6>2. QED
            BY <5>1, <6>1 DEF Call, Op
        <5>3. CASE ~(Op(d) = "set" /\ go[d].id = j /\ go[d].ts \subseteq heap[j].has \intersect go[c].ts)
          <6>1. go'[d] = go[d]
            BY <2>1, <5>3 DEF Deleted
          <6>2. Op(d) = "set" => go[d].ts = {t}
            BY <4>2, <5>1, <6>1 DEF CallInv
          <6>3. QED
            BY <3>2, <4>2, <5>3, <6>1, <6>2 DEF Op
        <5>4. QED
          BY <5>2, <5>3
      <4>3. QED
        BY <4>1, <4>2
    <3>3. QED
      BY <3>1, <3>2 DEF Content
  <2>4. QED
    BY <2>1, <2>2, <2>3 DEF Deleted
<1>15. ASSUME Finish(c) PROVE Content(c, i)
  BY <1>15 DEF Content, Finish
<1>16. ASSUME SaveFails(c) PROVE Content(c, i)
  <2>1. heap' = Collected(heap)
    BY <1>16 DEF SaveFails, AfterSave
  <2>2. heap'[i] # None => heap'[i] = heap[i]
    BY <1>0, <2>1, CollectedObjects
  <2>3. QED
    BY <2>2 DEF Content
<1>17. QED
  BY <1>1, <1>2, <1>3, <1>4, <1>5, <1>6, <1>7, <1>8, <1>9,
     <1>10, <1>11, <1>12, <1>13, <1>14, <1>15, <1>16
  DEF Step, LockStep, FreeStep

(* An object that c comes to refer to is mapped, and if it is to be evicted *)
(* nobody else refers to it or its partition is spoiled; what Clear takes   *)
(* was mapped before.  Nothing is being evicted meanwhile.                  *)
Acquired(c, i) ==
  /\ \A d \in Threads \ {c} : Op(d) # "evict"
  /\ \/ /\ partitions'[heap'[i].start] = i
        /\ Op(c)' = "evict" => \/ heap'[i].start \in spoiled'
                               \/ \A d \in Threads \ {c} : i \notin Objects(d)
     \/ /\ Clear(c) /\ Op(c)' = "clear" /\ heap'[i].start \in Mapped
        /\ partitions[heap'[i].start] = i

(* Every object that a thread uses after its step is one that it used       *)
(* before, in the same operation, or Acquired.                              *)
LEMMA AcquiredObjects ==
  ASSUME TypeOK, LockInv, UseInv, ObjectsOK', NEW c \in Threads, Step(c), NEW i \in Objects(c)'
  PROVE  (i \in Objects(c) /\ Op(c)' = Op(c)) \/ Acquired(c, i)
<1>0. /\ go \in [Threads -> Call] /\ go[c] \in Call /\ CallInv(c) /\ None \notin Threads
      /\ partitions \in [Starts -> Ids \union {None}]
      /\ \A s \in Mapped : partitions[s] \in Ids /\ heap[partitions[s]].start = s
  BY SyncAssumption DEF TypeOK, ObjectsOK, LockInv, Mapped
<1>00. mu = None => \A d \in Threads \ {c} : Op(d) # "evict"
  BY <1>0 DEF LockInv
<1>1. ASSUME NEW t \in workload.times, Set(c, t)
      PROVE  (i \in Objects(c) /\ Op(c)' = Op(c)) \/ Acquired(c, i)
  <2>1. Objects(c)' = {}
    BY <1>1, <1>0 DEF Set, Idle, Objects, Uses
  <2>2. QED
    BY <2>1
<1>2. ASSUME NEW t \in workload.times, Get(c, t)
      PROVE  (i \in Objects(c) /\ Op(c)' = Op(c)) \/ Acquired(c, i)
  <2>1. Objects(c)' = {}
    BY <1>2, <1>0 DEF Get, Idle, Objects, Uses
  <2>2. QED
    BY <2>1
<1>3. ASSUME NEW lo \in workload.times, NEW hi \in workload.times, DeleteRange(c, lo, hi)
      PROVE  (i \in Objects(c) /\ Op(c)' = Op(c)) \/ Acquired(c, i)
  <2>1. /\ Objects(c)' \subseteq {partitions[s] : s \in Mapped} /\ Op(c)' = "delete"
        /\ heap' = heap /\ partitions' = partitions /\ mu = None
    BY <1>3, <1>0 DEF DeleteRange, CanLock, Idle, Objects, Uses, Op, Mapped
  <2>2. QED
    BY <1>0, <1>00, <2>1 DEF Acquired
<1>4. ASSUME Clear(c) PROVE (i \in Objects(c) /\ Op(c)' = Op(c)) \/ Acquired(c, i)
  <2>1. /\ Objects(c)' \subseteq {partitions[s] : s \in Mapped} /\ Op(c)' = "clear"
        /\ heap' = heap /\ mu = None
    BY <1>4, <1>0 DEF Clear, CanLock, Idle, Objects, Uses, Op, Mapped
  <2>2. QED
    BY <1>4, <1>0, <1>00, <2>1 DEF Acquired
<1>5. ASSUME Cleanup(c), c = Maintainer
      PROVE  (i \in Objects(c) /\ Op(c)' = Op(c)) \/ Acquired(c, i)
  <2>1. PICK kept, out \in SUBSET Starts : CleanedUp(kept, out)
    BY <1>5, CleanedUpPartitions
  <2>2. CASE go' = go
    BY <2>2 DEF Objects, Uses, Op
  <2>3. ASSUME NEW s \in kept, out = {s},
               go' = [go EXCEPT ![c] =
                 [Idle EXCEPT !.pc = "save", !.op = "evict", !.id = partitions[s]]]
        PROVE  Acquired(c, i)
    <3> DEFINE ids == {partitions[r] : r \in (Mapped \ kept) \union out}
    <3>1. i = partitions[s] /\ Op(c)' = "evict"
      BY <1>0, <2>3 DEF Idle, Objects, Uses, Op
    <3>2. s \in Mapped /\ s \in Starts /\ mu = None /\ partitions'[s] = i
      BY <2>1, <3>1 DEF CleanedUp, Mapped
    <3>3. heap[i].start = s /\ i \in ids /\ spoiled' = spoiled \union Replaced(ids, Maintainer)
      BY <1>0, <2>1, <2>3, <3>1, <3>2 DEF CleanedUp
    <3> HIDE DEF ids
    <3>4. s \in spoiled' \/ \A d \in Threads \ {c} : i \notin Uses(d)
      BY <1>5, <3>3, ReplacedStarts
    <3>5. heap'[i].start = s
      BY <3>2, <3>1, <1>0, SyncAssumption DEF ObjectsOK, Mapped
    <3>6. QED
      BY <1>00, <3>1, <3>2, <3>4, <3>5 DEF Acquired, Objects
  <2>4. QED
    BY <1>5, <2>1, <2>2, <2>3 DEF CleanedUp
<1>6. ASSUME Flush(c), c = Maintainer
      PROVE  (i \in Objects(c) /\ Op(c)' = Op(c)) \/ Acquired(c, i)
  <2>1. /\ Objects(c)' \subseteq {partitions[s] : s \in Mapped} /\ Op(c)' = "flush"
        /\ heap' = heap /\ partitions' = partitions /\ mu = None
    BY <1>6, <1>0 DEF Flush, Idle, Objects, Uses, Op, Mapped
  <2>2. QED
    BY <1>0, <1>00, <2>1 DEF Acquired
<1>7. ASSUME Lookup(c) PROVE (i \in Objects(c) /\ Op(c)' = Op(c)) \/ Acquired(c, i)
  <2>1. PICK t \in go[c].ts : StartOf(t) \in Mapped /\ Found(c, partitions[StartOf(t)])
    BY <1>7 DEF Lookup
  <2>2. /\ Objects(c)' \subseteq {partitions[StartOf(t)]} /\ Op(c)' # "evict"
        /\ heap' = heap /\ partitions' = partitions /\ mu = None
    BY <1>7, <1>0, <2>1 DEF Lookup, Found, Idle, Objects, Uses, Op, PC, Call, CallInv
  <2>3. QED
    BY <1>0, <1>00, <2>1, <2>2 DEF Acquired
<1>8. ASSUME MapPartition(c)
      PROVE  (i \in Objects(c) /\ Op(c)' = Op(c)) \/ Acquired(c, i)
  <2>1. PICK t \in go[c].ts, id \in Ids :
          /\ Found(c, id) /\ partitions' = [partitions EXCEPT ![StartOf(t)] = id]
    BY <1>8 DEF MapPartition
  <2>2. t \in Times /\ StartOf(t) \in Starts
    BY <1>0, StartTimes DEF Call
  <2>3. partitions'[StartOf(t)] = id
    BY <1>0, <2>1, <2>2
  <2>4. heap'[id].start = StartOf(t)
    BY <2>2, <2>3, SyncAssumption DEF ObjectsOK, Mapped
  <2>5. Objects(c)' \subseteq {id} /\ Op(c)' # "evict" /\ mu = None
    BY <1>8, <1>0, <2>1, SMTT(30), ZenonT(30)
    DEF MapPartition, CanLock, Found, Idle, Objects, Uses, Op, PC, Call, CallInv
  <2>6. QED
    BY <1>00, <2>3, <2>4, <2>5 DEF Acquired
<1>9. ASSUME Snapshot(c) PROVE (i \in Objects(c) /\ Op(c)' = Op(c)) \/ Acquired(c, i)
  <2>1. Objects(c)' = Objects(c) /\ Op(c)' = Op(c)
    BY <1>9, <1>0 DEF Snapshot, Objects, Uses, Op, Call
  <2>2. QED
    BY <2>1
<1>10. ASSUME Insert(c) PROVE (i \in Objects(c) /\ Op(c)' = Op(c)) \/ Acquired(c, i)
  <2>1. Objects(c)' = {} \/ (Objects(c)' = Objects(c) /\ Op(c)' = Op(c))
    BY <1>10, <1>0 DEF Insert, Goto, Return, Idle, Objects, Uses, Op, Call
  <2>2. QED
    BY <2>1
<1>11. ASSUME Rename(c) PROVE (i \in Objects(c) /\ Op(c)' = Op(c)) \/ Acquired(c, i)
  <2>1. Objects(c)' = Objects(c) /\ Op(c)' = Op(c)
    BY <1>11, <1>0 DEF Rename, Objects, Uses, Op, Call
  <2>2. QED
    BY <2>1
<1>12. ASSUME SaveMeta(c) PROVE (i \in Objects(c) /\ Op(c)' = Op(c)) \/ Acquired(c, i)
  <2>1. PC(c) \in {"rename", "meta"} /\ (\E ok \in BOOLEAN : AfterSave(c, ok))
    BY <1>12 DEF SaveMeta, PC
  <2>2. CASE go' = [go EXCEPT ![c] = Idle]
    BY <1>0, <2>2 DEF Idle, Objects, Uses
  <2>3. ASSUME NEW next \in Call, go' = [go EXCEPT ![c] = next],
               next.op = Op(c), next.id = None, next.todo = go[c].todo \ {go[c].id}
        PROVE  Objects(c)' \subseteq Objects(c) /\ Op(c)' = Op(c)
    BY <1>0, <2>3 DEF Objects, Uses, Op
  <2>4. QED
    BY <2>1, <2>2, <2>3, SavedCalls
<1>13. ASSUME SaveNext(c) PROVE (i \in Objects(c) /\ Op(c)' = Op(c)) \/ Acquired(c, i)
  <2>1. PICK id \in go[c].todo : go' = [go EXCEPT ![c] = [@ EXCEPT !.pc = "save", !.id = id]]
    BY <1>13 DEF SaveNext
  <2>2. go'[c].todo = go[c].todo /\ go'[c].id = id /\ Op(c)' = Op(c)
    BY <1>0, <2>1 DEF Call, Op
  <2>3. QED
    BY <2>1, <2>2 DEF Objects, Uses
<1>14. ASSUME DeleteNext(c)
       PROVE  (i \in Objects(c) /\ Op(c)' = Op(c)) \/ Acquired(c, i)
  <2>1. PICK j \in Ids : Deleted(c, j)
    BY <1>14, DeletedObjects
  <2>2. QED
    BY <2>1 DEF Deleted, Objects, Uses, Op
<1>15. ASSUME Finish(c) PROVE (i \in Objects(c) /\ Op(c)' = Op(c)) \/ Acquired(c, i)
  <2>1. Objects(c)' = {}
    BY <1>15, <1>0 DEF Finish, Return, Idle, Objects, Uses
  <2>2. QED
    BY <2>1
<1>16. ASSUME SaveFails(c)
       PROVE  (i \in Objects(c) /\ Op(c)' = Op(c)) \/ Acquired(c, i)
  <2>1. PC(c) \in {"rename", "meta"} /\ (\E ok \in BOOLEAN : AfterSave(c, ok))
    BY <1>16 DEF SaveFails, PC
  <2>2. CASE go' = [go EXCEPT ![c] = Idle]
    BY <1>0, <2>2 DEF Idle, Objects, Uses
  <2>3. ASSUME NEW next \in Call, go' = [go EXCEPT ![c] = next],
               next.op = Op(c), next.id = None, next.todo = go[c].todo \ {go[c].id}
        PROVE  Objects(c)' \subseteq Objects(c) /\ Op(c)' = Op(c)
    BY <1>0, <2>3 DEF Objects, Uses, Op
  <2>4. QED
    BY <2>1, <2>2, <2>3, SavedCalls
<1>17. QED
  BY <1>1, <1>2, <1>3, <1>4, <1>5, <1>6, <1>7, <1>8, <1>9,
     <1>10, <1>11, <1>12, <1>13, <1>14, <1>15, <1>16
  DEF Step, LockStep, FreeStep

(* The calls of other threads go on using what is mapped.                   *)
LEMMA OwnOfOthers ==
  ASSUME TypeOK, LockInv, UseInv, OwnInv, TypeOK', NEW c \in Threads, Step(c),
         NEW e \in Threads \ {c}, NEW i \in Objects(e)'
  PROVE  Own(e, i)'
<1>0. ObjectsOK' /\ \A j \in Objects(c)' : j \in Ids
  BY DEF TypeOK, Call, Objects, Uses
<1> DEFINE s == heap[i].start
<1>1. /\ i \in Objects(e) /\ i \in Ids /\ Kept(i) /\ s \in Starts /\ heap'[i].start = s
      /\ Op(e)' = Op(e) \/ (Op(e) = "set" /\ Op(e)' = "voidset")
  BY OthersObjects, ObjectsOf DEF Kept
<1>2. SUFFICES ASSUME s \notin spoiled'
               PROVE  /\ \/ partitions'[s] = i
                         \/ partitions'[s] = None /\ Op(e)' = "clear" /\ Alone(e, i)'
                      /\ Op(e)' = "evict" => \A d \in Threads \ {e} : i \notin Objects(d)'
  BY <1>1 DEF Own
<1>3. s \notin spoiled /\ Own(e, i) /\ Remapped(c, s) /\ Observed(c) /\ i # None
  BY <1>1, <1>2, MapSteps, ObservedSteps, SyncAssumption DEF OwnInv, Observed
<1>4. ASSUME NEW d \in Threads \ {c, e}
      PROVE  Objects(d)' = Objects(d) /\ \A j \in Objects(d) : j \in Ids /\ Kept(j)
  BY OthersObjects
<1>5. ASSUME NEW j \in Objects(c)'
      PROVE  j \in Ids /\ ((j \in Objects(c) /\ Kept(j)) \/ Acquired(c, j))
  <2>1. CASE j \in Objects(c)
    BY <1>0, <2>1, AcquiredObjects, ObjectsOf, ObjectsKept
  <2>2. CASE j \notin Objects(c)
    BY <1>0, <2>2, AcquiredObjects
  <2>3. QED
    BY <1>0, <2>1, <2>2
<1>6. ASSUME partitions[s] = i PROVE partitions'[s] = i
  BY <1>1, <1>2, <1>3, <1>6 DEF Remapped
<1>7. CASE partitions[s] = None /\ Op(e) = "clear" /\ Alone(e, i)
  <2>1. partitions'[s] = None /\ Op(e)' = "clear"
    BY <1>1, <1>2, <1>3, <1>7 DEF Remapped
  <2>2. ASSUME NEW t \in acked' PROVE StartOf(t) # s
    <3>1. CASE t \in acked
      BY <1>7, <3>1 DEF Alone
    <3>2. CASE t \notin acked
      <4>1. /\ Op(c) \in {"set", "voidset"} /\ t \in go[c].ts
            /\ PC(c) \in {"insert", "meta"}
        BY <1>3, <3>2 DEF Observed
      <4>2. go[c].id \in Objects(c) /\ go[c].id # None
        BY <4>1, ObjectInUse DEF Objects
      <4>3. StartOf(t) = Start(c)
        BY <4>1, <4>2 DEF UseInv, UseOf
      <4>4. QED
        BY <1>7, <4>2, <4>3 DEF Alone, Start
    <3>3. QED
      BY <3>1, <3>2
  <2>3. ASSUME NEW d \in Threads \ {e}, NEW j \in Objects(d)' PROVE heap'[j].start # s
    <3>1. CASE d # c
      BY <1>4, <1>7, <3>1 DEF Alone, Kept
    <3>2. CASE d = c /\ j \in Objects(c) /\ Kept(j)
      BY <1>7, <3>2 DEF Alone, Kept
    <3>3. CASE d = c /\ Acquired(c, j)
      BY <1>5, <1>7, <2>1, <3>3, SyncAssumption DEF Acquired, Mapped
    <3>4. QED
      BY <1>5, <3>1, <3>2, <3>3
  <2>4. Alone(e, i)'
    BY <1>1, <2>2, <2>3 DEF Alone
  <2>5. QED
    BY <2>1, <2>4
<1>8. ASSUME Op(e)' = "evict", NEW d \in Threads \ {e} PROVE i \notin Objects(d)'
  <2>1. Op(e) = "evict" /\ i \notin Objects(d)
    BY <1>1, <1>3, <1>8 DEF Own
  <2>2. QED
    BY <1>4, <1>5, <2>1 DEF Acquired
<1>9. QED
  BY <1>3, <1>6, <1>7, <1>8 DEF Own

(* A call that goes on does so too, and what it comes to use is mapped.     *)
LEMMA OwnOfOwn ==
  ASSUME TypeOK, LockInv, UseInv, OwnInv, TypeOK', NEW c \in Threads, Step(c),
         NEW i \in Objects(c)'
  PROVE  Own(c, i)'
<1>0. ObjectsOK' /\ i \in Ids
  BY DEF TypeOK, Call, Objects, Uses
<1>1. i \in Ids /\ i # None /\ UseOf(c)' /\ Observed(c)
  BY <1>0, UseOfOwn, ObservedSteps, SyncAssumption
<1>2. ASSUME NEW d \in Threads \ {c}
      PROVE  Objects(d)' = Objects(d) /\ \A j \in Objects(d) : j \in Ids /\ Kept(j)
  BY OthersObjects
<1>3. SUFFICES ASSUME heap'[i].start \notin spoiled'
               PROVE  /\ \/ partitions'[heap'[i].start] = i
                         \/ /\ partitions'[heap'[i].start] = None
                            /\ Op(c)' = "clear" /\ Alone(c, i)'
                      /\ Op(c)' = "evict" => \A d \in Threads \ {c} : i \notin Objects(d)'
  BY DEF Own
<1>4. CASE i \in Objects(c) /\ Op(c)' = Op(c)
  <2> DEFINE s == heap[i].start
  <2>1. Kept(i) /\ s \in Starts /\ heap'[i].start = s /\ s \notin spoiled
    BY <1>1, <1>3, <1>4, ObjectsOf, ObjectsKept DEF Kept, Observed
  <2>2. Own(c, i) /\ Remapped(c, s)
    BY <1>4, <2>1, MapSteps DEF OwnInv
  <2>3. Op(c) # "none"
    BY <1>4 DEF LockInv, CallInv, Objects, Uses
  <2>4. CASE partitions[s] = i
    <3>1. Op(c)' = "delete" => partitions'[s] = i
      BY <1>1, <2>1 DEF UseOf
    <3>2. partitions'[s] = i
      BY <1>1, <1>4, <2>2, <2>3, <2>4, <3>1 DEF Remapped
    <3>3. QED
      BY <1>2, <1>4, <2>1, <2>2, <3>2 DEF Own
  <2>5. CASE partitions[s] = None /\ Op(c) = "clear" /\ Alone(c, i)
    <3>1. partitions'[s] = None
      BY <1>3, <1>4, <2>1, <2>2, <2>5 DEF Remapped
    <3>2. acked' \subseteq acked
      BY <1>1, <2>5 DEF Observed
    <3>3. Alone(c, i)'
      BY <1>2, <2>1, <2>5, <3>2 DEF Alone, Kept
    <3>4. QED
      BY <1>4, <2>1, <2>5, <3>1, <3>3
  <2>6. QED
    BY <2>1, <2>2, <2>4, <2>5 DEF Own
<1>5. CASE Acquired(c, i) /\ ~Clear(c)
  BY <1>2, <1>3, <1>5 DEF Acquired
<1>6. CASE Acquired(c, i) /\ Clear(c)
  <2> DEFINE s == heap'[i].start
             ids == {partitions[r] : r \in Mapped}
  <2>1. CASE partitions'[s] = i /\ Op(c)' # "clear"
    BY <1>2, <1>6, <2>1, <1>3 DEF Acquired
  <2>2. Op(c)' = "clear"
    BY <1>6 DEF Clear, Idle, Op
  <2>3. /\ heap' = heap /\ partitions' = [r \in Starts |-> None]
        /\ spoiled' = spoiled \union Replaced(ids, c)
        /\ \A t \in acked' : t \in acked /\ StartOf(t) \notin Mapped
    BY <1>6 DEF Clear, Sound
  <2>4. s \in Mapped /\ partitions[s] = i /\ partitions'[s] = None
    <3>1. heap'[i] \in Object /\ s \in Starts
      BY <1>0, <1>1, ObjectAssumption DEF ObjectsOK, UseOf, Object
    <3>2. QED
      BY <1>1, <1>6, <2>3, <3>1 DEF Acquired
  <2>5. i \in ids
    BY <2>4
  <2> HIDE DEF ids
  <2>6. ASSUME NEW d \in Threads \ {c}, NEW j \in Objects(d)' PROVE heap'[j].start # s
    <3>1. SUFFICES ASSUME heap'[j].start = s PROVE FALSE
      OBVIOUS
    <3>2. j \in Objects(d) /\ heap[j].start = s /\ s \notin spoiled
      BY <1>2, <1>3, <2>3, <3>1
    <3>3. partitions[s] = j
      BY <2>4, <3>2 DEF OwnInv, Own, Mapped
    <3>4. s \in Replaced(ids, c)
      BY <2>3, <2>4, <2>5, <3>2, <3>3, ReplacedStarts DEF Objects
    <3>5. QED
      BY <1>3, <2>3, <3>4
  <2>7. Alone(c, i)'
    BY <2>3, <2>4, <2>6 DEF Alone
  <2>8. QED
    BY <2>2, <2>4, <2>7
<1>7. QED
  BY <1>0, <1>4, <1>5, <1>6, AcquiredObjects

(* Any step keeps it that unspoiled partitions are used through the map.    *)
LEMMA OwnStep ==
  ASSUME TypeOK, LockInv, UseInv, OwnInv, TypeOK', [Next]_vars
  PROVE  OwnInv'
<1>1. CASE Crash
  BY <1>1 DEF Crash, Idle, OwnInv, Objects, Uses
<1>2. CASE UNCHANGED vars
  BY <1>2 DEF vars, obs, OwnInv, Own, Alone, Objects, Uses, Op
<1>3. ASSUME NEW c \in Threads, Step(c) PROVE OwnInv'
  BY <1>3, OwnOfOthers, OwnOfOwn DEF OwnInv
<1>4. QED
  BY <1>1, <1>2, <1>3, StepsOfThreads

(* A call that uses an object of an unspoiled partition uses the mapped     *)
(* one, or nothing of the partition is acknowledged.                        *)
LEMMA ObjectIsMapped ==
  ASSUME TypeOK, OwnInv, NEW c \in Threads, go[c].id # None, Start(c) \notin spoiled
  PROVE  \/ partitions[Start(c)] = go[c].id
         \/ Op(c) = "clear" /\ \A t \in acked : StartOf(t) # Start(c)
<1>1. go[c].id \in Objects(c)
  BY DEF Objects, Uses
<1>2. QED
  BY <1>1 DEF OwnInv, Own, Alone, Start

(* Insert leaves its timestamps in its object, if anything still refers to  *)
(* the object.                                                              *)
LEMMA InsertedTimes ==
  ASSUME TypeOK, LockInv, UseInv, NEW c \in Threads, Insert(c)
  PROVE  /\ partitions' = partitions /\ heap'[go[c].id] \in Object \union {None}
         /\ heap'[go[c].id] # None => go[c].ts \subseteq heap'[go[c].id].has
<1> DEFINE h == [heap EXCEPT ![go[c].id].has = @ \union go[c].ts]
<1>1. go[c].id \in Ids /\ heap[go[c].id] \in Object /\ go[c].ts \in SUBSET Times
  BY ObjectInUse DEF Insert, PC
<1>2. h[go[c].id] \in Object /\ go[c].ts \subseteq h[go[c].id].has
  BY <1>1 DEF Object, TypeOK, ObjectsOK
<1>3. heap'[go[c].id] \in {h[go[c].id], None}
  BY <1>1 DEF Insert, Collected
<1>4. partitions' = partitions
  BY DEF Insert
<1>5. QED
  BY <1>2, <1>3, <1>4

(* Other calls do not come between a save and what it saves: the file lock  *)
(* keeps them from the file, a partition that is being evicted is used by   *)
(* nobody else, and a Set whose timestamp is deleted is not a Set any more. *)
LEMMA SaveOfOthers ==
  ASSUME TypeOK, LockInv, UseInv, OwnInv, SaveInv, NEW c \in Threads, Step(c),
         NEW e \in Threads \ {c}
  PROVE  SaveOf(e)'
<1>1. /\ PC(e)' = PC(e) /\ go'[e].id = go[e].id /\ go'[e].ts = go[e].ts
      /\ go'[e].snap = go[e].snap /\ Op(e)' \in {Op(e), "voidset"}
      /\ Wrote(c) /\ Observed(c) /\ SaveOf(e)
  BY OthersObjects, SaveSteps, ObservedSteps DEF SaveInv
<1>2. SUFFICES ASSUME go[e].id # None, Start(e) \notin spoiled'
               PROVE  SaveOf(e)'
  BY <1>1, OthersObjects DEF SaveOf
<1>3. /\ go[e].id \in Objects(e) /\ go[e].id \in Ids /\ Start(e)' = Start(e)
      /\ heap[go[e].id] # None /\ heap'[go[e].id] # None /\ Start(e) \notin spoiled
  BY <1>1, <1>2, OthersObjects, ObjectsOf, ObjectAssumption DEF Kept, Observed
<1>4. ASSUME PC(e) = "meta" PROVE file' = file
  <2>1. PC(c) # "rename"
    BY <1>4 DEF LockInv
  <2>2. QED
    BY <1>1, <2>1 DEF Wrote, Rename, PC
<1>5. ASSUME Op(e)' = "set"
      PROVE  /\ PC(e) \in {"save", "rename", "meta"} => go[e].ts \subseteq heap'[go[e].id].has
             /\ PC(e) = "rename" => go[e].ts \subseteq go[e].snap
             /\ PC(e) = "meta" => \A t \in go[e].ts : InFile(t)'
  <2>1. Op(e) = "set" /\ Content(c, go[e].id)
    BY <1>1, <1>3, <1>5, ContentSteps
  <2>2. \A t \in go[e].ts : t \in heap[go[e].id].has => t \in heap'[go[e].id].has
    BY <1>1, <1>3, <1>5, <2>1 DEF Content
  <2>3. QED
    BY <1>1, <1>2, <1>3, <1>4, <2>1, <2>2 DEF SaveOf, InFile
<1>6. ASSUME NEW t \in acked', StartOf(t) = Start(e), immediate \/ Op(e) = "evict"
      PROVE  /\ PC(e) = "rename" => t \in go[e].snap
             /\ PC(e) = "meta" => InFile(t)'
  <2>1. CASE t \in acked
    BY <1>1, <1>2, <1>3, <1>4, <1>6, <2>1 DEF SaveOf, InFile
  <2>2. CASE t \notin acked
    <3>1. /\ Op(c) \in {"set", "voidset"} /\ t \in go[c].ts
          /\ PC(c) = "meta" \/ (PC(c) = "insert" /\ ~immediate)
      BY <1>1, <2>2 DEF Observed
    <3>2. CASE PC(c) = "meta"
      BY <3>2, SyncAssumption DEF LockInv
    <3>3. CASE PC(c) = "insert" /\ ~immediate
      <4>1. go[c].id \in Objects(c) /\ go[c].id # None
        BY <3>3, ObjectInUse DEF Objects
      <4>2. Start(c) = StartOf(t)
        BY <3>1, <4>1 DEF UseInv, UseOf
      <4>3. partitions[Start(c)] = go[c].id
        BY <1>3, <1>6, <3>1, <4>1, <4>2, ObjectIsMapped
      <4>4. partitions[Start(e)] = go[e].id /\ go[e].id \notin Objects(c)
        BY <1>3, <1>6, <3>3 DEF OwnInv, Own, Start
      <4>5. QED
        BY <1>6, <4>1, <4>2, <4>3, <4>4
    <3>4. QED
      BY <3>1, <3>2, <3>3
  <2>3. QED
    BY <2>1, <2>2
<1>7. QED
  BY <1>1, <1>3, <1>5, <1>6 DEF SaveOf, Wrote

(* A save writes what its call has to have in the file: the snapshot holds  *)
(* what is acknowledged, for that is visible.                               *)
LEMMA SaveOfOwn ==
  ASSUME TypeOK, LockInv, UseInv, OwnInv, SaveInv, AckedIsVisible, TypeOK', UseInv',
         NEW c \in Threads, Step(c)
  PROVE  SaveOf(c)'
<1>1. Wrote(c) /\ go[c] \in Call /\ SaveOf(c) /\ go \in [Threads -> Call]
  BY SaveSteps DEF SaveInv, TypeOK
<1>2. CASE PC(c)' = "save" /\ Op(c)' = "set"
  <2>1. Insert(c) /\ immediate
    <3>1. Insert(c)
      BY <1>1, <1>2 DEF Wrote
    <3>2. QED
      BY <1>1, <1>2, <3>1 DEF Insert, Return, Idle, PC
  <2>2. go'[c].ts = go[c].ts /\ go'[c].id = go[c].id
    BY <1>1, <2>1 DEF Insert, Goto, Call
  <2>3. go'[c].id # None => heap'[go'[c].id] # None
    BY DEF UseInv, UseOf, Objects, Uses
  <2>4. go'[c].id # None => go'[c].ts \subseteq heap'[go'[c].id].has
    BY <2>1, <2>2, <2>3, InsertedTimes
  <2>5. QED
    BY <1>2, <2>4 DEF SaveOf
<1>3. CASE PC(c)' = "rename"
  <2>1. Snapshot(c)
    BY <1>1, <1>3 DEF Wrote
  <2>2. /\ PC(c) = "save" /\ heap' = heap /\ spoiled' = spoiled /\ acked' = acked
        /\ immediate' = immediate
        /\ go'[c].id = go[c].id /\ go'[c].ts = go[c].ts /\ Op(c)' = Op(c)
        /\ go'[c].snap = heap[go[c].id].has
    BY <1>1, <2>1 DEF Snapshot, obs, Call, PC, Op
  <2>3. ASSUME go[c].id # None, Start(c) \notin spoiled, NEW t \in acked, StartOf(t) = Start(c)
        PROVE  t \in heap[go[c].id].has
    <3>1. partitions[StartOf(t)] = go[c].id
      BY <2>3, ObjectIsMapped
    <3>2. t \in Times /\ StartOf(t) \in Mapped
      BY <2>3, <3>1, StartTimes DEF Mapped, TypeOK
    <3>3. QED
      BY <2>3, <3>1, <3>2 DEF AckedIsVisible
  <2>4. QED
    BY <1>1, <1>3, <2>2, <2>3 DEF SaveOf, Start
<1>4. CASE PC(c)' = "meta"
  <2>1. Rename(c)
    BY <1>1, <1>4 DEF Wrote
  <2>2. /\ PC(c) = "rename" /\ heap' = heap /\ spoiled' = spoiled /\ acked' = acked
        /\ immediate' = immediate
        /\ go'[c].id = go[c].id /\ go'[c].ts = go[c].ts /\ Op(c)' = Op(c)
        /\ file' = [file EXCEPT ![Start(c)] = go[c].snap]
    BY <1>1, <2>1 DEF Rename, obs, Call, PC, Op, Start
  <2>3. Start(c) \in Starts /\ go[c].snap \in SUBSET Times /\ go[c].id # None
    BY <2>2, ObjectInUse DEF Objects
  <2>4. \A t : StartOf(t) = Start(c) /\ t \in go[c].snap => InFile(t)'
    BY <2>2, <2>3, ObjectAssumption DEF InFile, TypeOK
  <2>5. Op(c) \in {"set", "voidset"} => \A t \in go[c].ts : StartOf(t) = Start(c)
    BY <2>3 DEF UseInv, UseOf
  <2>6. QED
    BY <1>1, <1>4, <2>2, <2>4, <2>5 DEF SaveOf, Start
<1>5. CASE PC(c)' \notin {"rename", "meta"} /\ ~(PC(c)' = "save" /\ Op(c)' = "set")
  BY <1>5 DEF SaveOf
<1>6. QED
  BY <1>2, <1>3, <1>4, <1>5

(* Any step keeps it that saves do not lose what is acknowledged.           *)
LEMMA SaveStep ==
  ASSUME TypeOK, LockInv, UseInv, OwnInv, SaveInv, AckedIsVisible, TypeOK', UseInv', [Next]_vars
  PROVE  SaveInv'
<1>1. CASE Crash
  BY <1>1 DEF Crash, Idle, SaveInv, SaveOf
<1>2. CASE UNCHANGED vars
  BY <1>2 DEF vars, obs, disk, SaveInv, SaveOf, Start, PC, Op, InFile
<1>3. ASSUME NEW c \in Threads, Step(c) PROVE SaveInv'
  BY <1>3, SaveOfOthers, SaveOfOwn DEF SaveInv
<1>4. QED
  BY <1>1, <1>2, <1>3, StepsOfThreads

(* When the partition of an acknowledged timestamp is unmapped its file has *)
(* the timestamp, and when it is mapped its object has it.                  *)
Followed(c, t) ==
  LET s == StartOf(t) IN
  \/ partitions'[s] = partitions[s]
  \/ partitions'[s] = None /\ InFile(t) /\ file' = file
  \/ partitions'[s] # None /\ t \in heap'[partitions'[s]].has

(* Every step of a thread is as Followed says for what stays acknowledged:  *)
(* cleanup unmaps empty partitions, an eviction what it has saved.          *)
LEMMA FollowedSteps ==
  ASSUME TypeOK, LockInv, UseInv, SaveInv, AckedIsVisible, TypeOK', NEW c \in Threads, Step(c),
         NEW a \in acked, a \in acked'
  PROVE  Followed(c, a)
<1>0. /\ a \in Times /\ StartOf(a) \in Starts
      /\ StartOf(a) \notin spoiled /\ StartOf(a) \notin spoiled'
  BY StartTimes DEF TypeOK
<1>00. StartOf(a) \in Mapped => a \in heap[partitions[StartOf(a)]].has
  BY DEF AckedIsVisible
<1>1. ASSUME NEW t \in workload.times, Set(c, t) PROVE Followed(c, a)
  BY <1>1 DEF Followed, Set
<1>2. ASSUME NEW t \in workload.times, Get(c, t) PROVE Followed(c, a)
  BY <1>2 DEF Followed, Get
<1>3. ASSUME NEW lo \in workload.times, NEW hi \in workload.times, DeleteRange(c, lo, hi)
      PROVE  Followed(c, a)
  BY <1>3 DEF Followed, DeleteRange
<1>4. ASSUME Clear(c) PROVE Followed(c, a)
  BY <1>4, <1>0 DEF Followed, Clear, Sound, Mapped
<1>5. ASSUME Cleanup(c), c = Maintainer PROVE Followed(c, a)
  <2>1. PICK kept, out \in SUBSET Starts : CleanedUp(kept, out)
    BY <1>5, CleanedUpPartitions
  <2>2. StartOf(a) \notin Mapped \ kept
    BY <1>00, <2>1 DEF CleanedUp
  <2>3. QED
    BY <1>0, <2>1, <2>2 DEF CleanedUp, Followed, Mapped
<1>6. ASSUME Flush(c), c = Maintainer PROVE Followed(c, a)
  BY <1>6 DEF Followed, Flush
<1>7. ASSUME Lookup(c) PROVE Followed(c, a)
  BY <1>7 DEF Followed, Lookup
<1>8. ASSUME MapPartition(c) PROVE Followed(c, a)
  <2>1. PICK u \in go[c].ts, id \in Ids, loaded \in BOOLEAN :
          /\ StartOf(u) \notin Mapped
          /\ partitions' = [partitions EXCEPT ![StartOf(u)] = id]
          /\ heap' = Collected([heap EXCEPT ![id] = ObjectFor(u, loaded)])
          /\ ~loaded => StartOf(u) \in spoiled'
    BY <1>8 DEF MapPartition
  <2>2. CASE StartOf(u) = StartOf(a)
    <3>1. a \in ObjectFor(u, loaded).has
      BY <1>0, <2>1, <2>2 DEF AckedIsVisible, ObjectFor
    <3>2. partitions'[StartOf(a)] = id /\ id # None
      BY <1>0, <2>1, <2>2, SyncAssumption DEF TypeOK, ObjectsOK
    <3>3. heap'[id] = ObjectFor(u, loaded)
      BY <1>0, <2>1, <3>2 DEF Collected, TypeOK, ObjectsOK
    <3>4. QED
      BY <3>1, <3>2, <3>3 DEF Followed
  <2>3. CASE StartOf(u) # StartOf(a)
    BY <2>1, <2>3 DEF Followed, TypeOK, ObjectsOK
  <2>4. QED
    BY <2>2, <2>3
<1>9. ASSUME Snapshot(c) PROVE Followed(c, a)
  BY <1>9 DEF Followed, Snapshot
<1>10. ASSUME Insert(c) PROVE Followed(c, a)
  BY <1>10 DEF Followed, Insert
<1>11. ASSUME Rename(c) PROVE Followed(c, a)
  BY <1>11 DEF Followed, Rename
<1>12. ASSUME SaveMeta(c) PROVE Followed(c, a)
  <2>1. /\ PC(c) \in {"rename", "meta"} /\ file' = file
        /\ partitions' = IF Op(c) = "evict" THEN [partitions EXCEPT ![Start(c)] = None]
                         ELSE partitions
        /\ Op(c) = "evict" => (SaveMeta(c) /\ PC(c) = "meta") \/ Start(c) \in spoiled'
    BY <1>12 DEF SaveMeta, AfterSave, Op, PC, Start, disk
  <2>2. go[c].id \in Objects(c) /\ Start(c) \in Starts
    BY <2>1, ObjectInUse
  <2>3. CASE Op(c) = "evict" /\ StartOf(a) = Start(c)
    <3>1. PC(c) = "meta" /\ Start(c) \notin spoiled /\ go[c].id # None
      BY <1>0, <2>1, <2>2, <2>3 DEF Objects
    <3>2. InFile(a)
      BY <2>3, <3>1 DEF SaveInv, SaveOf
    <3>3. QED
      BY <2>1, <2>2, <2>3, <3>2 DEF Followed, TypeOK, ObjectsOK
  <2>4. CASE ~(Op(c) = "evict" /\ StartOf(a) = Start(c))
    BY <2>1, <2>4 DEF Followed, TypeOK, ObjectsOK
  <2>5. QED
    BY <2>3, <2>4
<1>13. ASSUME SaveNext(c) PROVE Followed(c, a)
  BY <1>13 DEF Followed, SaveNext
<1>14. ASSUME DeleteNext(c) PROVE Followed(c, a)
  <2>1. PICK i \in Ids : Deleted(c, i)
    BY <1>14, DeletedObjects
  <2>2. CASE partitions' = partitions
    BY <2>2 DEF Followed
  <2>3. CASE /\ partitions' = [partitions EXCEPT ![heap[i].start] = None]
             /\ heap[i].has \intersect go[c].ts = heap[i].has
    <3>1. a \notin heap[i].has
      BY <2>1, <2>3 DEF Deleted
    <3>2. StartOf(a) # heap[i].start
      BY <1>0, <1>00, <2>1, <3>1, SyncAssumption DEF Deleted, Mapped
    <3>3. QED
      BY <2>3, <3>2 DEF Followed, TypeOK, ObjectsOK
  <2>4. QED
    BY <2>1, <2>2, <2>3 DEF Deleted
<1>15. ASSUME Finish(c) PROVE Followed(c, a)
  BY <1>15 DEF Followed, Finish
<1>16. ASSUME SaveFails(c) PROVE Followed(c, a)
  <2>1. /\ PC(c) \in {"rename", "meta"} /\ file' = file
        /\ partitions' = IF Op(c) = "evict" THEN [partitions EXCEPT ![Start(c)] = None]
                         ELSE partitions
        /\ Op(c) = "evict" => (SaveMeta(c) /\ PC(c) = "meta") \/ Start(c) \in spoiled'
    BY <1>16 DEF SaveFails, AfterSave, Op, PC, Start, disk
  <2>2. go[c].id \in Objects(c) /\ Start(c) \in Starts
    BY <2>1, ObjectInUse
  <2>3. CASE Op(c) = "evict" /\ StartOf(a) = Start(c)
    <3>1. PC(c) = "meta" /\ Start(c) \notin spoiled /\ go[c].id # None
      BY <1>0, <2>1, <2>2, <2>3 DEF Objects
    <3>2. InFile(a)
      BY <2>3, <3>1 DEF SaveInv, SaveOf
    <3>3. QED
      BY <2>1, <2>2, <2>3, <3>2 DEF Followed, TypeOK, ObjectsOK
  <2>4. CASE ~(Op(c) = "evict" /\ StartOf(a) = Start(c))
    BY <2>1, <2>4 DEF Followed, TypeOK, ObjectsOK
  <2>5. QED
    BY <2>3, <2>4
<1>17. QED
  BY <1>1, <1>2, <1>3, <1>4, <1>5, <1>6, <1>7, <1>8, <1>9,
     <1>10, <1>11, <1>12, <1>13, <1>14, <1>15, <1>16
  DEF Step, LockStep, FreeStep

(* What a step acknowledges is in the object that is mapped for it, and in  *)
(* a cache that flushes at once in the file.                                *)
LEMMA NewlyAcked ==
  ASSUME TypeOK, LockInv, UseInv, OwnInv, SaveInv, TypeOK', NEW c \in Threads, Step(c),
         NEW t \in acked', t \notin acked
  PROVE  /\ partitions'[StartOf(t)] = go[c].id /\ go[c].id # None
         /\ t \in heap'[go[c].id].has
         /\ immediate' => InFile(t)'
<1>1. /\ Op(c) \in {"set", "voidset"} /\ t \in go[c].ts /\ Observed(c)
      /\ \/ Insert(c) /\ PC(c) = "insert" /\ ~immediate
         \/ SaveMeta(c) /\ PC(c) = "meta" /\ Op(c) = "set"
  BY ObservedSteps DEF Observed
<1>2. /\ go[c].id \in Objects(c) /\ go[c].id # None /\ go[c].id \in Ids
      /\ heap[go[c].id] \in Object /\ Start(c) \in Starts
  BY <1>1, ObjectInUse DEF Objects
<1>3. StartOf(t) = Start(c) /\ Start(c) \notin spoiled
  BY <1>1, <1>2 DEF UseInv, UseOf, Observed, TypeOK
<1>4. partitions[Start(c)] = go[c].id
  BY <1>1, <1>2, <1>3, ObjectIsMapped
<1>5. CASE Insert(c) /\ ~immediate
  <2>1. partitions' = partitions /\ immediate' = immediate
    BY <1>5, InsertedTimes DEF Insert
  <2>2. heap'[go[c].id] # None
    BY <1>2, <1>4, <2>1 DEF TypeOK, ObjectsOK, Mapped
  <2>3. QED
    BY <1>1, <1>2, <1>3, <1>4, <1>5, <2>1, <2>2, InsertedTimes
<1>6. CASE SaveMeta(c) /\ PC(c) = "meta" /\ Op(c) = "set"
  <2>1. partitions' = partitions /\ heap' = Collected(heap) /\ file' = file
    BY <1>6 DEF SaveMeta, AfterSave, Op
  <2>2. heap'[go[c].id] = heap[go[c].id]
    BY <1>2, <1>4, <2>1 DEF Collected
  <2>3. t \in heap[go[c].id].has /\ InFile(t)
    BY <1>1, <1>2, <1>3, <1>6 DEF SaveInv, SaveOf
  <2>4. QED
    BY <1>2, <1>3, <1>4, <2>1, <2>2, <2>3 DEF InFile
<1>7. QED
  BY <1>1, <1>5, <1>6

(* Acknowledged timestamps stay visible.                                    *)
LEMMA VisibleStep ==
  ASSUME TypeOK, LockInv, UseInv, OwnInv, SaveInv, AckedIsVisible, AckedIsDurable,
         FileInv, TypeOK', [Next]_vars
  PROVE  AckedIsVisible'
<1>1. CASE Crash
  <2>1. SUFFICES ASSUME NEW t \in acked'
                 PROVE  IF StartOf(t) \in Mapped' THEN t \in heap'[partitions'[StartOf(t)]].has
                        ELSE InFile(t)'
    BY DEF AckedIsVisible, InFile
  <2>2. InFile(t) /\ file' = file /\ StartOf(t) \in Starts
    BY <1>1, StartTimes DEF Crash, AckedIsDurable, InFile, TypeOK
  <2>3. StartOf(t) \in Mapped' =>
          heap'[partitions'[StartOf(t)]] = [start |-> StartOf(t), has |-> file[StartOf(t)]]
    BY <1>1, RestartedObjects DEF Mapped
  <2>4. QED
    BY <2>2, <2>3 DEF InFile
<1>2. CASE UNCHANGED vars
  BY <1>2 DEF vars, obs, disk, AckedIsVisible, Mapped
<1>3. ASSUME NEW c \in Threads, Step(c) PROVE AckedIsVisible'
  <2>1. SUFFICES ASSUME NEW t \in acked'
                 PROVE  IF partitions'[StartOf(t)] # None
                        THEN t \in heap'[partitions'[StartOf(t)]].has ELSE InFile(t)'
    BY StartTimes DEF AckedIsVisible, InFile, Mapped, TypeOK
  <2> DEFINE s == StartOf(t)
  <2>2. /\ t \in Times /\ s \in Starts /\ s \notin spoiled' /\ s \notin spoiled
        /\ Wrote(c)
    BY <1>3, StartTimes, SaveSteps, ObservedSteps DEF TypeOK, Observed
  <2>3. CASE t \notin acked
    BY <1>3, <2>3, NewlyAcked
  <2>4. CASE t \in acked /\ partitions'[s] = partitions[s] /\ partitions[s] # None
    <3>1. /\ partitions[s] \in Ids /\ heap[partitions[s]] # None /\ heap'[partitions[s]] # None
          /\ t \in heap[partitions[s]].has
      BY <2>2, <2>4 DEF TypeOK, ObjectsOK, Mapped, AckedIsVisible
    <3>2. QED
      BY <1>3, <2>4, <3>1, ContentSteps DEF Content
  <2>5. CASE t \in acked /\ partitions'[s] = partitions[s] /\ partitions[s] = None
    <3>1. InFile(t)
      BY <2>2, <2>5 DEF Mapped, AckedIsVisible, InFile
    <3>2. CASE file' = file
      BY <2>5, <3>1, <3>2 DEF InFile
    <3>3. CASE Rename(c)
      <4>1. PC(c) = "rename" /\ file' = [file EXCEPT ![Start(c)] = go[c].snap]
        BY <3>3 DEF Rename, PC, Start
      <4>2. go[c].id \in Ids /\ go[c].id # None
        BY <4>1, ObjectInUse, SyncAssumption
      <4>3. s # Start(c)
        BY <2>2, <2>5, <4>2, ObjectIsMapped
      <4>4. QED
        BY <2>5, <3>1, <4>1, <4>3 DEF InFile, TypeOK
    <3>4. QED
      BY <2>2, <3>2, <3>3 DEF Wrote
  <2>6. CASE t \in acked /\ partitions'[s] # partitions[s]
    BY <1>3, <2>6, FollowedSteps DEF Followed, InFile
  <2>7. QED
    BY <2>3, <2>4, <2>5, <2>6
<1>4. QED
  BY <1>1, <1>2, <1>3, StepsOfThreads

(* In a cache that flushes at once they stay in the files.                  *)
LEMMA DurableStep ==
  ASSUME TypeOK, LockInv, UseInv, OwnInv, SaveInv, AckedIsDurable, TypeOK', [Next]_vars
  PROVE  AckedIsDurable'
<1>1. CASE Crash
  BY <1>1 DEF Crash, AckedIsDurable
<1>2. CASE UNCHANGED vars
  BY <1>2 DEF vars, obs, disk, AckedIsDurable
<1>3. ASSUME NEW c \in Threads, Step(c) PROVE AckedIsDurable'
  <2>1. SUFFICES ASSUME immediate', NEW t \in acked' PROVE InFile(t)'
    BY DEF AckedIsDurable, InFile
  <2>2. /\ t \in Times /\ StartOf(t) \in Starts /\ StartOf(t) \notin spoiled
        /\ Wrote(c) /\ immediate
    BY <1>3, <2>1, StartTimes, SaveSteps, ObservedSteps DEF TypeOK, Observed, Wrote
  <2>3. CASE t \notin acked
    BY <1>3, <2>1, <2>3, NewlyAcked
  <2>4. CASE t \in acked /\ file' = file
    BY <2>2, <2>4 DEF AckedIsDurable, InFile
  <2>5. CASE t \in acked /\ Rename(c)
    <3>1. PC(c) = "rename" /\ file' = [file EXCEPT ![Start(c)] = go[c].snap]
      BY <2>5 DEF Rename, PC, Start
    <3>2. /\ go[c].id \in Ids /\ go[c].id # None /\ Start(c) \in Starts
          /\ go[c].snap \in SUBSET Times
      BY <3>1, ObjectInUse, SyncAssumption
    <3>3. StartOf(t) = Start(c) => t \in go[c].snap
      BY <2>2, <2>5, <3>1, <3>2 DEF SaveInv, SaveOf
    <3>4. InFile(t)
      BY <2>2, <2>5 DEF AckedIsDurable, InFile
    <3>5. QED
      BY <2>2, <3>1, <3>2, <3>3, <3>4, ObjectAssumption DEF InFile, TypeOK
  <2>6. QED
    BY <2>2, <2>3, <2>4, <2>5 DEF Wrote
<1>4. QED
  BY <1>1, <1>2, <1>3, StepsOfThreads

-----------------------------------------------------------------------------
(* Initially nothing is mapped, in use or acknowledged.                     *)
LEMMA InitInv == Init => Inv
<1> SUFFICES ASSUME Init PROVE Inv
  OBVIOUS
<1>1. TypeOK
  BY DEF Init, TypeOK, ObjectsOK, Mapped, Idle, Call
<1>2. /\ \A c \in Threads : go[c] = Idle /\ c # None
      /\ acked = {} /\ file = [s \in Starts |-> None] /\ mu = None /\ fileMu = None
  BY SyncAssumption DEF Init
<1>3. LockInv
  BY <1>2 DEF LockInv, CallInv, PC, Op, Idle
<1>4. \A c \in Threads : Objects(c) = {}
  BY <1>2 DEF Objects, Uses, Idle
<1>5. UseInv /\ OwnInv /\ SaveInv
  BY <1>2, <1>4 DEF UseInv, UseOf, OwnInv, SaveInv, SaveOf, Op, Idle
<1>6. FileInv
  BY <1>2 DEF FileInv, PC, Idle
<1>7. AckedIsVisible /\ AckedIsDurable
  BY <1>2 DEF AckedIsVisible, AckedIsDurable
<1>8. QED
  BY <1>1, <1>3, <1>5, <1>6, <1>7 DEF Inv

(* The invariant is inductive.                                              *)
LEMMA InvStep == Inv /\ [Next]_vars => Inv'
<1> SUFFICES ASSUME Inv, [Next]_vars PROVE Inv'
  OBVIOUS
<1>1. /\ TypeOK /\ LockInv /\ UseInv /\ FileInv
      /\ OwnInv /\ SaveInv /\ AckedIsVisible /\ AckedIsDurable
  BY DEF Inv
<1>2. TypeOK' /\ LockInv' /\ ObjectsOK'
  BY <1>1, TypesStep, LockInvStep, ObjectsStep
<1>3. UseInv' /\ FileInv'
  BY <1>1, <1>2, UseStep, FileStep
<1>4. OwnInv' /\ SaveInv'
  BY <1>1, <1>2, <1>3, OwnStep, SaveStep
<1>5. AckedIsVisible' /\ AckedIsDurable'
  BY <1>1, <1>2, VisibleStep, DurableStep
<1>6. QED
  BY <1>2, <1>3, <1>4, <1>5 DEF Inv

(* The invariant holds in every reachable state.                            *)
LEMMA Invariance == Spec => []Inv
BY InitInv, InvStep, PTL DEF Spec

(* The map, the objects, the files and the calls are well formed whatever   *)
(* calls, failures and crashes overlap: in particular an object that is     *)
(* mapped exists, and holds timestamps of its own partition only            *)
(* (tscache/cache.go, getPartition).                                        *)
THEOREM SyncTypes == Spec => []TypeOK
BY Invariance, PTL DEF Inv

(* A timestamp whose Set returned no error is found until it is deleted:    *)
(* saves, evictions, reloads and crashes between the steps of other calls   *)
(* lose it only where an object was replaced under a call, or a load or an  *)
(* evicting save failed.                                                    *)
THEOREM AcknowledgedSetsAreVisible == Spec => []AckedIsVisible
BY Invariance, PTL DEF Inv

(* With FlushImmediately it is in the file of its partition as well: no     *)
(* save of the partition brings back an older content (SavePartition takes  *)
(* its copy under fileMu).                                                  *)
THEOREM AcknowledgedSetsAreDurable == Spec => []AckedIsDurable
BY Invariance, PTL DEF Inv

\* The calls that wait for a lock that another has; LoadPartition takes fileMu
\* with mu held, and a flush has mu for reading.
Waits(c) ==
  \/ PC(c) = "save" /\ fileMu # None
  \/ PC(c) = "lookup" /\ \A t \in go[c].ts :
       IF StartOf(t) \in Mapped THEN mu # None ELSE ~CanLock \/ fileMu # None

NotAllWait ==
  (\E c \in Threads : PC(c) # "idle") => \E c \in Threads : PC(c) # "idle" /\ ~Waits(c)

(* No deadlock, for any callers, partitions and limit: of the calls in      *)
(* progress one waits for no lock.  mu is taken before fileMu, and who has  *)
(* fileMu waits for nothing (tscache/cache.go:128-356, storage.go:77-145).  *)
THEOREM CallsDoNotAllWait == Spec => []NotAllWait
<1>1. ASSUME Inv, NEW c \in Threads, PC(c) # "idle"
      PROVE  \E d \in Threads : PC(d) # "idle" /\ ~Waits(d)
  <2>1. /\ LockInv /\ \A d \in Threads : d # None /\ go[d] \in Call
        /\ mu \in Threads \union {None} /\ fileMu \in Threads \union {None}
    BY <1>1, SyncAssumption DEF Inv, TypeOK
  <2> SUFFICES ASSUME \A d \in Threads : PC(d) # "idle" => Waits(d) PROVE FALSE
    OBVIOUS
  <2>2. fileMu = None
    BY <2>1 DEF LockInv, Waits
  <2>3. \A d \in Threads : PC(d) \in {"idle", "lookup"}
    BY <2>2 DEF Waits
  <2>4. \A d \in Threads : Op(d) \in {"none", "set", "get"}
    BY <2>1, <2>3 DEF LockInv, CallInv
  <2>5. mu = None /\ CanLock
    BY <2>1, <2>4 DEF LockInv, CanLock, Op
  <2>6. PC(c) = "lookup" /\ \E t \in Times : go[c].ts = {t}
    BY <1>1, <2>1, <2>3 DEF LockInv, CallInv
  <2> QED
    BY <2>2, <2>5, <2>6 DEF Waits
<1>2. Inv => NotAllWait
  BY <1>1 DEF NotAllWait
<1> QED
  BY <1>2, Invariance, PTL
=============================================================================
